# RaftCPP: specification, model checking and proofs

RaftCPP is the election part of Raft in C++ ("No log support now", says its
README). This directory models it in TLA+, checks the model with TLC on small
clusters and proves, with TLAPS, every safety property that the runs find to hold, for
clusters of any size. It also models the parts of the vendored glog that have state and
threads of their own, and proves their safety for any limits and numbers of threads.

## The system

| Part | Source | Module |
|---|---|---|
| Daemon thread of a peer | `src/raft.h` `LaunchRaftDemon` | `Raft` |
| Handlers `Vote`, `AppendMsg` | `src/raft.h` | `Raft`, `Wire` |
| Constructor, `Kill`, destructor | `src/raft.cpp` | `Raft` |
| Messages, stubs, dispatch | `protofiles/raft.proto`, `src/raft.rpcz.cc` | `Wire`, `Raft` |
| Log | `src/consensus_log.h` | `LogSize` in `Raft` |
| `GetStatus`, `Op`, `RWLock` | `src/raft.h`, `src/raft.cpp` | `RaftClient` |
| What an election promises | the same, without calls, locks, clocks, terms | `Election`, `RaftElection` |
| Deadlines against patience | `src/raft.h` | `Heartbeats` |
| Program that starts the peers | `src/main.cpp` | not modelled; it builds the set `Peers` |
| rpcz, protobuf | external | as far as the code uses them |
| glog: a log file | `lib/glog/src/logging.cc` `LogFileObject` | `LogFile` |
| glog: messages and sinks | `lib/glog/src/logging.cc` `LogMessage`, `LogDestination` | `LogMessages` |
| glog's other parts, googletest, googlemock | `lib/` | not modelled |

A peer has two threads. The daemon sleeps for 5 s, makes one stub for each other
peer and then loops: a follower that has waited too long for its leader becomes a
candidate if it has not voted, and otherwise *expels* the peer it voted for from
its own membership (`peers_`, `channels`); a candidate raises its term and calls
`Vote` on each member; a leader calls `AppendMsg` on each member, and steps down
at the first refusal. The RPC server runs the handlers. Daemon and handlers share
the mutex `lock_`, and the daemon holds it for a whole iteration, its synchronous
calls (deadline 1000 ms) included. `Vote` ignores terms: a peer gives its vote if
it follows and has not voted. `GetStatus` and `Op`, which clients call, take no
`lock_`; `Op` takes `log_lock_` around an empty body.

## Modules

* `Wire`: the width of a term (`uint64_t`, narrowed to `int` in `AppendMsg`), the
  `-1` the constructor stores in it, and the `required` fields of the requests
  against those the daemon fills in.
* `Raft`: the cluster. State, initial state, one action per step, the
  properties.
* `RaftInvariant`: the inductive invariant `IInv`.
* `RaftLemmas`: what the proofs rest on, and that every step preserves the types and
  the consistency of the loop.
* `RaftProofs`: that every step preserves the conjuncts of `IInv` about votes and
  terms, and the theorems.
* `Election`: the abstract election: roles, choices, memberships, who has led.
* `RaftElection`: `Raft` as an implementation of `Election` (`INSTANCE ... WITH`).
* `ElectionProofs`, `RaftElectionProofs`: that one peer ever leads in `Election`,
  that `Raft` implements it, and so that one peer ever leads in `Raft`.
* `RaftClient`: the handlers of clients, composed with every step of `Raft`;
  `RaftClientProofs` its theorems.
* `Heartbeats`: the time a campaign and the rounds of heartbeats take;
  `HeartbeatsProofs` its theorems.
* `LogFile`, `LogMessages`: glog; `LogFileProofs`, `LogMessagesProofs` their theorems.
* `MCRaft`, `MCRaftClient`: what the `.cfg` files need (symmetry).

Definitions called a *faulty variant* are plausible bugs, one for each property:
with the variant in the place of the definition it precedes, the property fails.

### State

| Variable | Code |
|---|---|
| `status`, `vote_for`, `term`, `is_dead` | `status_`, `vote_for_` (`Nobody` is `""`), `term_`, `is_dead_` |
| `peers`, `channels` | `peers_`, the keys of the daemon's map of stubs |
| `age` | now minus `leader_active_time_`, in ticks, capped at `MinPatience` |
| `lead` | `peers_next_index_`, `commit_index_`, `last_applied_` (`Unset`: never written) |
| `pc` | the daemon: `boot`, `loop` (lock free), `vote` and `append` (lock held), `exit` |
| `todo` | the members the current for-loop has yet to call |
| `votes` | who granted a vote; `vote_count` is one more than their number. A leader's are kept until it steps down |
| `call` | the synchronous call in progress: `idle`, `sent` or `replied` |
| `late` | requests whose caller has given up on them |

### Actions

| Action | Code |
|---|---|
| `Boot`, `Leave` | start of the daemon (`raft.h:150-165`), end of its loop (167) |
| `BecomeCandidate`, `Expel` | a follower out of patience (170-191) |
| `StartCampaign`, `VoteReturns`, `EndCampaign` (`Win`, `Lose`) | 192-244 |
| `StartHeartbeats`, `AppendReturns`, `EndHeartbeats` | 245-269 |
| `Invoke`, `RpcError` | a call of a stub, and its failure (`raft.rpcz.cc:218-251`) |
| `Serve`, `ServeLate` | dispatch of a request to `Vote` or `AppendMsg`, its caller still waiting or not |
| `Kill`, `KillJoined` | `Kill()` up to the join of the daemon, and after it (`raft.cpp:29-39`) |
| `Tick` | the clock |

Choices that deserve a word:

* The test of `is_dead_` and the acquisition of `lock_` are one step. `Kill()`
  between the two is `Kill()` just after both: nothing else reads `is_dead_`.
* A follower whose patience is not exhausted only sleeps: a stuttering step. The
  patience is drawn anew in each iteration, so `Expel` and `BecomeCandidate` may
  happen at any time from the shortest patience on.
* A call may fail at any time until its reply is read: at the deadline, or
  because the transport, the callee or the parser failed. If it was not handled
  yet, the request may stay behind and be handled at any later time.
* `Kill()` joins the daemon before it terminates the server, so a dying peer goes
  on serving; after `terminate()` no handler runs (rpcz, external).
* `RequiredEnforced` says whether the parser insists on `required` fields.
  Protobuf 2 does, and then no heartbeat is ever handled; the model covers both,
  so that `AppendMsg` and the steps after a refusal are checked too.
* The log is empty for ever: `ConsensusLog` has no operation that adds to it.
* Nothing is persisted and a killed peer is not restarted, so there is no
  recovery to model.

### The abstract election and the refinement

`Election` has no calls: a follower that has chosen nobody may stand, or give its
choice to anybody who asks; a candidate that chose itself is elected if a majority
of its own view *stands by* it; a choice is taken back by losing or by expelling
the chosen one. The mapping is direct: `role`, `choice` and `view` are `status_`,
`vote_for_` and `peers_`, and `led` is the set of peers whose `commit_index_` was
written, which only a won campaign does. The detail that has to be shown harmless
is everything else: a vote that is counted a long time after it was given, requests
that outlive their calls, replies that are lost, heartbeats of a former leader.

### Clients

`GetStatus` and `Op` read `status_` without a lock. `GetStatus` is one step; `Op` is
three: the test, the lock, and the unlock with the reply, and between them anything may
happen to the peer. `claims` collects every peer that told a client that it leads,
now or ever. A reply that says otherwise changes nothing. The term in the answer of
`GetStatus` is read apart from the status, so nothing is claimed about it.

### Time

`Raft` lets a follower lose patience at any time from the shortest patience on, and
a call fail at any time. `Heartbeats` keeps the durations instead and drops the rest:
one daemon that campaigns and then leads, and the age of `leader_active_time_` at each
peer it calls. The peers are called in a fixed order, as the iteration of an unchanged
`unordered_set` is. A reply may be lost, so a campaign may also end in defeat. A request
is handled only if the parser accepts it (`Decodes`): if `required` fields are enforced
no heartbeat restarts any clock.

### glog

`LogFile` is one `LogFileObject`. Every public operation holds its `lock_`, so each is
one step; `Write` is split by its outcomes, for messages of length 0 (the forced flush)
to `MaxLen`. Beside the members of the class it has the bytes that really are in the
file and in the stdio buffer (`actual`, `pending`, `oldest`) and the messages lost since
the last attempt to create a file (`missed`), which the properties compare with the
members. The global `stop_writing` belongs to the one file of the model. The pid that
`PidHasChanged` compares is one static for all files, so a fork may be noticed by
another file first (`OtherFileAsks`), and this one then goes on as if there had been
none. Three things are assumed of the environment: `fflush` empties the buffer (a flush
that meets a full disk loses what it held, and does not keep it), a message that meets a
full disk leaves nothing behind, and the clock of `CycleClock_Now`, which is
`gettimeofday`, never jumps.

`LogMessages` is the path of a message: `Init` with the exclusive buffer for the first
fatal one, `Flush` and `SendToLog` under `log_mutex`, `LogToSinks` and `WaitForSinks`
under a share of `sink_mutex_`, `Fail`. Every user may register a sink and remove it.
The owner's is the one of `logging_unittest.cc:896-1022`, the hardest the header allows:
its own thread logs two messages for each one it is sent, while the sender waits for
it, and the destructor removes the sink, stops the thread and joins it. The thread's
`should_exit_` is the place `join` of the owner. The other sinks do nothing.
`SharedReads` says whether `Mutex` is a `pthread_rwlock_t`, and `WritersFirst` whether a
writer that waits for such a lock keeps new readers out. POSIX leaves that open; the
default lock of glibc does not, that of Mac OS does.

`main.cpp` sets `FLAGS_logtostderr`, so the program logs to stderr and `LogFile` is about
the library as another program would use it.

## Runs

All runs use `TermMod = 16` and `IntMod = 8` for 2^64 and 2^32: `-1` is the term
15, and the terms of campaigns (up to `MaxTerm`) stay below `IntMod \div 2`, as they
do in the program for the first 2^31 campaigns.

| Run | Peers | Late slots | MaxTerm | Kills | MinPatience | Required | Distinct states |
|---|---|---|---|---|---|---|---|
| `election` | 3 | 0 | 1 | 0 | 0 | no | 2.3 M |
| `late_requests` | 3 | 1 | 1 | 0 | 0 | yes | 1.2 M |
| `lifecycle` | 2 | 1 | 2 | 1 | 1 | no | 123 k |
| `campaigns_end` | 3 | 0 | 0 | 0 | 0 | yes | 101 k |
| `clients` (2 clients, 2 Ops) | 2 | 0 | 0 | 0 | 0 | no | 221 k |

* `election`: types; a vote binds its voter (`VoteBinds`); two leaders at once need
  an expulsion (`TwoLeadersNeedExpulsion`); only a peer that has led expels itself
  (`OnlyExLeadersExpelThemselves`); a term goes back only at a leader that steps down
  because a peer that never campaigned refused it (`OnlyRefusedLeadersGoBack`): it takes
  the `-1` of the refusal for its own, and its next campaign has the term 0 again, so
  terms go 1, -1, 0.
* `late_requests`: a vote binds its voter, one peer ever leads (`OneRaftLeads`) until
  somebody is expelled, and every step is a step of the abstract election or leaves it
  alone (`ImplementsElection`), although requests are handled long after their callers
  have given up. Here the parser insists on `required` fields; late heartbeats that are
  handled occur in `lifecycle`.
* `lifecycle`: the inductive invariant with a clock, three rounds of campaigns
  and a `Kill()`; every call has a stub (`StubForEveryCall`), death is final
  (`DeadIsFinal`), and `Kill()` of a follower, a candidate in mid-campaign or a leader in mid-heartbeat returns
  (`KillReturns`). The abstract election is implemented here with heartbeats and deaths
  (`ImplementsElection`).
* `campaigns_end`: peers that campaign at once, each holding its `lock_` while it waits
  for the others', all finish (`CampaignEnds`).
* `clients`: all claims of leadership name one peer (`ClaimsAgree`) until somebody is expelled; `log_lock_` is held by exactly the `Op`s
  between their lock and their `Unlock()`, a writer alone (`LogLockHeld`); every `Op`
  that a leader lets in is answered (`OpReturns`). The bound of two `Op`s matters for
  the last: with readers that come for ever, a writer may wait for ever.
* `heartbeats_in_time`: four peers on a clock of 500 ms (deadline 2, nap 1, patience
  10), one of the three called peers never answering in time. No voter loses patience
  with a candidate that still counts votes (`VotersWait`), because a campaign of calls
  that all run into their deadline is shorter than the patience (`CampaignFits`). The
  parser lets heartbeats through, and no voter that answers loses patience with a living
  leader (`LeaderKept`, which says nothing of a parser that does not). From one call of a peer to the
  next at most `(Calls + 1) * Deadline + Nap` passes, and `RoundFits` says that
  this is less than the shortest patience. The bound is tight: with a patience of 9 the
  property fails. Four peers meet it, the five of `ElectionTest` and the seven of
  `ReElectionTest` do not: there, if enough calls run into their deadline, a voter
  expels a leader that is alive.
* `log_file` (12 k states): fewer than `kRolloverAttemptFrequency` messages are lost
  between two attempts to create a file (`FewMissed`), less than the limit is
  left in the buffer (`BufferBounded`), the file does not pass its limit by as much as
  a message (`SizeBounded`: the length is tested before a message is written), no written message leaves one older than `logbufsecs` behind it
  (`WriteFlushesOld`), and a logger stopped by a full disk resumes
  (`ResumesWhenFree`).
* `log_messages` (212 k states): three threads and the sink's: no sink is removed while a
  thread is in its `send()` or `WaitTillSent()` (`NobodyInRemovedSink`), the crash reason,
  if one is recorded, is the first fatal message (`FirstFatalKept`; a second fatal message
  may abort the process before), a sink whose destructor has returned has no thread and
  nothing left to log (`SinkDrained`), some thread can go on while one has work to do
  (`NobodyStuck`), and every message, addition and removal finishes unless the process
  dies (`LogReturns`). The bound of three messages matters for the last: while messages
  come for ever, the writer of a lock that does not prefer writers, or a thread that waits
  for `log_mutex`, may wait for ever.

Three peers are the least with a majority that is not everybody, with a voter
besides two candidates, and with a cycle of three waits. `MaxTerm = 1` gives every
peer two campaigns, so re-election over a smaller membership, a refused leader
that expels itself and a stale leader all happen. One late slot lets one request
outlive its call; the proofs cover any number. `MinPatience = 0` lets followers
lose patience at any time, `1` makes every refresh of the clock count. Two clients
are the least that contend for `log_lock_`. The limits of `log_file` are small
(4 bytes buffered, 5 in a file, a header of 2, messages of up to 3, every third message an
attempt) so that headers, rollovers, renames and forks meet at each of them. Runs without liveness use
symmetry; liveness runs do not.

Deadlock is not checked (except in `log_file`): all peers may be dead, and a candidate at `MaxTerm` stops.
That nobody waits for ever for a lock is `CampaignEnds`, `OpReturns` and `LogReturns`.

Fairness is weak fairness of each daemon and of the end of each `Kill()`: the
operating system schedules every thread, and the wait of a stub ends by its
deadline (`RpcError` is a step of the daemon that waits). Nothing is assumed of
`Vote` and `AppendMsg` or of the network: a request need never be served. `OpReturns`
needs that the thread of an `Op` that can go on does, `LogReturns` the same of each
thread that logs; nobody is assumed to start an `Op`, a message or a change of the
sinks. `ResumesWhenFree` assumes of the environment that the clock goes on, that the
program goes on logging and that a file can be created now and then.

### Disagreements

Four runs end in a violation of what the repository says:

* `incomplete_heartbeat`: `raft.proto:30-31` declare `prev_log_index` and
  `prev_log_term` required; the daemon sets neither (`raft.h:248-252`). A parser that
  insists on them refuses every heartbeat, so no voter hears from its leader and each of
  them loses patience with it.
* `fresh_follower_refuses`: the comment at `raft.h:134` says that a stale leader
  is refused; a follower that never campaigned holds the term `-1`, which is the
  largest `uint64_t`, and refuses the leader of term 0, which then steps down. This
  supposes that the incomplete heartbeat is decoded (`RequiredEnforced = FALSE`);
  otherwise the handler is not reached at all.
* `one_leader`: `tests/basic_test.cpp:74` expects one leader; a follower that
  waits in vain expels its leader and is elected by a majority of what is left.
* `sink_deadlock`: `logging.h.in:1399-1400` say that `WaitTillSent()` lets a sink log
  "w/o causing deadlocks". With a lock that prefers waiting writers (`WritersFirst`), such
  as that of Mac OS, for which the repository's README has instructions, the owner waits
  for the queue with a share of `sink_mutex_`, the sink's thread has `log_mutex` and waits
  for a share, which a third thread that waits in `AddLogSink` keeps from it
  (`NeverStuck`).

The models of glog show where their properties stop:

* `ResumesWhenFree` supposes that `FlushLogFiles` is not called for ever. Each call
  moves `next_flush_time_` (`logging.cc:899-901`), on which the end of `stop_writing`
  depends (1106-1107), so a program that calls it more often than `logbufsecs` does
  not resume.
* `WriteFlushesOld` speaks of messages that are written: the last one before a silence
  stays in the buffer for as long as the silence lasts.
* `SizeBounded` needs a `file_length_`, a `uint32`, that can hold the limit, a header and a
  message (`LengthFits`): with `LengthMod = 4` and `MaxSize = 5`, which stand for a
  `--max_log_size` of 4096 or more, the file is never rolled over.
* `NobodyInRemovedSink` is about the threads inside a sink. A sink that is removed
  after `send()` and before `WaitForSinks` takes its share of `sink_mutex_` is not
  waited for at all.
* `NobodyStuck` and `LogReturns` need `SharedReads`: with a plain mutex the thread that
  waits for the sink and the sink's thread block each other, as `base/mutex.h:177-178`
  warn. They also need that no waiting writer keeps the readers out, see
  `sink_deadlock`.
* `BufferBounded` and `SizeBounded` hold whether or not a file notices a fork. That it
  notices one is not so: another file may ask first.

## Proofs

`RaftProofs` proves every safety property of `Raft` that the runs check, for every finite set
`Peers`, every set `Slots`, all bounds and both values of `RequiredEnforced`. The
assumptions are those declared in `Wire` and `Raft`: `IntMod` is even and divides
`TermMod`, `Peers` is finite and does not contain `Nobody`, and `MaxTerm` is
below `IntMod \div 2`.

`Inductive` (`Spec => []IInv`) carries the rest. `IInv` is the conjunction of

* `TypeOK`;
* `LoopConsistent`: who holds `lock_` campaigns or leads, with the term, status and
  membership its iteration began with, and `channels` is the membership without
  the peer itself. It is needed because handlers of other steps must not disturb
  a peer in mid-campaign;
* `LeadConsistent`: a leader has led, and so has a follower that voted for itself. `Lose` withdraws the
  vote, `AppendReturns` does not;
* `VoteBinds`: whoever granted a vote, counted or on its way back, stands by the
  candidate while it campaigns or leads, unless the voter has expelled it. It
  strengthens `TwoLeadersNeedExpulsion` to the states before a campaign is won;
* `TermsAgree`: terms are `-1` or at most `MaxTerm`, so they survive the conversion
  to `int` (`SmallTermsDecode`); whoever campaigns or leads has one of at most `MaxTerm`,
  and a refusal carries back a larger term or the `-1` of a peer that never campaigned.
  `TermsGoBackOnRefusal` is the action property that follows.

Each conjunct has a lemma with one step per action (`TypeStep`, `LoopStep`, `LeadStep`,
`VoteStep`, `TermStep`). What a handler does is stated once (`HandleTypes`, `HandleFrame`, `HandleStands`) and used for `Serve` and
`ServeLate` alike. `SplitBrainNeedsExpulsion` then follows because two majorities of
`Peers` share a peer (`FS_MajoritiesIntersect`), and that peer stands by one
candidate only.

`RaftImplementsElection` (`Spec => ImplementsElection`) uses `IInv` and one more
invariant, `AppendersLed`: a heartbeat, however late, comes from a peer that has led.
`VoteBinds` is what gives `Elect` its majority that stands by the winner. Then each
action of `Raft` is shown to be one abstract step or none.

`OneLeaderEver`, in `ElectionProofs`, is about the abstract election only: for any
finite electorate at most one peer ever leads until somebody is expelled. "At most one
has led" is not inductive; `PromisesKept` makes it so: while the membership is intact
a peer that has led keeps a majority of peers that chose it, itself among them, and
never campaigns again. A second winner would need a majority that meets the first
(`MajoritiesMeet`). `OneRaftLeaderEver` carries this over to `Raft` through the
refinement. It is much stronger than `SplitBrainNeedsExpulsion`, which is about
leaders at one time.

`ClientsAgree` (`ClientSpec => []ClaimsAgree`): a handler past its test of `status_` and
every claim name peers that have led, whatever became of them since, and these are
at most one. It covers any number of clients, operations and deaths.

`LogLockIsHeld` (`ClientSpec => []LogLockHeld`) needs that a handler past its test is at
a peer, and inside only for an operation that takes the lock (`HandlersPlaced`). The
proof speaks of one handler at a time (`Holds`, shown equivalent by `HeldIsHolds`).

`LivingLeaderKept` (`RoundFits /\ Spec => []LeaderKept`): for any number of calls, any
deadline, nap and patience. `LeaderKept` says nothing of how old a voter's memory may
be at each place of a round, so the invariant `AgesBounded` bounds it by `Bound`: the
deadlines of the calls made since the voter was called, and, if its turn in this round
is yet to come, the nap and the calls of the last round after its own. It says something
of parsers that let heartbeats through only. `CampaignInTime` (`CampaignFits /\ Spec =>
[]VotersWait`) is for both, by the part of the bound that counts the calls of a campaign
(`CampaignInv`). `RoundFits` and `CampaignFits` are hypotheses of the theorems and not
assumptions of the module, because the code does not guarantee them; `TimesInRange`
(types) holds without.

`LogFileProofs` is for messages of all lengths and limits above a header (`LogFileAssumption`). Each
property relates what is really in the file to a member of the class, and the
invariant says how the member covers it: `AttemptsCount` (`rollover_attempt_` is at
least the messages lost, and below `kRolloverAttemptFrequency`) gives `FewAreMissed`;
`BufferCounted` (`bytes_since_flush_` is at least what is buffered; the setters, which
do not reset it, leave it larger than that) gives `BufferIsBounded`; `FlushDue` (what
is buffered becomes due before it is too old) gives the action property
`OldIsFlushed`; `LengthCovers` (`file_length_` is at least what is in the open file)
gives `SizeIsBounded`, under the hypothesis `LengthFits`, without which `file_length_`
wraps. `FileTypes` needs none of them.

`LogMessagesProofs` is for any number of threads, sinks and messages. `LocksHeld` ties who
holds `log_mutex` and a share of `sink_mutex_` to the statements between taking and
releasing them, and gives the action property `RemovedSinkIsLeft`. `WorkerLives` says that
the sink's thread is there from the constructor to the end of the destructor and leaves
nothing undone (`SinkIsDrained`); it needs `QueueOwned` (what is queued is the one message
its owner waits for, so nothing is queued when the destructor begins) and `Roles` (who
can be where). `FirstIsText` says that only the message in the exclusive buffer counts as
the first (`FirstFatalIsKept`). `NoDeadlock` (`Spec => []NobodyStuck`) is by cases: the
holder of `log_mutex` needs at most a share, which with `SharedReads` nobody is refused
unless a waiting writer comes first; who adds or removes a sink waits for a thread that has
a share and so waits for `log_mutex` no more; and who waits for the sink, or for the end of
its thread, waits for a thread that can take its next message, or leave, or is in the
middle of logging one (`WorkerGoes`). It is the part of `LogReturns` that is safety: some
thread goes on, though not yet each. `CanGo` spells out the guards of the steps, because
`ENABLED` is out of the prover's reach.

Only model-checked:

* liveness (`CampaignEnds`, `KillReturns`, `OpReturns`, `LogReturns`, `ResumesWhenFree`):
  fairness is out of the prover's reach;
* the four disagreements above, which are counterexamples of a small instance.

## Not modelled

* `main.cpp`: it reads addresses, starts a peer for each and sleeps. What it
  contributes is the set `Peers`.
* The log: `ConsensusLog` has no operation that adds an entry, `Op` has an empty body
  under its lock, and nothing is persisted, so there is no replication, commitment or
  recovery to model.
* The generated descriptors, the asynchronous stubs and `PeerStatusMapping`, which
  nothing calls.
* That a handler gets `lock_` at all: the daemon releases it and takes it again at
  once, and `std::mutex` promises no fairness, so a handler may starve.
* glog beyond files, messages and sinks: formatting, stderr, mail and syslog, stack
  traces and symbols have no state that outlives a call; `VLOG` levels are used
  nowhere in the program.
* googletest and googlemock: frameworks the tests link, no part of the program.
  They and glog are nearly all of the lines under `src/`; the program itself has
  about 500 written lines, and apart from the items above its state changes are all
  actions of the models.
