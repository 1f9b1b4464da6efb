# Verification of MIT-6.824-golabs

TLA+ models of the distributed programs in this repository, model-checked with
TLC on small instances, and TLAPS proofs for every value of the constants.
`PROJECT.json` maps each definition to the lines that it models.

## The system

| part | source | state | operations | modelled |
|---|---|---|---|---|
| Raft server | `src/src/raft` | role, term, vote, log, commit and apply indexes, per-peer indexes | timers, `Start`, the RPC handlers `RequestVote`, `AppendEntries`, `InstallSnapshot`, the code after each reply, `Snapshot`, `CondInstallSnapshot`, the applier, `Make` | `RaftLog`, `Raft` |
| persister | `raft/persister.go` | Raft state, snapshot | `SaveRaftState`, `SaveStateAndSnapshot`, `Copy` | in `Raft` and `KVHarness` |
| network | `labrpc` | ends, servers, calls under way | `Call`, `processReq`, `Enable`, `AddServer`, `DeleteServer`, `Cleanup` | `Labrpc`; as loss, delay and reordering in `Raft` |
| test harness | `kvraft/config.go` | end names, persisters, running servers | `StartServer`, `ShutdownServer`, `partition`, `ConnectAll`, clients, clean-up | `KVHarness` |
| MapReduce | `src/src/mr` | phase, task queue, trace of running tasks, lock, files | `AssignTask`, `ReportTask`, `generateReduceTasks`, `retriveTimeoutTasks`, `Done`, the worker loop | `MapReduce` |
| KV service and clerk | `src/src/kvraft` | table, last command per client, notification channels | `Command`, the applier, snapshots, the clerk's retries | `KVTable`, `KVRaft` |
| shard controller | `src/src/shardctrler` | sequence of configurations | `Join`, `Leave`, `Move`, `Query`, `Command`, the applier, its clerk | `ShardConfig`, `ShardCtrler` |
| sharded KV groups and clerk | `src/src/shardkv` | shards and their status, two configurations | client operations, configuration, migration, garbage collection, empty entries | `ShardKV` |
| what the tests compare with | `models/kv.go` | a table | get, put, append | `KVTable` under `AtomicService` |
| libraries, test tools | `porcupine`, `labgob`, `lab0`, the other `config.go`, stubs in `main` | | | no |

A service calls `Start` on its Raft server and reads `applyCh`. The servers call
each other through `labrpc`, which drops and delays calls and replies. The
persister survives a crash of its server. The groups of `shardkv` are each such
a replicated service, and they ask the replicated `shardctrler` for the
assignment of shards. MapReduce stands alone: one coordinator, many workers, a
shared file system.

What makes it hard: handlers hold a lock, but what happens between a request
and its reply does not; the applier pushes a batch without the lock while
snapshots arrive; a server may crash after any handler; the coordinator's
channel is used partly inside and partly outside of its lock; a clerk retries
what may have been done already, with another leader or another group; shards
move between groups that each change their configuration in their own time. The list
`hazards` in `PROJECT.json` names each such place with its line, and the
properties that watch it.

## Raft

`RaftLog` has the computations on a log as operators: a log is a non-empty
sequence whose first element is the dummy at the snapshot's index, as in
`rf.logs`. `Raft` has the servers and all that surrounds them.

Every handler runs under `rf.mu` from its first line to its last, so it is one
action, or several with disjoint guards where its early returns do different
things (`RefuseVote` and `RequestVote`; `RefuseAppend`, `AdoptTerm`,
`AppendMismatch` and `AppendEntries`). What runs without the lock is split: a
call is a request in a set, a handler step, and a step for its reply; the
applier is `Collect`, one `Deliver` per entry, `Finish`. The code's names are
kept.

- **Timers** may fire at any time. `Contenders` bounds who may start which term.
- **Network.** A message in a set may be taken later or never: loss, delay and
  reordering come for free. Append and snapshot requests stay in the set,
  because the ticker sends an unchanged request again at every heartbeat. So do
  the replies to appends, one for each request. Vote requests are sent once and
  are taken out. `epoch` tells a request of a server that has died since: its
  reply has nobody to go to.
- **Crashes.** `Restart` is a crash and a new `Make` in one, since a dead
  server takes no step. It restores what the persister has. Everything between
  two handlers is a possible crash point.
- **The service** is that of `kvraft/server.go` seen from `applyCh`: it skips
  what it has, installs snapshots with `CondInstallSnapshot`, and takes one at
  the last command applied. Its state is the sequence of entries applied.
- `ballots`, `leaders` and `committed` are history variables.

`LateRejections` selects whether a vote reply of a later term may arrive after
its candidate has moved on. The code then goes back to the old term (see the
first finding), and little of Raft's safety is left; all other runs have it
`FALSE`, which means that the network loses those replies.

### Runs

All have three servers but for `apply`. The bounds: terms (`Contenders`), length
of the log (`MaxIndex`), crashes (`MaxCrashes`).

| run | instance | what it shows |
|---|---|---|
| `consensus` | term 1 for s1, term 2 for s2 and s3, logs of one entry, one crash | `ElectionSafety`, `Durable`: a double vote needs two candidates of a term and a voter that forgets, and both occur. `StateMachineSafety`, `LeaderCompleteness`, `MatchIndexSound`, `CommittedKept`: s1's entry at index 1 competes with that of the next leader at the same index, with requests and replies of both in any order |
| `snapshots` | one leader, one entry, appliers and compaction, one crash | `MatchIndexSound`, `IndexesInRange`, `SnapshotMeetsLog`, `ServiceInOrder`: a follower that lags is sent a snapshot, and entries and snapshots reach it in any order |
| `apply` | two servers, both of which compact, two entries, a second election that nobody wins, `MCFairSpec` | `AppliedEventually`, a liveness property: batches that are pushed while snapshots are taken, sent, refused and installed |
| `two_leaders`, `panic` | see the findings | what the code or its tests say and the code does not do |

Two terms and one entry are enough for an old leader to meet a new one with a
conflicting entry. They are not enough for the five-step scenario in which an
entry of an old term on a majority is overwritten, which takes three terms: the
test at `appendEntries.go:225` is there for it, and no run reaches it. Deadlock is not checked for Raft: with the bounds used up, the
servers really stop.

`MCRaft` makes the runs for safety feasible by taking some steps as soon as
they are possible (`MCNext`): it sends what the leaders owe, answers requests
whose handler changes nothing but the reply, and drops messages that can have no
effect. The comment there gives the argument. `two_leaders` uses the
specification as it is. Every action of `Raft` happens in one of the first three
runs; surplus votes are counted in the last term of `consensus` only. In `apply` the CONSTRAINT `OneLeader` ends a
behaviour when the second election is won. `panic` has a CONSTRAINT that picks
out one course of events; it looks for one behaviour, so that leaving others
out is harmless.

Fairness in `FairSpec` and `MCFairSpec` is weak fairness of the applier's three steps: it is a
goroutine that is scheduled and that wakes up when `commitIndex` grows, and
the service reads `applyCh` all the time. Nothing is assumed of network or timers.

### Findings

1. `election.go:33`. On a reply of a later term the candidate calls
   `setNewTerm(args.Term)` and not `setNewTerm(reply.Term)`. A late reply
   therefore takes a server, possibly the leader of a later term, back to the old
   term with its vote free again, and two leaders of one term can follow
   (`two_leaders`). `checkOneLeader` in `config.go` calls that fatal.
2. `appendEntries.go:244`. `findLastLogInXTerm` scans down to index 1 whatever
   the first index of the log is. On a compacted log whose terms are all above
   `XTerm` it reads `rf.logs[-1]` and panics (`panic`).
3. `apply.go:20`. A snapshot installed while a batch is pushed passes the batch, so
   entries older than the snapshot follow on `applyCh`
   (`RaftApplyOrder.cfg`, a further instance of `MCRaft`).
   `applierSnap` in `config.go` takes that for "apply out of order"; the service
   of `kvraft` discards those entries, and `ServiceInOrder` holds.

### Proofs

Four modules, each on top of the one before: `RaftTypeProofs` (types and
durability), `RaftVoteProofs` (the steps that cast votes), `RaftTallyProofs` (the
steps that count them), `RaftElectionProofs` (two majorities). They prove for
any finite set of servers, any bounds and any number of crashes, from
`RaftAssumption` and `NilAssumption`:

- `VoteTypes`: the types of all that elections depend on, and of the terms in
  the other messages.
- `DurableAlways`: `Spec => []Durable`. Every handler that changes term, vote
  or log saves them before its end, so a crash between handlers forgets nothing.
- `ElectionSafetyAlways`: `Spec => []ElectionSafety` when `LateRejections` is
  `FALSE`.

`ElectionSafety` is not inductive. `VoteInv` adds what a vote means on its way:
a ballot of the current term is the one in `votedFor`, and there is one per
voter and term; a reply that grants a vote, and a vote that has been counted,
stand for a ballot; a candidate stands by its own vote; every leader that
ever was has a majority of ballots. Two majorities of a finite set meet
(a lemma on cardinalities), and the ballot they share is for one
candidate. `Durable` is used at `Restart`: a restarted server has the
vote that it cast. The part that needs care is `HigherVoteReply`, which withdraws
the candidate's vote for itself. `LeadersLead` says that this never happens to
a server that has won that term, which is the reason for the hypothesis on
`LateRejections`.

`StateMachineSafety` and the other properties of `Raft` are model-checked only. Liveness is
out of the prover's reach and stays with TLC.

## MapReduce

`MapReduce` has the coordinator and its workers. `AssignTask` is three
actions, because it releases the lock twice: `AskTask` reads the phase,
`TakeTask` receives from the channel without the lock, `RecordTask` enters the
task in the trace under a key made of the phase at that time. `ReportTask` is one action,
all under the lock. `retriveTimeoutTasks` holds the lock over several sends to
a bounded channel, so it is `StartRetrieving` and one `RetrieveTask` per
task, with the lock held in between. `generateReduceTasks` takes no lock and is
one step per task. A deadline passes by `Expire`; a worker dies by `Crash`, and
another one is started. Tasks leave temporary files, and `ReportTask` renames
them.

Reports are handled at any moment the lock is free. In two windows a task is
neither queued nor traced: between the two halves of an `AssignTask`, and while
`generateReduceTasks` is at work (`Unseen`). The history variable `early` records
that a report has ended a phase in one of them; it guards nothing.

| run | instance | what it shows |
|---|---|---|
| `job` | three workers, two map and two reduce tasks, one crash, two missed deadlines | `OnePlace` and `JobEnds` as long as no phase has ended early; `RenameSucceeds` in any case |
| `racing_reports` | the same | `PhasesComplete` is violated |

In `job` the CONSTRAINT `EarlyThenQuiet` ends a behaviour in which a worker
crashes or misses a deadline and a phase ends early, both. Without it the same
four properties hold, on 5.4 million states in 19 minutes.

Three workers let one report while another is late and a third has the same
task again; two tasks per phase let the queue be full, empty and in between.
Fairness: the coordinator's goroutines and the handlers are scheduled, deadlines
pass, and a worker that does not die gets on with its work; crashes and missed
deadlines of workers still at work are bounded, and not fair. Deadlock is not
checked, because the job ends; `JobEnds` finds any earlier stop.

Finding: `coordinator.go:55`. A task that has left the queue and is not yet traced
is invisible to the test for the end of a phase. A report in this window ends
the phase with a task undone, against `mr/README.md:107`. More is lost than
`PhasesComplete`. `RecordTask` enters the map task under a key of the reduce phase,
over a reduce task's entry or to be overwritten by it, or nowhere when the job is done:
`OnePlace` fails without its premise. `retriveTimeoutTasks` deletes the
map task's own key (line 209), so that the entry stays overdue and is queued
again every time, until line 210 blocks on a full queue with the lock held:
`MapReduceBlocked.cfg`, a further instance, violates `LockHolderProceeds`, and
the job may never end.

## The replicated services

### What they promise

`AtomicService` is the abstract specification of all three services: one object,
a write that takes effect once between its call and its return, a read that
returns what the object gave at some moment in between. That is the notion of
`porcupine` with the model of `models/kv.go`, stated as a specification instead
of a search through histories. `KVRaft`, `ShardCtrler` and `ShardKV` each
instantiate it with their own object (`Abstract`), and `Linearizable` is its
specification as a property of theirs. The object is the state after the
commands chosen so far. `seen` is a history variable: what a read under way
could have returned.

### kvraft

`RaftLib` is Raft as the services meet it: any number of servers that believe that they
lead, commands that get lost with their leader, one order of the chosen
ones. An election, a replication and a commit are one step each, with the
guards of the code (`UpToDate`, entries of the leader's own term). It is
an abstraction of `Raft` by hand: TLC does not compare the two.

`KVRaft` has the rest. `Command` is split where it releases `kv.mu`:
`CheckDuplicate`, `StartCommand` or `WrongLeader`, `FetchChan`, then `Receive` or
`TimeOut`, and `RemoveNotifyChan` in a goroutine of its own. The applier is
`Discard`, `ApplyCommand` (with the notification and the snapshot that
belong to it) and `InstallSnapshot`. `Restart` keeps Raft's state and the snapshot. `KVTable`
has the operations of the table. A channel has an identity, so that a handler may hold one
that the map has dropped.

Run `kv_service`: two servers, two terms, one clerk that appends and then reads
with a call that may fail, one that appends, a snapshot at index 1, a restart.
`Linearizable`, `ReplicasAgree` (the table and the duplicate table of a server
are those of a prefix of the chosen commands) and `NeverBlocked` (the applier,
which holds `kv.mu`, never sends to a full channel). This is enough for a command
to be started twice, committed twice and answered from three places, and for a
snapshot to pass a batch. `MCKVRaft` runs some steps at once that meet no others.

It is not enough for a leader that returns, and there **`Linearizable` fails**. Take
`KVStaleWaiter.cfg`, a further instance with three servers and three terms.
Server 0 leads term 1, gives a handler index 1 and loses its
command; it leads again in term 3, and another command is chosen at
index 1, of its current term. The handler of the lost command still waits on the channel of index 1
(`server.go:71`), and gets the other command's reply: its clerk believes that
a write was done which was not. TLC finds it in about three minutes. `Lab3.md:9` asks that "an
RPC handler should notice when Raft commits its `Op`, and then reply"; the code looks only at the
index, and at the term of the entry, which is the new one. The handler waits for
`ExecuteTimeout` at most, so three elections must fall in that time.

`KVRaftProofs` proves `ReplicasAgree` for any number of servers, clerks, commands,
elections, snapshots and restarts; it uses no assumption on the constants. The invariant
`ReplicaInv` names the prefix: a server has as many commands as the larger of `lastApplied`
and the index of its snapshot says, because `Restart` sets `lastApplied` to 0 and keeps the
snapshot's table. Raft has pushed no more than that, and a snapshot that it has not
reached is counted in `lastApplied`. So a command that the applier does not discard is the one
right after the prefix.

### shardctrler

`ShardConfig` has the four operations as operators on configurations. The loop
of `Join` is a fold of `MoveOne` over as many turns as there are shards. The
code sorts the group numbers and takes the first with the least or the most
shards; so do `GetGidWithMinShards` and `GetGidWithMaxShards`.

`ShardCtrler` is the replicated server and its clerk. Its `Command` and applier
are those of `kvraft` without snapshots, so that the notification channels and the terms are
not repeated: a command that was started is chosen at some time or never, and a
handler gets the reply of its own command or times out. The code keys the channels by
index alone (`server.go:97`), as `kvraft` does, so what `KVStaleWaiter.cfg` shows of
`kvraft` is outside this model, and `Linearizable` here is about the rest. After a `Restart` the applier applies all again.

Run `shard_ctrler`: four shards, two servers, an administrator that joins, leaves and moves
groups 1 to 3, another client that joins one and queries, three calls in all, one fault.

- `JoinEnds`: the loop is over after a turn per shard.
- `JoinEvenAndMinimal`: the new assignment is even, all shards belong to
  members, and no even assignment moves fewer shards. TLC compares with all
  assignments.
- `LeaveMovesOrphans`: only shards of groups that leave move.
- `Linearizable`: each change makes one configuration, also when it is retried.

The clerks ask to move shards to members only, and every `Join` names a group. The code checks
neither (see `hazards`).

### shardkv

A group is the sequence of its chosen commands; the model keeps its state after
all of them and all earlier states. A server has applied a prefix. So whoever
acts without having everything applied (a `Serve` loop, a `GetShardsData` handler, a command
started long ago) acts on some element of `past`, and calls that are late or repeated are calls made from an old
state. One action per command that is applied: `Configure`, `Migrate`,
`DeleteShardsData`, `FinishGc`, `CheckEntryInCurrentTerm`, `Operate`. The controller is a list of
configurations of which groups and clerks know a prefix; an ASSUME of
`MCShardKV` says that `ShardConfig` makes that list.

Run `shardkv`: groups 1 and 2, four shards; group 1 joins, group 2 joins,
a shard moves back. One clerk appends to a key of that shard and another reads it,
with configurations that may be old. One new leader, once the clerks are through.
With the new leader at any time, without `QuietElections`, all of it holds too, in eight minutes instead of two.

- `OneHolder`: no two groups serve a shard, and who serves it has its data.
- `ShardsMoveTogether`: the `break` in the loops over a command's shards is never met
  half way. There the order of a Go map would make servers of a group differ.
- `ConfiguredWhenServing`: no configuration is applied in the middle of a
  migration, although `configurationAction` decides without the lock.
- `Linearizable`: the groups together are one table; the duplicate table
  moves with the shards.
- `CatchUp`, a liveness property: all groups reach the last configuration
  again and again (`EveryConfiguration`), or a lagging leader has acknowledged a
  deletion. Fairness is that of the `Serve` loops, which run for ever
  on a leader with what this leader sees, and whose calls get through in the end.

A clerk gets the reply of its own command or none, with the same reservation as
for `shardctrler`.

Finding: `common.go:212`. When `DeleteShardsData` reaches a leader whose configuration is
older than the caller's (`DeleteNothing`), it answers `OK` and
deletes nothing, where `GetShardsData` answers `ErrNotReady`. The history variable
`lagged` records it and guards nothing. **`EveryConfiguration` fails** (run
`lagging_ack`), against `Lab4B.md:7`: the puller takes the shard for collected, the old owner stays
`BEPULLING` and never takes another configuration. A leader that lags like that was
elected after the one that served the pull and has not yet applied what it has.

## Network and test harness

`Labrpc` is the simulated network. `processReq` is split at each point where
another goroutine can come between: `ReadEndnameInfo`, `DropRequest`, `Dispatch`, `HandlerReturns`,
`ReceiveReply` or `PollDead`, `CheckDead`, `DropReply` or `Reply`. Delays are the time between steps.
`KVHarness` drives it like `kvraft/config.go`: `StartServer` and `ShutdownServer` in their
locked parts, the persisters of `raft/persister.go`, partitions, clients. An instance of a server goes
on after its shutdown, as goroutines do, and serves and sends to its own persister and ends.

Run `network`: two servers and a clerk; server 0 is partitioned, shut down and
started again at any point of two calls.

- `AckedIsKept`: what a caller got a positive reply to is on the
  persister from which the next instance starts. The comments at `labrpc.go:264` and
  `config.go:261` claim it. It needs the second look at `isServerDead`, `DeleteServer` before the
  copy of the persister, and a copy: TLC refutes it without any one of the three.
- `NoGhosts`: nothing that an instance sends after it was shut down reaches a handler.
- `CallReturns`, `HandlersEnd`, liveness properties: "`Call()` is guaranteed to return (perhaps after a delay)
  *except* if the handler function on the server side does not return"
  (`labrpc.go:37`), and a handler that returns never hangs on its channel.
  Fairness is that of the network's goroutines; handlers have none, and may hang.

The harness connects all ends only while all servers run, as the tests do:
`connectUnlocked` would enable the ends of a server that is down.

`KVHarnessProofs` proves `AckedIsKept` and `NoGhosts` for any number of servers, ends,
calls, restarts and partitions, from `HarnessAssumption`. Neither is inductive. `HarnessInv`
adds that each instance has a persister of its own that holds its state, what
`ShutdownServer` and `StartServer` have done by each of their phases, and what a
call has done by each step of `processReq`. So a positive reply that passed the
second look at `isServerDead` was written before the copy was made. For
`NoGhosts`, `CutOff` says that the ends of an instance that was shut down are
disabled, and that what it sent since got no further than `readEndnameInfo`.

## What is not modelled

- Contents of files, byte sizes, the encoding by `labgob`, log output, the
  lengths of delays and timeouts.
- Liveness of elections, which needs timing that the code leaves to randomness.
  Catching up through snapshots (`appendEntries.go:169`) needs it too.
- Raft with snapshots of two terms (`raft.go:211`), and three terms: the state space is
  beyond TLC's reach on three servers with this many messages.
- `RaftLib` and `Raft` side by side as a refinement: the history of `Raft` with entries
  per term would have to be mapped to one log per server, and its instances are too
  small for the comparison to tell much.
- `shardkv` without a group for some time (`common.go:304`): a shard that
  goes through group 0 is served empty by its next owner. The tests keep a group.
- `porcupine` is a library; its property is stated by refinement. The other `config.go` files do
  what `kvraft/config.go` does. `lab0` and the stubs in `main` are not used.
