------------------------------- MODULE KVRaft -------------------------------
(***************************************************************************)
(* kvraft: clerks that retry, Command handlers that wait on notification   *)
(* channels, appliers that feed them, snapshots and restarts, over the     *)
(* Raft library of RaftLib.                                                *)
(*                                                                         *)
(* A handler is one goroutine and takes one step per stretch that it runs  *)
(* under kv.mu or inside of Raft.  A call is known by its client and the   *)
(* number of the try; whatever happens to a call on the network shows as   *)
(* a handler that starts late or never, or as a reply that nobody takes.   *)
(***************************************************************************)
EXTENDS RaftLib, KVTable, Functions, TLC

CONSTANTS
    Client,
    Program,      \* Program[c]: the operations that c asks for
    MaxCalls,     \* bound: MaxCalls[c] calls of the clerk c
    TooBig,       \* the indexes at which Raft's state has grown to maxraftstate
    MaxRestarts   \* bound: crashes of all the servers

VARIABLES
    lastApplied,    \* lastApplied[s]
    machine,        \* machine[s]: [table, last], the state machine and lastOperations
    notifyChans,    \* notifyChans[s]: from indexes to channels
    buffered,       \* buffered[s]: from channels that hold a reply to the reply
    snapshot,       \* snapshot[s]: [index, machine], what the persister has
    pushed,         \* pushed[s]: the last index that Raft sent on applyCh
    handlers,       \* the Command handlers under way
    clerk,          \* clerk[c]: [leaderId, commandId, calls, calling]
    begun,          \* begun[c]: Command has been entered and has not returned
    restarts,
    states,         \* history: states[i + 1] is the machine after i chosen commands
    seen,           \* history: what a Get under way may return
    answer          \* history: what Command returned last

serverVars == <<lastApplied, machine, notifyChans, buffered, snapshot, pushed>>
clientVars == <<clerk, begun, answer>>
vars == <<raftVars, serverVars, handlers, clientVars, restarts, states, seen>>

\* The operation that c has called and that has not returned.
Asked(c) == IF begun[c] THEN Program[c][clerk[c].commandId + 1] ELSE Nil

\* The service promises a table.
Abstract == INSTANCE AtomicService WITH
    Op <- UNION {Range(Program[c]) : c \in Client},
    Initial <- EmptyTable, IsRead <- IsGet, Result <- Lookup, Effect <- Written, Nothing <- Nil,
    object <- states[Len(states)].table,
    asked <- [c \in Client |-> Asked(c)],
    taken <- [c \in Client |-> begun[c] /\ states[Len(states)].last[c].id > clerk[c].commandId]

OK == "OK"
ErrNoKey == "ErrNoKey"
ErrWrongLeader == "ErrWrongLeader"
ErrTimeOut == "ErrTimeOut"

Reply(err, value) == [Err |-> err, Value |-> value]

----------------------------------------------------------------------------
\* The state machine

\* newMemoryKV and an empty lastOperations; id 0 stands for no entry, and
\* the command of CommandId i has id i + 1.
NewMachine ==
    [table |-> EmptyTable, last |-> [c \in Client |-> [id |-> 0, reply |-> Reply(OK, <<>>)]]]

IsDuplicatedNever(m, cmd) == FALSE   \* mutant

IsDuplicatedRequest(m, cmd) == cmd.id <= m.last[cmd.client].id

\* applyToStateMachine: the reply of MemoryKV, and the table that it leaves.
Answer(t, cmd) ==
    IF ~IsGet(cmd) THEN Reply(OK, <<>>)
    ELSE IF t[cmd.key] = Nil THEN Reply(ErrNoKey, <<>>) ELSE Reply(OK, t[cmd.key])

ApplyToTable(t, cmd) == IF IsGet(cmd) THEN t ELSE Written(t, cmd)

\* The applier's reply to a command, and the machine after it.
ReplyTo(m, cmd) ==
    IF ~IsGet(cmd) /\ IsDuplicatedRequest(m, cmd) THEN m.last[cmd.client].reply ELSE Answer(m.table, cmd)

Applied(m, cmd) ==
    IF IsGet(cmd) \/ IsDuplicatedRequest(m, cmd) THEN m
    ELSE [table |-> ApplyToTable(m.table, cmd),
          last |-> [m.last EXCEPT ![cmd.client] = [id |-> cmd.id, reply |-> Answer(m.table, cmd)]]]

----------------------------------------------------------------------------
\* The clerk

Init ==
    /\ RaftInit
    /\ lastApplied = [s \in Server |-> 0]
    /\ machine = [s \in Server |-> NewMachine]
    /\ notifyChans = [s \in Server |-> <<>>]
    /\ buffered = [s \in Server |-> <<>>]
    /\ snapshot = [s \in Server |-> [index |-> 0, machine |-> NewMachine]]
    /\ pushed = [s \in Server |-> 0]
    /\ handlers = {}
    /\ clerk = [c \in Client |-> [leaderId |-> 0, commandId |-> 0, calls |-> 0, calling |-> FALSE]]
    /\ begun = [c \in Client |-> FALSE]
    /\ restarts = 0
    /\ states = <<NewMachine>>
    /\ seen = [c \in Client |-> {}]
    /\ answer = [c \in Client |-> Nil]

\* The arguments of the call: the next operation with the clerk's ids.
CommandArgs(c) ==
    LET o == Program[c][clerk[c].commandId + 1] IN
    [client |-> c, id |-> clerk[c].commandId + 1, op |-> o.op, key |-> o.key, value |-> o.value]

\* Command calls the server it takes for the leader, for the first time or
\* again with the same CommandId.
Call(c) ==
    /\ ~clerk[c].calling /\ clerk[c].calls < MaxCalls[c]
    /\ clerk[c].commandId < Len(Program[c])
    /\ clerk' = [clerk EXCEPT ![c].calls = @ + 1, ![c].calling = TRUE]
    /\ begun' = [begun EXCEPT ![c] = TRUE]
    /\ seen' = IF begun[c] THEN seen ELSE Abstract!SeenWith(states[Len(states)].table, [d \in Client |-> Asked(d)'])
    /\ handlers' = handlers \cup
         {[client |-> c, try |-> clerk'[c].calls, server |-> clerk[c].leaderId, pc |-> "check",
           args |-> CommandArgs(c), index |-> 0, chan |-> <<>>]}
    /\ UNCHANGED <<raftVars, serverVars, answer, restarts, states>>

RotatedPastEnd(ck) ==   \* mutant
    [ck EXCEPT !.leaderId = @ + 1, !.calling = FALSE]

\* The next server, for the next call.
Rotated(ck) == [ck EXCEPT !.leaderId = (@ + 1) % Cardinality(Server), !.calling = FALSE]

\* The network gives up on a call; its handler may still run or start.
CallFails(c) ==
    /\ clerk[c].calling
    /\ clerk' = [clerk EXCEPT ![c] = Rotated(@)]
    /\ UNCHANGED <<raftVars, serverVars, handlers, begun, restarts, states, seen, answer>>

\* The clerk goes to the next command when the error is neither of the two.
Accepted(r) == r.Err \notin {ErrWrongLeader, ErrTimeOut}

\* The reply of handler h reaches its caller, if that one still waits for it.
Respond(h, r) ==
    LET c == h.client
        awaited == clerk[c].calling /\ clerk[c].calls = h.try IN
    IF awaited /\ Accepted(r)
    THEN /\ clerk' = [clerk EXCEPT ![c].commandId = @ + 1, ![c].calling = FALSE]
         /\ begun' = [begun EXCEPT ![c] = FALSE]
         /\ answer' = [answer EXCEPT ![c] = IF IsGet(h.args) THEN r.Value ELSE Nil]
         /\ seen' = [seen EXCEPT ![c] = {}]
    ELSE /\ clerk' = IF awaited THEN [clerk EXCEPT ![c] = Rotated(@)] ELSE clerk
         /\ UNCHANGED <<begun, answer, seen>>

----------------------------------------------------------------------------
\* The Command handler

Become(h, g) == handlers' = (handlers \ {h}) \cup {g}

\* The look at lastOperations before Start.
CheckDuplicate(h) ==
    /\ h.pc = "check"
    /\ IF ~IsGet(h.args) /\ IsDuplicatedRequest(machine[h.server], h.args)
       THEN /\ handlers' = handlers \ {h}
            /\ Respond(h, machine[h.server].last[h.client].reply)
       ELSE /\ Become(h, [h EXCEPT !.pc = "start"])
            /\ UNCHANGED <<clientVars, seen>>
    /\ UNCHANGED <<raftVars, serverVars, restarts, states>>

StartCommand(h) ==
    /\ h.pc = "start" /\ Started(h.server, h.args)
    /\ Become(h, [h EXCEPT !.pc = "channel", !.index = Len(log[h.server]) + 1])
    /\ UNCHANGED <<serverVars, clientVars, restarts, states, seen>>

WrongLeader(h) ==
    /\ h.pc = "start" /\ ~leading[h.server]
    /\ handlers' = handlers \ {h}
    /\ Respond(h, Reply(ErrWrongLeader, <<>>))
    /\ UNCHANGED <<raftVars, serverVars, restarts, states>>

GetAnyChan(s, i, new) ==   \* mutant: the channel of another index
    IF notifyChans[s] # <<>> THEN (i :> notifyChans[s][CHOOSE j \in DOMAIN notifyChans[s] : TRUE]) @@ notifyChans[s]
                             ELSE i :> new

\* getNotifyChan: the channel in the map, or a new one.
GetNotifyChan(s, i, new) == IF i \in DOMAIN notifyChans[s] THEN notifyChans[s] ELSE (i :> new) @@ notifyChans[s]

\* The handler asks for the channel of its index.
FetchChan(h) ==
    LET chans == GetNotifyChan(h.server, h.index, <<h.client, h.try>>) IN
    /\ h.pc = "channel"
    /\ notifyChans' = [notifyChans EXCEPT ![h.server] = chans]
    /\ Become(h, [h EXCEPT !.pc = "wait", !.chan = chans[h.index]])
    /\ UNCHANGED <<raftVars, lastApplied, machine, buffered, snapshot, pushed, clientVars, restarts, states, seen>>

\* The select: a reply in the channel is taken out and handed to the caller.
Receive(h) ==
    LET s == h.server IN
    /\ h.pc = "wait" /\ h.chan \in DOMAIN buffered[s]
    /\ buffered' = [buffered EXCEPT ![s] = Restrict(@, DOMAIN @ \ {h.chan})]
    /\ Respond(h, buffered[s][h.chan])
    /\ Become(h, [h EXCEPT !.pc = "remove"])
    /\ UNCHANGED <<raftVars, lastApplied, machine, notifyChans, snapshot, pushed, restarts, states>>

TimeOut(h) ==
    /\ h.pc = "wait"
    /\ Respond(h, Reply(ErrTimeOut, <<>>))
    /\ Become(h, [h EXCEPT !.pc = "remove"])
    /\ UNCHANGED <<raftVars, serverVars, restarts, states>>

\* The goroutine that the handler leaves behind; a channel that nobody can
\* reach any more is garbage.
RemoveNotifyChan(h) ==
    LET s == h.server
        held == {g.chan : g \in {g \in handlers \ {h} : g.server = s /\ g.pc = "wait"}} IN
    /\ h.pc = "remove"
    /\ handlers' = handlers \ {h}
    /\ notifyChans' = [notifyChans EXCEPT ![s] = Restrict(@, DOMAIN @ \ {h.index})]
    /\ buffered' = [buffered EXCEPT ![s] = Restrict(@, DOMAIN @ \cap (held \cup Range(notifyChans'[s])))]
    /\ UNCHANGED <<raftVars, lastApplied, machine, snapshot, pushed, clientVars, restarts, states, seen>>

----------------------------------------------------------------------------
\* The applier

\* The message that Raft pushes next to s.
NextIndex(s) == pushed[s] + 1

\* A command that the machine has, because of a snapshot that passed it.
Outdated(s) == NextIndex(s) <= lastApplied[s]

Notifies(s) == leading[s] /\ chosen[NextIndex(s)].term = term[s]

\* The channel that the applier sends to.
NotifiedChans(s) == GetNotifyChan(s, NextIndex(s), <<"applier", NextIndex(s)>>)

Discard(s) ==
    /\ Pushable(s, NextIndex(s)) /\ Outdated(s)
    /\ pushed' = [pushed EXCEPT ![s] = @ + 1]
    /\ UNCHANGED <<raftVars, lastApplied, machine, notifyChans, buffered, snapshot, handlers,
                   clientVars, restarts, states, seen>>

SnapshotOfTable(s) ==   \* mutant: lastOperations is not saved
    [index |-> NextIndex(s), machine |-> [machine'[s] EXCEPT !.last = NewMachine.last]]

\* The index under which taskSnapshot saves the machine.
SnapshotAt(s) == [index |-> NextIndex(s), machine |-> machine'[s]]

\* The applier applies a command, notifies the handler if the server leads
\* in the term of the command, and snapshots if the log is too big.  It waits
\* with kv.mu held while the channel is full.
ApplyCommand(s) ==
    LET i == NextIndex(s)
        cmd == chosen[i].cmd
        ch == NotifiedChans(s)[i] IN
    /\ Pushable(s, i) /\ ~Outdated(s)
    /\ Notifies(s) => ch \notin DOMAIN buffered[s]
    /\ pushed' = [pushed EXCEPT ![s] = i]
    /\ lastApplied' = [lastApplied EXCEPT ![s] = i]
    /\ machine' = [machine EXCEPT ![s] = Applied(@, cmd)]
    /\ IF Notifies(s)
       THEN /\ notifyChans' = [notifyChans EXCEPT ![s] = NotifiedChans(s)]
            /\ buffered' = [buffered EXCEPT ![s] = (ch :> ReplyTo(machine[s], cmd)) @@ @]
       ELSE UNCHANGED <<notifyChans, buffered>>
    /\ snapshot' = IF i \in TooBig THEN [snapshot EXCEPT ![s] = SnapshotAt(s)] ELSE snapshot
    /\ UNCHANGED <<raftVars, handlers, clientVars, restarts, states, seen>>

\* A snapshot of the leader arrives on applyCh and CondInstallSnapshot accepts
\* it.  The rest of a batch that Raft is pushing may follow it.
InstallSnapshot(l, s, passed) ==
    /\ l # s /\ leading[l] /\ term[s] = term[l]
    /\ snapshot[l].index > pushed[s] /\ snapshot[l].index > lastApplied[s]
    /\ Pushable(s, snapshot[l].index)
    /\ machine' = [machine EXCEPT ![s] = snapshot[l].machine]
    /\ lastApplied' = [lastApplied EXCEPT ![s] = snapshot[l].index]
    /\ snapshot' = [snapshot EXCEPT ![s] = snapshot[l]]
    /\ pushed' = IF passed THEN pushed ELSE [pushed EXCEPT ![s] = snapshot[l].index]
    /\ UNCHANGED <<raftVars, notifyChans, buffered, handlers, clientVars, restarts, states, seen>>

\* A crash and StartKVServer: the machine of the snapshot, lastApplied 0, Raft
\* pushes from the snapshot on.  The handlers are gone.
Restart(s) ==
    /\ restarts < MaxRestarts
    /\ restarts' = restarts + 1
    /\ leading' = [leading EXCEPT ![s] = FALSE]
    /\ lastApplied' = [lastApplied EXCEPT ![s] = 0]
    /\ machine' = [machine EXCEPT ![s] = snapshot[s].machine]
    /\ pushed' = [pushed EXCEPT ![s] = snapshot[s].index]
    /\ notifyChans' = [notifyChans EXCEPT ![s] = <<>>]
    /\ buffered' = [buffered EXCEPT ![s] = <<>>]
    /\ handlers' = {h \in handlers : h.server # s \/ h.pc = "check"}
    /\ UNCHANGED <<term, log, chosen, snapshot, clientVars, states, seen>>

----------------------------------------------------------------------------
\* Raft below: what it does to the service.

RaftElects(s, Q) ==
    /\ Elect(s, Q)
    /\ UNCHANGED <<serverVars, handlers, clientVars, restarts, states, seen>>

RaftReplicates(l, f) ==
    /\ Replicate(l, f)
    /\ UNCHANGED <<serverVars, handlers, clientVars, restarts, states, seen>>

RaftChooses(l) ==
    /\ Choose(l)
    /\ states' = Append(states, Applied(states[Len(states)], log[l][Len(chosen) + 1].cmd))
    /\ seen' = Abstract!SeenWith(states'[Len(states')].table, [c \in Client |-> Asked(c)])
    /\ UNCHANGED <<serverVars, handlers, clientVars, restarts>>

ClerkStep == \E c \in Client : Call(c) \/ CallFails(c)

HandlerStep == \E h \in handlers :
    \/ CheckDuplicate(h) \/ StartCommand(h) \/ WrongLeader(h) \/ FetchChan(h)
    \/ Receive(h) \/ TimeOut(h) \/ RemoveNotifyChan(h)

ServerStep == \E s \in Server :
    \/ Discard(s)
    \/ ApplyCommand(s)
    \/ \E l \in Server, passed \in BOOLEAN : InstallSnapshot(l, s, passed)
    \/ Restart(s)

RaftStep == \E s \in Server :
    \/ \E Q \in Quorum : RaftElects(s, Q)
    \/ \E f \in Server : RaftReplicates(s, f)
    \/ RaftChooses(s)

Next == ClerkStep \/ HandlerStep \/ ServerStep \/ RaftStep

Spec == Init /\ [][Next]_vars

----------------------------------------------------------------------------
\* Properties

\* Type correctness of what the servers and the clerks keep.
TypeOK ==
    /\ \A s \in Server : /\ lastApplied[s] \in 0..Len(chosen) /\ pushed[s] \in 0..Len(chosen)
                          /\ DOMAIN notifyChans[s] \subseteq 1..Len(log[s]) + 1
                          /\ snapshot[s].index \in 0..Len(chosen)
    /\ \A c \in Client : clerk[c].leaderId \in Server /\ clerk[c].calls \in 0..MaxCalls[c]
    /\ Len(states) = Len(chosen) + 1

\* The service is linearizable: the chosen commands, clerks that retry,
\* lost and late replies, snapshots and restarts together implement one table on
\* which each write takes effect once, and each Get returns a value of its time.
\* (Command, applier and Clerk.Command.)
Linearizable == Abstract!AtomicSpec

\* A server's state machine and its lastOperations are those of the chosen
\* commands up to lastApplied, or up to the snapshot after a restart: no command
\* is applied twice or skipped on the way through snapshots that pass a batch
\* and restarts with lastApplied 0.  (applier, restoreSnapshot, StartKVServer.)
ReplicasAgree ==
    \A s \in Server :
        LET at == IF lastApplied[s] > snapshot[s].index THEN lastApplied[s] ELSE snapshot[s].index IN
        machine[s] = states[at + 1]

\* The applier never waits for a full notification channel.  It holds kv.mu, so
\* a second reply to an index that nobody reads would stop the server.
\* (applier, the send on ch.)
NeverBlocked ==
    \A s \in Server : Pushable(s, NextIndex(s)) /\ ~Outdated(s) /\ Notifies(s) =>
        NotifiedChans(s)[NextIndex(s)] \notin DOMAIN buffered[s]
=============================================================================
