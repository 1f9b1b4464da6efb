---------------------------- MODULE ShardCtrler ----------------------------
(***************************************************************************)
(* The shard controller: clerks that retry, Command handlers, appliers     *)
(* and faults around the configurations of ShardConfig.                  *)
(*                                                                         *)
(* Raft is what the library promises and no more: a command that a server  *)
(* took as a leader is chosen later, or never; every server applies the    *)
(* chosen commands in their order.  Who leads is left open.  How a reply   *)
(* finds its handler, the same code as in kvraft, is the matter of KVRaft. *)
(***************************************************************************)
EXTENDS ShardConfig, FiniteSets, TLC

CONSTANTS
    Client,
    Server,
    Op,           \* Op[c]: what c may ask for
    None,
    MaxCalls,     \* bound: calls of all the clerks together
    MaxFaults     \* bound: failed calls, timeouts and crashes together

VARIABLES
    machine,   \* machine[s]: [configs, last], the configurations and lastOperations
    applied,   \* applied[s]: how many of the chosen commands it has applied
    handlers,  \* the Command handlers under way
    proposed,  \* commands in the log of some leader that are not chosen yet
    chosen,    \* the commands that Raft has chosen
    clerk,     \* clerk[c]: [leaderId, commandId, op, calling], calling is the call that it waits for, or 0
    calls,     \* the number of calls so far
    faults,    \* how many of those there were
    latest,    \* history: the machine after all the chosen commands
    seen,      \* history: what a Query under way may return
    answer     \* history: what Command returned last

vars == <<machine, applied, handlers, proposed, chosen, clerk, calls, faults, latest, seen, answer>>

OP_JOIN == "OPJOIN"
OP_LEAVE == "OPLEAVE"
OP_MOVE == "OPMOVE"
OP_QUERY == "OPQUERY"

OK == "OK"
ErrWrongLeader == "ErrWrongLeader"
ErrTimeout == "ErrTimeout"

----------------------------------------------------------------------------
\* The state machine

IsQuery(o) == o.op = OP_QUERY

\* applyLogToStateMachine: what Query returns, and the configurations after
\* the other operations.
QueryResult(configs, o) == Query(configs, o.num)

Changed(cf, o) ==
    CASE o.op = OP_JOIN -> Join(cf, o.groups)
      [] o.op = OP_LEAVE -> Leave(cf, o.gids)
      [] o.op = OP_MOVE -> Move(cf, o.shard, o.gid)

Extended(configs, o) == Append(configs, Changed(Last(configs), o))

\* NewMemoryConfigStateMachine and an empty lastOperations; the command of
\* CommandId i has id i + 1.
NewMachine == [configs |-> <<DefaultConfig>>, last |-> [c \in Client |-> 0]]

IsDuplicatedNever(m, cmd) == FALSE   \* mutant

IsDuplicatedRequest(m, cmd) == cmd.id <= m.last[cmd.client]

\* The applier's part: a Query leaves no trace, another command takes effect
\* unless it is a duplicate.
Applied(m, cmd) ==
    IF IsQuery(cmd.op) \/ IsDuplicatedRequest(m, cmd) THEN m
    ELSE [configs |-> Extended(m.configs, cmd.op), last |-> [m.last EXCEPT ![cmd.client] = cmd.id]]

ReplyTo(m, cmd) == [Err |-> OK, Config |-> IF IsQuery(cmd.op) THEN QueryResult(m.configs, cmd.op) ELSE None]

\* The controller promises the sequence of the configurations.
Abstract == INSTANCE AtomicService WITH
    Op <- UNION {Op[c] : c \in Client},
    Initial <- <<DefaultConfig>>, IsRead <- IsQuery, Result <- QueryResult, Effect <- Extended, Nothing <- None,
    object <- latest.configs,
    asked <- [c \in Client |-> clerk[c].op],
    taken <- [c \in Client |-> clerk[c].op # None /\ latest.last[c] > clerk[c].commandId]

----------------------------------------------------------------------------
\* The clerk

Init ==
    /\ machine = [s \in Server |-> NewMachine]
    /\ applied = [s \in Server |-> 0]
    /\ handlers = {} /\ proposed = {} /\ chosen = <<>>
    /\ clerk = [c \in Client |-> [leaderId |-> 0, commandId |-> 0, op |-> None, calling |-> 0]]
    /\ calls = 0 /\ faults = 0
    /\ latest = NewMachine
    /\ seen = [c \in Client |-> {}]
    /\ answer = [c \in Client |-> None]

\* An administrator moves a shard to a group that is there.
Sensible(o) == o.op = OP_MOVE => o.gid \in Last(latest.configs).Groups

\* The call of c to the server that it takes for the leader.
Send(c) ==
    /\ clerk[c].calling = 0 /\ calls < MaxCalls
    /\ calls' = calls + 1
    /\ handlers' = handlers \cup
         {[try |-> calls + 1, server |-> clerk[c].leaderId, waiting |-> FALSE,
           cmd |-> [client |-> c, id |-> clerk[c].commandId + 1, op |-> clerk'[c].op]]}
    /\ UNCHANGED <<machine, applied, proposed, chosen, faults, latest, answer>>

\* Query, Join, Leave and Move: the first call of Command.
Ask(c, o) ==
    /\ clerk[c].op = None /\ Sensible(o)
    /\ clerk' = [clerk EXCEPT ![c].op = o, ![c].calling = calls + 1]
    /\ seen' = Abstract!SeenWith(latest.configs, [d \in Client |-> clerk'[d].op])
    /\ Send(c)

\* The loop of Command: the same command again.
AskAgain(c) ==
    /\ clerk[c].op # None
    /\ clerk' = [clerk EXCEPT ![c].calling = calls + 1]
    /\ UNCHANGED seen
    /\ Send(c)

Fault == faults < MaxFaults /\ faults' = faults + 1

RotatedPastEnd(ck) == [ck EXCEPT !.leaderId = @ + 1, !.calling = 0]   \* mutant

Rotated(ck) == [ck EXCEPT !.leaderId = (@ + 1) % Cardinality(Server), !.calling = 0]

\* The network gives up on a call; its handler may still run or start.
CallFails(c) ==
    /\ clerk[c].calling # 0 /\ Fault
    /\ clerk' = [clerk EXCEPT ![c] = Rotated(@)]
    /\ UNCHANGED <<machine, applied, handlers, proposed, chosen, calls, latest, seen, answer>>

\* The reply r of handler h; a caller that still waits takes it, and goes on
\* with its next command unless the error tells it to try another server.
Respond(h, r) ==
    LET c == h.cmd.client
        awaited == clerk[c].calling = h.try IN
    IF awaited /\ r.Err \notin {ErrWrongLeader, ErrTimeout}
    THEN /\ clerk' = [clerk EXCEPT ![c].commandId = @ + 1, ![c].op = None, ![c].calling = 0]
         /\ answer' = [answer EXCEPT ![c] = r.Config]
         /\ seen' = [seen EXCEPT ![c] = {}]
    ELSE /\ clerk' = IF awaited THEN [clerk EXCEPT ![c] = Rotated(@)] ELSE clerk
         /\ UNCHANGED <<answer, seen>>

----------------------------------------------------------------------------
\* The servers

\* Command: a duplicate is answered at once; otherwise Start refuses, or the
\* command is in the log of a leader and the handler waits.
Command(h) ==
    /\ ~h.waiting
    /\ IF ~IsQuery(h.cmd.op) /\ IsDuplicatedRequest(machine[h.server], h.cmd)
       THEN /\ handlers' = handlers \ {h}
            /\ Respond(h, [Err |-> OK, Config |-> None])
            /\ UNCHANGED proposed
       ELSE \/ /\ handlers' = handlers \ {h}
               /\ Respond(h, [Err |-> ErrWrongLeader, Config |-> None])
               /\ UNCHANGED proposed
            \/ /\ handlers' = (handlers \ {h}) \cup {[h EXCEPT !.waiting = TRUE]}
               /\ proposed' = proposed \cup {[try |-> h.try, cmd |-> h.cmd]}
               /\ UNCHANGED <<clerk, seen, answer>>
    /\ UNCHANGED <<machine, applied, chosen, calls, faults, latest>>

TimeOut(h) ==
    /\ h.waiting
    /\ IF clerk[h.cmd.client].calling = h.try THEN Fault ELSE UNCHANGED faults
    /\ handlers' = handlers \ {h}
    /\ Respond(h, [Err |-> ErrTimeout, Config |-> None])
    /\ UNCHANGED <<machine, applied, proposed, chosen, calls, latest>>

\* The applier applies the next chosen command; if the server leads in its
\* term, the handler that waits for it gets the reply.
Apply(s, leads) ==
    LET entry == chosen[applied[s] + 1]
        waiter == {h \in handlers : h.server = s /\ h.waiting /\ h.try = entry.try} IN
    /\ applied[s] < Len(chosen)
    /\ applied' = [applied EXCEPT ![s] = @ + 1]
    /\ machine' = [machine EXCEPT ![s] = Applied(@, entry.cmd)]
    /\ IF leads
       THEN \E h \in waiter : handlers' = handlers \ {h} /\ Respond(h, ReplyTo(machine[s], entry.cmd))
       ELSE UNCHANGED <<handlers, clerk, seen, answer>>
    /\ UNCHANGED <<proposed, chosen, calls, faults, latest>>

\* A crash and StartServer: there is no snapshot, Raft sends everything again.
Restart(s) ==
    /\ Fault
    /\ machine' = [machine EXCEPT ![s] = NewMachine]
    /\ applied' = [applied EXCEPT ![s] = 0]
    /\ handlers' = {h \in handlers : h.server # s \/ ~h.waiting}
    /\ UNCHANGED <<proposed, chosen, clerk, calls, latest, seen, answer>>

\* Raft chooses a command that a leader has in its log.
Choose(p) ==
    /\ proposed' = proposed \ {p}
    /\ chosen' = Append(chosen, p)
    /\ latest' = Applied(latest, p.cmd)
    /\ seen' = Abstract!SeenWith(latest'.configs, [c \in Client |-> clerk[c].op])
    /\ UNCHANGED <<machine, applied, handlers, clerk, calls, faults, answer>>

Next ==
    \/ \E c \in Client : \E o \in Op[c] : Ask(c, o)
    \/ \E c \in Client : AskAgain(c)
    \/ \E c \in Client : CallFails(c)
    \/ \E h \in handlers : Command(h)
    \/ \E h \in handlers : TimeOut(h)
    \/ \E s \in Server, leads \in BOOLEAN : Apply(s, leads)
    \/ \E s \in Server : Restart(s)
    \/ \E p \in proposed : Choose(p)

Spec == Init /\ [][Next]_vars

----------------------------------------------------------------------------
\* Properties

\* Type correctness of the configurations and of what the servers keep.
TypeOK ==
    /\ \A s \in Server : applied[s] \in 0..Len(chosen) /\ Len(machine[s].configs) \in 1..applied[s] + 1
    /\ \A c \in Client : clerk[c].leaderId \in Server /\ clerk[c].calling \in 0..calls
    /\ \A i \in 1..Len(latest.configs) : DOMAIN latest.configs[i].Shards = AllShards

\* The controller is linearizable: with retries, late and lost replies and
\* faults that replay the log, each Join, Leave and Move makes exactly one
\* configuration and each Query returns one of its time.
\* (Command, applier, Clerk.Command.)
Linearizable == Abstract!AtomicSpec

\* The groups' numbers of shards, and the largest difference of two of them.
Sizes(cf) == {Cardinality({s \in AllShards : cf.Shards[s] = g}) : g \in cf.Groups}
Spread(cf) == IF cf.Groups = {} THEN 0 ELSE CHOOSE d \in 0..NShards :
                  (\E m, n \in Sizes(cf) : m - n = d) /\ (\A m, n \in Sizes(cf) : m - n <= d)
Owned(cf) == \A s \in AllShards : IF cf.Groups = {} THEN cf.Shards[s] = 0 ELSE cf.Shards[s] \in cf.Groups
Moved(cf, shards) == Cardinality({s \in AllShards : cf.Shards[s] # shards[s]})

\* A step chooses the operation o, that makes a configuration from another.
NewConfigBy(op, P(_, _, _)) ==
    latest'.configs # latest.configs =>
        LET o == Last(chosen').cmd.op IN
        o.op = op => P(Last(latest.configs), Last(latest'.configs), o)

\* Join leaves every shard with a member and an even spread, and no assignment
\* that is even moves fewer shards.  (Join, "max too much larger than min" and
\* "non-minimal transfer after Join()s" in the tests.)
JoinWorks(old, new, o) ==
    /\ Owned(new) /\ Spread(new) <= 1
    /\ \A a \in [AllShards -> new.Groups] :
         Spread([new EXCEPT !.Shards = a]) <= 1 => Moved(old, new.Shards) <= Moved(old, a)

JoinEvenAndMinimal == [][NewConfigBy(OP_JOIN, JoinWorks)]_vars

\* Leave moves the shards of the groups that leave and no others, and makes
\* an even spread no worse than even, even after Moves have disturbed it.
\* (Leave, "non-minimal transfer after Leave()s" in the tests.)
LeaveWorks(old, new, o) ==
    /\ Owned(new)
    /\ \A s \in AllShards : old.Shards[s] \notin Range(o.gids) => new.Shards[s] = old.Shards[s]
    /\ Spread(new) <= 1 \/ Spread(new) <= Spread(old)

LeaveMovesOrphans == [][NewConfigBy(OP_LEAVE, LeaveWorks)]_vars

\* The loop of Join, which runs in the applier with sc.mu held, ends for
\* every set of groups that may join the configuration the controller is in.
\* (Join, for {...}.)
JoinEnds ==
    \A c \in Client : \A o \in Op[c] : o.op = OP_JOIN =>
        EvenlySpread(SpreadOut(GroupToShards(WithGroups(Last(latest.configs), o.groups))))
=============================================================================
