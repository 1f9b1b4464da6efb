------------------------------ MODULE ShardKV ------------------------------
(***************************************************************************)
(* shardkv: groups of servers that share out the shards of a table, follow *)
(* the configurations of the shard controller, and hand shards over to one *)
(* another; clerks that look for the group of a key.                       *)
(*                                                                         *)
(* A group is the sequence of its chosen commands, of which the model      *)
(* keeps the state after all of them and the set of the earlier states.    *)
(* A server, and with it a handler or a Serve loop, has applied a prefix:  *)
(* it looks at one of these states.  A call or a command that is under way *)
(* for long, or twice, is one made from an old state.  The chosen command  *)
(* of a step is any that some server may have started since the beginning. *)
(***************************************************************************)
EXTENDS KVTable, Naturals, FiniteSets, Functions

CONSTANTS
    Client,
    Program,      \* Program[c]: the operations that c asks for
    Gid,
    Shard,
    Key2Shard,    \* key2shard
    Configs,      \* the configurations of the controller, DefaultConfig first
    MaxElections  \* bound: new leaders of all the groups

VARIABLES
    now,       \* now[g]: the state of g after its chosen commands
    past,      \* past[g]: the states of g so far
    leader,    \* leader[g]: the state that the leader of g has reached
    elections,
    deleted,   \* the DeleteShardsData calls that were answered OK
    lagged,    \* history: one of them by a leader that deleted nothing
    latest,    \* the number of the controller's last configuration
    clerk,     \* clerk[c]: [config, commandId, begun]
    sent,      \* sent[g]: the commands that clerks have sent to g
    replies,   \* the replies on their way to the clerks
    table,     \* history: the table of all the groups together
    lastId,    \* history: the last command of each client that took effect
    seen,      \* history: what a Get under way may return
    answer     \* history: what Command returned last

clientVars == <<clerk, sent, answer>>
historyVars == <<table, lastId, seen>>
vars == <<now, past, leader, elections, deleted, lagged, latest, clientVars, replies, historyVars>>

SERVING == "SERVING"
PULLING == "PULLING"
BEPULLING == "BEPULLING"
GC == "GC"

OK == "OK"
ErrNoKey == "ErrNoKey"
ErrWrongGroup == "ErrWrongGroup"

Config(n) == Configs[n + 1]

KeysOf(sh) == {k \in Key : Key2Shard[k] = sh}

----------------------------------------------------------------------------
\* The state of a group, and what a chosen command does to it

\* What a snapshot holds: the number of currentConfig, the shards, and the last
\* operation of each client.
NewReplica ==
    [num |-> 0, status |-> [sh \in Shard |-> SERVING], kv |-> EmptyTable, last |-> [c \in Client |-> 0]]

CanServerByConfig(g, r, sh) == Config(r.num).Shards[sh] = g   \* mutant

CanServer(g, r, sh) == Config(r.num).Shards[sh] = g /\ r.status[sh] \in {SERVING, GC}

IsDuplicateRequest(r, cmd) == ~IsGet(cmd) /\ cmd.id <= r.last[cmd.client]

\* applyOperation: the command takes effect, or leaves the state as it is.
TakesEffect(g, r, cmd) == CanServer(g, r, Key2Shard[cmd.key]) /\ ~IsGet(cmd) /\ ~IsDuplicateRequest(r, cmd)

ApplyOperation(g, r, cmd) ==
    IF TakesEffect(g, r, cmd) THEN [r EXCEPT !.kv = Written(@, cmd), !.last[cmd.client] = cmd.id] ELSE r

ReplyTo(g, r, cmd) ==
    [client |-> cmd.client, id |-> cmd.id,
     Err |-> IF ~CanServer(g, r, Key2Shard[cmd.key]) THEN ErrWrongGroup
             ELSE IF IsGet(cmd) /\ r.kv[cmd.key] = Nil THEN ErrNoKey ELSE OK,
     Value |-> IF IsGet(cmd) THEN Lookup(r.kv, cmd) ELSE Nil]

\* A shard that comes from a group is to be pulled, one that goes to a group
\* waits to be pulled; one that comes from or goes to group 0 stays as it is.
UpdateShardStatus(g, r) ==
    LET owner(sh) == Config(r.num).Shards[sh]
        next(sh) == Config(r.num + 1).Shards[sh] IN
    [sh \in Shard |->
        IF owner(sh) \notin {g, 0} /\ next(sh) = g THEN PULLING
        ELSE IF owner(sh) = g /\ next(sh) \notin {g, 0} THEN BEPULLING ELSE r.status[sh]]

ApplyConfiguration(g, r, n) ==
    IF n = r.num + 1 THEN [r EXCEPT !.num = n, !.status = UpdateShardStatus(g, r)] ELSE r

TreatedOne(r, ids, st) == {{sh} : sh \in {sh \in ids : r.status[sh] \in st}}   \* mutant: a break too early

\* The loops of applyInsertShards and applyDeleteShards stop at the first shard
\* that is in none of the states st: they treat all, or some before that one.
Treated(r, ids, st) ==
    LET fit == {sh \in ids : r.status[sh] \in st} IN IF fit = ids THEN {ids} ELSE SUBSET fit

InsertWithoutLast(r, info, ids) ==   \* mutant: lastOperations stay behind
    IF info.num # r.num THEN r
    ELSE [r EXCEPT
            !.kv = [k \in Key |-> IF Key2Shard[k] \in ids /\ info.kv[k] # Nil THEN info.kv[k] ELSE @[k]],
            !.status = [sh \in Shard |-> IF sh \in ids THEN GC ELSE @[sh]]]

\* Data of a shard is put on top of what the group has of it.
ApplyInsertShards(r, info, ids) ==
    IF info.num # r.num THEN r
    ELSE [r EXCEPT
            !.kv = [k \in Key |-> IF Key2Shard[k] \in ids /\ info.kv[k] # Nil THEN info.kv[k] ELSE @[k]],
            !.status = [sh \in Shard |-> IF sh \in ids THEN GC ELSE @[sh]],
            !.last = [c \in Client |-> IF info.last[c] > @[c] THEN info.last[c] ELSE @[c]]]

\* The puller starts to serve for good, the other group starts anew.
ApplyDeleteShards(r, info, ids) ==
    IF info.num # r.num THEN r
    ELSE [r EXCEPT
            !.kv = [k \in Key |-> IF Key2Shard[k] \in ids /\ r.status[Key2Shard[k]] = BEPULLING THEN Nil ELSE @[k]],
            !.status = [sh \in Shard |-> IF sh \in ids THEN SERVING ELSE @[sh]]]

----------------------------------------------------------------------------
\* The service promises one table.

Asked(c) == IF clerk[c].begun THEN Program[c][clerk[c].commandId + 1] ELSE Nil

Abstract == INSTANCE AtomicService WITH
    Op <- UNION {Range(Program[c]) : c \in Client},
    Initial <- EmptyTable, IsRead <- IsGet, Result <- Lookup, Effect <- Written, Nothing <- Nil,
    object <- table,
    asked <- [c \in Client |-> Asked(c)],
    taken <- [c \in Client |-> clerk[c].begun /\ lastId[c] > clerk[c].commandId]

Init ==
    /\ now = [g \in Gid |-> NewReplica]
    /\ past = [g \in Gid |-> {NewReplica}]
    /\ leader = [g \in Gid |-> NewReplica]
    /\ elections = 0 /\ deleted = {} /\ lagged = FALSE /\ latest = 0
    /\ clerk = [c \in Client |-> [config |-> 0, commandId |-> 0, begun |-> FALSE]]
    /\ sent = [g \in Gid |-> {}]
    /\ replies = {}
    /\ table = EmptyTable
    /\ lastId = [c \in Client |-> 0]
    /\ seen = [c \in Client |-> {}]
    /\ answer = [c \in Client |-> Nil]

----------------------------------------------------------------------------
\* The groups

\* A command is chosen and takes g to the state r; the leader applies it, and
\* all that was chosen before it.
Chosen(g, r) ==
    /\ now' = [now EXCEPT ![g] = r]
    /\ past' = [past EXCEPT ![g] = @ \cup {r}]
    /\ leader' = [leader EXCEPT ![g] = r]
    /\ UNCHANGED <<elections, latest>>

\* The commands of the Serve loops that change nothing are left out.
ChosenInServe(g, r) == (r # now[g] \/ leader[g] # now[g]) /\ Chosen(g, r)

NextConfigsAnyway(V) == {v.num + 1 : v \in V}   \* mutant: no look at the shards

\* The configurations that configurationAction asks for in the states V.
NextConfigs(V) == {v.num + 1 : v \in {v \in V : \A sh \in Shard : v.status[sh] = SERVING}}

ConfigureAhead(g, n) ==   \* mutant: whether or not the controller has it
    /\ n < Len(Configs)
    /\ ChosenInServe(g, ApplyConfiguration(g, now[g], n))
    /\ UNCHANGED <<deleted, lagged, clientVars, replies, historyVars>>

\* The controller has it, and it is chosen.
Configure(g, n) ==
    /\ n <= latest
    /\ ChosenInServe(g, ApplyConfiguration(g, now[g], n))
    /\ UNCHANGED <<deleted, lagged, clientVars, replies, historyVars>>

\* getShardIdsByStatus: the shards with status st that were of group h.
ShardIdsByStatus(v, st, h) == {sh \in Shard : v.status[sh] = st /\ Config(v.num - 1).Shards[sh] = h}

\* The calls of migrationAction (st is PULLING) or gcAction (GC) of g to other
\* groups in the states V.
Calls(g, V, st) ==
    {call \in {[by |-> g, to |-> h, num |-> v.num, ids |-> ShardIdsByStatus(v, st, h)] : v \in V, h \in Gid} :
        call.ids # {}}

ShardsDataLater(call, W) ==   \* mutant: a group in the same configuration is not ready
    {[num |-> call.num, last |-> w.last,
      kv |-> [k \in Key |-> IF Key2Shard[k] \in call.ids THEN w.kv[k] ELSE Nil]] :
     w \in {w \in W : w.num > call.num}}

\* What GetShardsData answers in the states W that are not behind the caller.
ShardsData(call, W) ==
    {[num |-> call.num, last |-> w.last,
      kv |-> [k \in Key |-> IF Key2Shard[k] \in call.ids THEN w.kv[k] ELSE Nil]] :
     w \in {w \in W : w.num >= call.num}}

\* migrationAction: the shards are pulled, and their insertion is chosen.
Migrate(call, W) ==
    LET g == call.by IN
    /\ \E data \in ShardsData(call, W), ids \in Treated(now[g], call.ids, {PULLING}) :
          ChosenInServe(g, ApplyInsertShards(now[g], data, ids))
    /\ UNCHANGED <<deleted, lagged, clientVars, replies, historyVars>>

\* DeleteShardsData of a server that is in a state of W: the deletion is chosen
\* and the answer is OK.
DeleteShardsData(call, W) ==
    LET h == call.to IN
    /\ \E w \in W : w.num >= call.num
    /\ deleted' = deleted \cup {call}
    /\ \E ids \in Treated(now[h], call.ids, {GC, BEPULLING}) :
          Chosen(h, ApplyDeleteShards(now[h], call, ids))
    /\ UNCHANGED <<lagged, clientVars, replies, historyVars>>

\* The leader is behind: it answers OK and deletes nothing.
DeleteNothing(call) ==
    /\ leader[call.to].num < call.num
    /\ deleted' = deleted \cup {call}
    /\ lagged' = TRUE
    /\ UNCHANGED <<now, past, leader, elections, latest, clientVars, replies, historyVars>>

\* gcAction after the OK: the group is through with the shards.
FinishGc(call) ==
    LET g == call.by IN
    /\ call \in deleted
    /\ \E ids \in Treated(now[g], call.ids, {GC, BEPULLING}) : ChosenInServe(g, ApplyDeleteShards(now[g], call, ids))
    /\ UNCHANGED <<deleted, lagged, clientVars, replies, historyVars>>

\* checkEntryInCurrentTermAction: a new leader, that may not commit what it
\* finds in its log, adds an entry of its own term.
CheckEntryInCurrentTerm(g) ==
    /\ ChosenInServe(g, now[g])
    /\ UNCHANGED <<deleted, lagged, clientVars, replies, historyVars>>

\* A server that has applied less becomes the leader, after a restart maybe.
NewLeader(g, v) ==
    /\ elections < MaxElections /\ v # leader[g]
    /\ elections' = elections + 1
    /\ leader' = [leader EXCEPT ![g] = v]
    /\ UNCHANGED <<now, past, deleted, lagged, latest, clientVars, replies, historyVars>>

\* The administrators have made the next configuration.
Reconfigure ==
    /\ latest < Len(Configs) - 1
    /\ latest' = latest + 1
    /\ UNCHANGED <<now, past, leader, elections, deleted, lagged, clientVars, replies, historyVars>>

----------------------------------------------------------------------------
\* The clerks and the Command handlers

CommandArgs(c) ==
    LET o == Program[c][clerk[c].commandId + 1] IN
    [client |-> c, id |-> clerk[c].commandId + 1, op |-> o.op, key |-> o.key, value |-> o.value]

\* The calls to the group of the key in configuration n, if there is one.
SentUnder(c, n) ==
    LET cmd == CommandArgs(c) IN
    [g \in Gid |-> IF Config(n).Shards[Key2Shard[cmd.key]] = g THEN sent[g] \cup {cmd} ELSE sent[g]]

\* Get, Put and Append enter Command, which calls the group it knows of.
Begin(c) ==
    /\ ~clerk[c].begun /\ clerk[c].commandId < Len(Program[c])
    /\ clerk' = [clerk EXCEPT ![c].begun = TRUE]
    /\ sent' = SentUnder(c, clerk[c].config)
    /\ seen' = Abstract!SeenWith(table, [d \in Client |-> Asked(d)'])
    /\ UNCHANGED <<now, past, leader, elections, deleted, lagged, latest, answer, replies, table, lastId>>

\* There was no group, it was the wrong one, or its servers were tried in vain:
\* the clerk asks for the last configuration and calls again.
TryAgain(c) ==
    /\ clerk[c].begun /\ clerk[c].config # latest
    /\ clerk' = [clerk EXCEPT ![c].config = latest]
    /\ sent' = SentUnder(c, latest)
    /\ UNCHANGED <<now, past, leader, elections, deleted, lagged, latest, answer, replies, historyVars>>

\* What the check of Command makes of a command in a server in state v.
Duplicate(v, cmd) == IsDuplicateRequest(v, cmd)

Accepted(g, v, cmd) == ~IsDuplicateRequest(v, cmd) /\ CanServer(g, v, Key2Shard[cmd.key])

\* The clerk still waits for the answer; nobody reads any other.
Awaited(reply) == clerk[reply.client].begun /\ reply.id = clerk[reply.client].commandId + 1

\* The handler answers a duplicate at once.
AnswerDuplicate(g, cmd) ==
    /\ \E v \in past[g] : Duplicate(v, cmd)
    /\ replies' = replies \cup {r \in {[client |-> cmd.client, id |-> cmd.id, Err |-> OK, Value |-> Nil]} : Awaited(r)}
    /\ UNCHANGED <<now, past, leader, elections, deleted, lagged, latest, clientVars, historyVars>>

\* A command that some server accepted is chosen, and applied if the group
\* still may; the server that applies it as a leader sends the reply.  One of
\* ErrWrongGroup makes the clerk try again, which it may do anyway.
Operate(g, cmd) ==
    LET effect == TakesEffect(g, now[g], cmd) IN
    /\ \E v \in past[g] : Accepted(g, v, cmd)
    /\ Chosen(g, ApplyOperation(g, now[g], cmd))
    /\ replies' = replies \cup {r \in {ReplyTo(g, now[g], cmd)} : r.Err # ErrWrongGroup /\ Awaited(r)}
    /\ table' = IF effect THEN Written(table, cmd) ELSE table
    /\ lastId' = IF effect THEN [lastId EXCEPT ![cmd.client] = cmd.id] ELSE lastId
    /\ seen' = Abstract!SeenWith(table', [c \in Client |-> Asked(c)])
    /\ UNCHANGED <<deleted, lagged, clientVars>>

\* A reply to the command under way reaches its clerk, OK or ErrNoKey.
Return(c, reply) ==
    /\ reply.client = c /\ Awaited(reply)
    /\ clerk' = [clerk EXCEPT ![c].commandId = @ + 1, ![c].begun = FALSE]
    /\ answer' = [answer EXCEPT ![c] = reply.Value]
    /\ seen' = [seen EXCEPT ![c] = {}]
    /\ replies' = {r \in replies : r.client # c}
    /\ UNCHANGED <<now, past, leader, elections, deleted, lagged, latest, sent, table, lastId>>

GroupStep(g) ==
    \/ \E n \in NextConfigs(past[g]) : Configure(g, n)
    \/ \E call \in Calls(g, past[g], PULLING) : Migrate(call, past[call.to])
    \/ \E call \in Calls(g, past[g], GC) : \/ DeleteShardsData(call, past[call.to])
                                         \/ DeleteNothing(call)
                                         \/ FinishGc(call)
    \/ CheckEntryInCurrentTerm(g)
    \/ \E v \in past[g] : NewLeader(g, v)
    \/ \E cmd \in sent[g] : AnswerDuplicate(g, cmd) \/ Operate(g, cmd)

ClerkStep(c) ==
    \/ Begin(c) \/ TryAgain(c)
    \/ \E reply \in replies : Return(c, reply)

Next ==
    \/ Reconfigure
    \/ \E g \in Gid : GroupStep(g)
    \/ \E c \in Client : ClerkStep(c)

\* The Serve loops run for ever on the leaders, and in the end their calls
\* reach a leader of the other group.
Fairness ==
    \A g \in Gid :
        LET leaders == {leader[g]} IN
        /\ WF_vars(\E n \in NextConfigs(leaders) : Configure(g, n))
        /\ WF_vars(\E call \in Calls(g, leaders, PULLING) : Migrate(call, {leader[call.to]}))
        /\ WF_vars(\E call \in Calls(g, leaders, GC) : DeleteShardsData(call, {leader[call.to]}))
        /\ WF_vars(\E call \in Calls(g, leaders, GC) : FinishGc(call))
        /\ WF_vars(CheckEntryInCurrentTerm(g))

Spec == Init /\ [][Next]_vars /\ Fairness

----------------------------------------------------------------------------
\* Properties

\* Type correctness of the groups' states.
TypeOK ==
    /\ \A g \in Gid : /\ now[g].num \in 0..latest /\ leader[g] \in past[g] /\ now[g] \in past[g]
                       /\ \A sh \in Shard : now[g].status[sh] \in {SERVING, PULLING, BEPULLING, GC}
    /\ \A c \in Client : clerk[c].config \in 0..latest

\* From outside the groups are one linearizable table: whatever the order in
\* which groups change their configurations, pull, delete and serve, and clerks
\* ask stale groups and try again.  (Command, applyOperation, the migration.)
Linearizable == Abstract!AtomicSpec

\* No two groups serve a shard, and the one that does has the data.
\* (canServer, updateShardStatus, applyInsertShards.)
OneHolder ==
    \A g \in Gid, sh \in Shard : CanServer(g, now[g], sh) =>
        /\ \A h \in Gid \ {g} : ~CanServer(h, now[h], sh)
        /\ \A k \in KeysOf(sh) : now[g].kv[k] = table[k]

\* A group takes a configuration only when it is through with the last: no
\* shard is PULLING, BEPULLING or GC, though configurationAction looks at a
\* state that may be old when the command is applied.  (configurationAction.)
ConfiguredWhenServing ==
    [][\A g \in Gid : now[g].num # now'[g].num => \A sh \in Shard : now[g].status[sh] = SERVING]_vars

\* The shards of one InsertShards or DeleteShards command change together: the
\* break in the loops is never met half way, where servers that range over a
\* map in different orders would differ.  (applyInsertShards, applyDeleteShards.)
ShardsMoveTogether ==
    \A g, h \in Gid : \A v \in past[g], st \in {PULLING, GC} :
        LET ids == ShardIdsByStatus(v, st, h) IN
        v.num = now[g].num => Cardinality({now[g].status[sh] : sh \in ids}) <= 1

\* The groups come, whatever happens, to the last configuration of the
\* controller: their servers go on asking it for new ones.  (The Serve loops of
\* StartServer.)
EveryConfiguration == []<>(\A g \in Gid : now[g].num = latest)

\* They do so unless a leader that lags takes a DeleteShardsData: through every
\* order of pulls, deletions, late commands and elections, no two groups wait
\* for each other.  (configurationAction, migrationAction, gcAction.)
CatchUp == <>lagged \/ EveryConfiguration
=============================================================================
