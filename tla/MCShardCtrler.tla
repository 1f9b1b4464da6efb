--------------------------- MODULE MCShardCtrler ---------------------------
(* Instances of ShardCtrler: an administrator that changes the configuration and
   a client that joins a group and looks. *)
EXTENDS ShardCtrler

CONSTANTS admin, other

Servers == 0..1

Joins(S) == {[op |-> OP_JOIN, groups |-> g] : g \in S}
Leaves(S) == {[op |-> OP_LEAVE, gids |-> g] : g \in S}
Moves(S, G) == {[op |-> OP_MOVE, shard |-> s, gid |-> g] : s \in S, g \in G}
Queries(N) == {[op |-> OP_QUERY, num |-> n] : n \in N}

Ops == (admin :> Joins({{1}, {2, 3}, {1, 2, 3}}) \cup Leaves({<<1>>, <<3, 2>>}) \cup Moves({0, 3}, {1, 2}))
    @@ (other :> Joins({{2}}) \cup Queries({-1, 1}))

\* Two reductions.  A handler that waits for a reply that nobody wants ends at
\* once.  A server applies commands only while it has a handler: without one,
\* nothing looks at its machine, so it may as well apply them later.
Unwanted == {h \in handlers : h.waiting /\ clerk[h.cmd.client].calling # h.try}

Idle(s) == \A h \in handlers : h.server # s

MCNext ==
    \/ \E h \in Unwanted : TimeOut(h)
    \/ Unwanted = {} /\ Next /\ \A s \in Server : Idle(s) => applied'[s] <= applied[s]

MCSpec == Init /\ [][MCNext]_vars
=============================================================================
