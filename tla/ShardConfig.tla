---------------------------- MODULE ShardConfig ----------------------------
(***************************************************************************)
(* The configurations of the shard controller (MemoryConfigStateMachine):  *)
(* how Join, Leave and Move make the next one from the last.  The names of *)
(* the servers of a group are left out, Groups is the set of the gids;     *)
(* Num is the place in the sequence of the configurations, from 0.         *)
(***************************************************************************)
EXTENDS Integers, Sequences, SequencesExt

CONSTANT NShards

AllShards == 0..NShards - 1
ShardSeq == [i \in 1..NShards |-> i - 1]

\* Group 0 stands for no group.
DefaultConfig == [Shards |-> [s \in AllShards |-> 0], Groups |-> {}]

\* The shards of each group, members without any included.
GroupToShards(cf) ==
    [g \in cf.Groups \cup Range(cf.Shards) |-> SelectSeq(ShardSeq, LAMBDA s : cf.Shards[s] = g)]

\* Group 0 as long as it has shards, else the first gid with the most.
GetGidWithMaxShards(g2s) ==
    IF 0 \in DOMAIN g2s /\ g2s[0] # <<>> THEN 0
    ELSE CHOOSE g \in DOMAIN g2s : \A h \in DOMAIN g2s :
             Len(g2s[g]) > Len(g2s[h]) \/ (Len(g2s[g]) = Len(g2s[h]) /\ g <= h)

MinAmong(g2s, gids) ==
    IF gids = {} THEN -1
    ELSE CHOOSE g \in gids : \A h \in gids :
             Len(g2s[g]) < Len(g2s[h]) \/ (Len(g2s[g]) = Len(g2s[h]) /\ g <= h)

GetMinOfAll(g2s) == MinAmong(g2s, DOMAIN g2s)   \* mutant: group 0 takes part

\* The first gid other than 0 with the fewest, -1 when there is none.
GetGidWithMinShards(g2s) == MinAmong(g2s, DOMAIN g2s \ {0})

ShardsOf(g2s, gid) == IF gid \in DOMAIN g2s THEN g2s[gid] ELSE <<>>

Give(g2s, gid, shard) == (gid :> Append(ShardsOf(g2s, gid), shard)) @@ g2s

EvenlySpreadByTwo(g2s) ==   \* mutant: a difference of two is left
    LET source == GetGidWithMaxShards(g2s) IN
    source # 0 /\ Len(g2s[source]) - Len(ShardsOf(g2s, GetGidWithMinShards(g2s))) <= 2

\* Where the loop of Join ends.
EvenlySpread(g2s) ==
    LET source == GetGidWithMaxShards(g2s) IN
    source # 0 /\ Len(g2s[source]) - Len(ShardsOf(g2s, GetGidWithMinShards(g2s))) <= 1

\* One turn of the loop: the first shard of the source goes to the target.
MoveOne(g2s) ==
    LET source == GetGidWithMaxShards(g2s) IN
    [Give(g2s, GetGidWithMinShards(g2s), Head(g2s[source])) EXCEPT ![source] = Tail(@)]

\* The loop; it is over after a turn per shard, as JoinEnds states.
SpreadOut(g2s) == FoldLeft(LAMBDA x, i : IF EvenlySpread(x) THEN x ELSE MoveOne(x), g2s, ShardSeq)

\* newShards: a shard that no group has is left at 0.
NewShards(g2s) ==
    [s \in AllShards |-> LET owners == {g \in DOMAIN g2s : s \in Range(g2s[g])} IN
                         IF owners = {} THEN 0 ELSE CHOOSE g \in owners : TRUE]

\* The groups before the loop of Join.
WithGroups(cf, gids) == [cf EXCEPT !.Groups = @ \cup gids]

Join(cf, gids) ==
    [WithGroups(cf, gids) EXCEPT !.Shards = NewShards(SpreadOut(GroupToShards(WithGroups(cf, gids))))]

LeaveDealing(cf, gids) ==   \* mutant: all the shards are dealt anew
    LET rest == cf.Groups \ Range(gids)
        none == [g \in rest |-> <<>>] IN
    [Groups |-> rest,
     Shards |-> IF rest = {} THEN DefaultConfig.Shards
                ELSE NewShards(FoldLeft(LAMBDA x, s : Give(x, GetGidWithMinShards(x), s), none, ShardSeq))]

\* The shards of the groups that leave go, one by one, to the group with the
\* fewest; with no group left all shards fall to group 0.
Leave(cf, gids) ==
    LET g2s == GroupToShards(cf)
        rest == cf.Groups \ Range(gids)
        kept == [g \in DOMAIN g2s \ Range(gids) |-> g2s[g]]
        orphanShards == FoldLeft(LAMBDA x, g : x \o ShardsOf(g2s, g), <<>>, gids) IN
    [Groups |-> rest,
     Shards |-> IF rest = {} THEN DefaultConfig.Shards
                ELSE NewShards(FoldLeft(LAMBDA x, s : Give(x, GetGidWithMinShards(x), s), kept, orphanShards))]

Move(cf, shard, gid) == [cf EXCEPT !.Shards[shard] = gid]

\* The configuration of a number, the last one when there is none.
Query(configs, num) == IF num \in 0..Len(configs) - 1 THEN configs[num + 1] ELSE configs[Len(configs)]
=============================================================================
