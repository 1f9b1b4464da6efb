----------------------------- MODULE MCShardKV -----------------------------
(* Instances of ShardKV: two groups, and configurations that the shard controller
   makes, by the operators of its model. *)
EXTENDS ShardKV, TLC

CONSTANTS c1, c2

Controller == INSTANCE ShardConfig WITH NShards <- Cardinality(Shard)

Keys == {"k0"}
KeyToShard == "k0" :> 0

Operation(op, key, value) == [op |-> op, key |-> key, value |-> value]

\* c1 appends while c2 reads.
AppendAndGet == (c1 :> <<Operation("Append", "k0", "a")>>) @@ (c2 :> <<Operation("Get", "k0", "")>>)
NoOperations == c1 :> <<>>

\* Group 1 joins, group 2 joins, shard 0 goes back to group 1.
JoinJoinMove ==
    <<[Groups |-> {}, Shards |-> 0 :> 0 @@ 1 :> 0 @@ 2 :> 0 @@ 3 :> 0],
      [Groups |-> {1}, Shards |-> 0 :> 1 @@ 1 :> 1 @@ 2 :> 1 @@ 3 :> 1],
      [Groups |-> {1, 2}, Shards |-> 0 :> 2 @@ 1 :> 2 @@ 2 :> 1 @@ 3 :> 1],
      [Groups |-> {1, 2}, Shards |-> 0 :> 1 @@ 1 :> 2 @@ 2 :> 1 @@ 3 :> 1]>>

\* They are the ones that the controller makes.
ASSUME ControllerConfigs ==
    /\ JoinJoinMove[1] = Controller!DefaultConfig
    /\ JoinJoinMove[2] = Controller!Join(JoinJoinMove[1], {1})
    /\ JoinJoinMove[3] = Controller!Join(JoinJoinMove[2], {2})
    /\ JoinJoinMove[4] = Controller!Move(JoinJoinMove[3], 0, 1)

\* A new leader comes once the clerks are through with their operations.
QuietElections == elections' = elections \/ \A c \in Client : clerk[c].commandId = Len(Program[c])
=============================================================================
