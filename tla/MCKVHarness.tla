--------------------------- MODULE MCKVHarness ---------------------------
(***************************************************************************)
(* Two servers and a clerk.  Server 0 is the one that is shut down and     *)
(* started again, and the one a partition cuts off.  The clerk calls       *)
(* server 0, and the instances of server 0 call server 1.                  *)
(***************************************************************************)
EXTENDS KVHarness

(* calls are made in the order of their numbers, once the cluster is up *)
SendInTurn(r) ==
  /\ endnames[1] = 1 /\ \A q \in Req : q < r => ~At(q, "idle")
  /\ Send(r)
  /\ rpc'[r].end.from[1] # 1 /\ rpc'[r].end # [from |-> <<Clerk, 1>>, to |-> 1]

MCNext ==
  \/ PrepareServer(0) \/ StartServer(0)
  \/ (endnames[0] = 1 /\ endnames[1] = 0 /\ PrepareServer(1))
  \/ StartServer(1)
  \/ ShutdownServer(0) \/ RemoveServer(0) \/ SupersedePersister(0)
  \/ ConnectAll
  \/ Partition({0})
  \/ MakeClient(Peer)
  \/ ConnectClient(Peer)
  \/ CleanUp
  \/ \E r \in Req : SendInTurn(r) \/ Serve(r) \/ NetworkActs(r)
  \/ NetworkStops

MCSpec == Init /\ [][MCNext]_vars /\ Fairness
============================================================================
