--------------------------- MODULE KVHarness ---------------------------
(***************************************************************************)
(* kvraft/config.go over the network of labrpc and the Persister of raft:  *)
(* how servers are started, cut off, shut down and started again while     *)
(* calls are under way.  A server that is shut down cannot be killed: its  *)
(* goroutines go on, its handlers still run, still save what they did and  *)
(* still send.  What keeps it from doing harm is the order in which its    *)
(* ends are disabled, its server object is deleted and its persister is    *)
(* superseded.                                                             *)
(*                                                                         *)
(* The k-th instance of server i is <<i, k>>; its server object and its    *)
(* end names are called after it.  A handler is abstracted to the update   *)
(* it makes: it adds its call to the state of the instance and saves that  *)
(* state before it returns.                                                *)
(***************************************************************************)
EXTENDS Labrpc, Sequences

CONSTANTS
  Peer,          \* the servers 0 .. n-1
  Clerk,         \* the clerk, who is no server
  MaxStarts,     \* bound: StartServer calls per server
  MaxPartitions  \* bound: partitions made

ASSUME HarnessAssumption ==
  /\ IsFiniteSet(Peer)
  /\ Clerk \notin Peer
  /\ MaxStarts \in Nat \ {0}
  /\ MaxPartitions \in Nat

VARIABLES
  endnames,    \* per server, the instance whose end names cfg.endnames holds
  saved,       \* per server, the persister cfg.saved holds (0 stands for nil)
  disk,        \* per server, what each of its persisters holds
  instance,    \* per server, the persister and the state of each of its instances
  phase,       \* per server, how far ShutdownServer or StartServer has got
  partitions   \* how many partitions were made

vars == <<netVars, endnames, saved, disk, instance, phase, partitions>>

harnessVars == <<endnames, saved, disk, instance, phase, partitions>>

Instance == Peer \X (1 .. MaxStarts)

End == [from : Instance \cup {<<Clerk, 1>>}, to : Peer]

-----------------------------------------------------------------------------
(* one operation of the harness at a time: the tests call them in a row *)
Free == ~done /\ \A i \in Peer : phase[i] \in {"up", "down"}

AllUp == ~done /\ \A i \in Peer : phase[i] = "up"

(* the ends from i to the servers in others, and from them to i *)
Between(i, others) ==
  [from : {<<i, endnames[i]>>}, to : others]
    \cup [from : {<<j, endnames[j]>> : j \in others}, to : {i}]

ClerkEnds(to) == [from : {<<Clerk, 1>>}, to : to]

Init ==
  /\ MakeNetwork
  /\ servers = [i \in Peer |-> 0]
  /\ endnames = [i \in Peer |-> 0]
  /\ saved = [i \in Peer |-> 0]
  /\ disk = [i \in Peer |-> << >>]
  /\ instance = [i \in Peer |-> << >>]
  /\ phase = [i \in Peer |-> "down"]
  /\ partitions = 0

(* a fresh persister for i that holds what content says *)
NewPersister(i, content) ==
  /\ saved' = [saved EXCEPT ![i] = @ + 1]
  /\ disk' = [disk EXCEPT ![i] = Append(@, content)]

Copy(i) == NewPersister(i, disk[i][saved[i]])

(* StartServer, under cfg.mu: fresh end names, fresh ends and a fresh persister *)
PrepareServer(i) ==
  /\ Free /\ phase[i] = "down"
  /\ endnames[i] < MaxStarts
  /\ endnames' = [endnames EXCEPT ![i] = @ + 1]
  /\ MakeEnds([from : {<<i, endnames[i] + 1>>}, to : Peer])
  /\ IF saved[i] = 0 THEN NewPersister(i, {}) ELSE Copy(i)
  /\ phase' = [phase EXCEPT ![i] = "prepared"]
  /\ UNCHANGED <<servers, listening, done, rpc, instance, partitions>>

(* the rest of StartServer: the instance reads its persister and joins the network *)
StartServer(i) ==
  /\ phase[i] = "prepared"
  /\ instance' = [instance EXCEPT ![i] =
                    Append(@, [persister |-> saved[i], state |-> disk[i][saved[i]]])]
  /\ AddServer(i, endnames[i])
  /\ phase' = [phase EXCEPT ![i] = "up"]
  /\ UNCHANGED <<enabled, listening, done, rpc, endnames, saved, disk, partitions>>

(* mutant: the outgoing loop is missing *)
DisconnectIncoming(i) ==
  Enable([from : {<<j, endnames[j]>> : j \in Peer \ {i}}, to : {i}], FALSE)

DisconnectUnlocked(i) == Enable(Between(i, Peer), FALSE)

(* ShutdownServer: first the ends from and to the other servers are disabled *)
ShutdownServer(i) ==
  /\ Free /\ phase[i] = "up"
  /\ DisconnectUnlocked(i)
  /\ phase' = [phase EXCEPT ![i] = "disconnected"]
  /\ UNCHANGED <<servers, listening, done, rpc, endnames, saved, disk, instance,
                 partitions>>

(* then the server object goes, and with it the way in for clerks *)
RemoveServer(i) ==
  /\ phase[i] = "disconnected"
  /\ DeleteServer(i)
  /\ phase' = [phase EXCEPT ![i] = "deleted"]
  /\ UNCHANGED <<enabled, listening, done, rpc, endnames, saved, disk, instance,
                 partitions>>

(* only then is the persister superseded; Kill just sets a flag *)
SupersedePersister(i) ==
  /\ phase[i] = "deleted"
  /\ Copy(i)
  /\ phase' = [phase EXCEPT ![i] = "down"]
  /\ UNCHANGED <<netVars, endnames, instance, partitions>>

ConnectAll ==
  /\ AllUp
  /\ Enable(UNION {Between(i, Peer) : i \in Peer}, TRUE)
  /\ UNCHANGED <<servers, listening, done, rpc, harnessVars>>

(* servers in p reach each other, the rest reach each other, and no more *)
Partition(p) ==
  /\ AllUp
  /\ partitions < MaxPartitions
  /\ partitions' = partitions + 1
  /\ LET inside == UNION ({Between(i, p) : i \in p}
                            \cup {Between(i, Peer \ p) : i \in Peer \ p})
         all == UNION {Between(i, Peer) : i \in Peer}
     IN  enabled' = [e \in DOMAIN enabled |-> IF e \in all THEN e \in inside ELSE enabled[e]]
  /\ UNCHANGED <<servers, listening, done, rpc, endnames, saved, disk, instance, phase>>

(* makeClient: the clerk gets an end to every server, those to the servers in to open *)
MakeClient(to) ==
  /\ AllUp
  /\ ClerkEnds(Peer) \cap DOMAIN enabled = {}
  /\ enabled' = [e \in ClerkEnds(Peer) \cup DOMAIN enabled |->
                   IF e \in ClerkEnds(Peer) THEN e.to \in to ELSE enabled[e]]
  /\ UNCHANGED <<servers, listening, done, rpc, harnessVars>>

ConnectClient(to) ==
  /\ AllUp
  /\ ClerkEnds(Peer) \subseteq DOMAIN enabled
  /\ Enable(ClerkEnds(to), TRUE)
  /\ UNCHANGED <<servers, listening, done, rpc, harnessVars>>

CleanUp == Free /\ Cleanup /\ UNCHANGED harnessVars

-----------------------------------------------------------------------------
(* has the harness cut instance x off for good *)
ShutDown(x) ==
  x[1] # Clerk /\ (x[2] < endnames[x[1]] \/ phase[x[1]] \notin {"prepared", "up"})

(* the clerk, or an instance that was started, calls a server *)
Send(r) ==
  /\ \E e \in DOMAIN enabled :
       /\ e.from[1] # Clerk => e.from[1] # e.to /\ e.from[2] \in DOMAIN instance[e.from[1]]
       /\ Call(r, e, ShutDown(e.from))
  /\ UNCHANGED harnessVars

(* the handler adds its update to the state of its instance and saves that state,
   into whatever persister the instance was given, and returns *)
Serve(r) ==
  LET i == rpc[r].end.to
      x == instance[i][rpc[r].object]
      new == x.state \cup {r}
  IN  /\ HandlerReturns(r)
      /\ instance' = [instance EXCEPT ![i][rpc[r].object].state = new]
      /\ disk' = [disk EXCEPT ![i][x.persister] = new]
      /\ UNCHANGED <<endnames, saved, phase, partitions>>

NetworkActs(r) == NetworkStep(r) /\ UNCHANGED harnessVars

NetworkStops == StopListening /\ UNCHANGED harnessVars

Next ==
  \/ \E i \in Peer :
       \/ PrepareServer(i)
       \/ StartServer(i)
       \/ ShutdownServer(i)
       \/ RemoveServer(i)
       \/ SupersedePersister(i)
  \/ ConnectAll
  \/ \E p \in SUBSET Peer : Partition(p) \/ MakeClient(p) \/ ConnectClient(p)
  \/ CleanUp
  \/ \E r \in Req : Send(r) \/ Serve(r) \/ NetworkActs(r)
  \/ NetworkStops

(* the goroutines of the network are scheduled; handlers may hang, and the test may
   do what it likes when it likes *)
Fairness == WF_vars(NetworkStops) /\ \A r \in Req : WF_vars(NetworkActs(r))

Spec == Init /\ [][Next]_vars /\ Fairness
-----------------------------------------------------------------------------
(* What the variables hold; and a request is only handed to a server that was there
   when processReq looked (readEndnameInfo, "server != nil") *)
TypeOK ==
  /\ DOMAIN enabled \subseteq End /\ \A e \in DOMAIN enabled : enabled[e] \in BOOLEAN
  /\ servers \in [Peer -> 0 .. MaxStarts]
  /\ endnames \in [Peer -> 0 .. MaxStarts]
  /\ saved \in [Peer -> 0 .. 2 * MaxStarts]
  /\ \A i \in Peer :
       /\ Len(disk[i]) = saved[i]
       /\ Len(instance[i]) \in {endnames[i], endnames[i] - 1}
  /\ \A r \in Req : rpc[r].handler # "none" =>
       rpc[r].object \in DOMAIN instance[rpc[r].end.to]

(* No positive reply to an update that is lost: once Call has returned true, the
   update is in the persister that the running instance, or the next one, works on
   (processReq's last isServerDead, and DeleteServer before the copy of the persister
   in ShutdownServer) *)
AckedIsKept ==
  \A r \in Req : At(r, "returned") /\ rpc[r].ok =>
    LET i == rpc[r].end.to IN r \in disk[i][saved[i]]

(* An instance that was shut down does not reach anyone: no request it sends from then
   on is executed, whatever is started, connected or partitioned later (fresh end
   names in StartServer, and disconnectUnlocked for the old ones) *)
NoGhosts == \A r \in Req : rpc[r].late => rpc[r].handler = "none"

(* Call returns, except while the handler does not and its server is neither deleted
   nor cut off (the loop of processReq around isServerDead; the done channel) *)
CallReturns ==
  \A r \in Req :
    []<>(\/ At(r, "idle")
         \/ At(r, "returned")
         \/ (rpc[r].handler = "running" /\ ~IsServerDead(r)))

(* No goroutine that ran a handler stays behind on ech: someone receives the reply,
   even one nobody waits for any more (the drain of processReq) *)
HandlersEnd ==
  \A r \in Req : rpc[r].handler = "returned" ~> rpc[r].handler = "received"
=============================================================================
