------------------------- MODULE KVHarnessProofs -------------------------
(***************************************************************************)
(* AckedIsKept and NoGhosts for every number of servers, calls, restarts   *)
(* and partitions.                                                         *)
(***************************************************************************)
EXTENDS KVHarness, TLAPS

RpcState ==
  [pc : {"idle", "sending", "accepted", "found", "waiting", "checking", "replying", "returned"},
   end : End \cup {NoEnd}, late : BOOLEAN, object : Nat,
   handler : {"none", "running", "returned", "received"},
   draining : BOOLEAN, replyOK : BOOLEAN, ok : BOOLEAN]

Running == [persister : Nat, state : SUBSET Req]

(* types *)
Shape ==
  /\ endnames \in [Peer -> 0 .. MaxStarts]
  /\ saved \in [Peer -> Nat]
  /\ servers \in [Peer -> Nat]
  /\ phase \in [Peer -> {"down", "prepared", "up", "disconnected", "deleted"}]
  /\ disk \in [Peer -> Seq(SUBSET Req)]
  /\ instance \in [Peer -> Seq(Running)]
  /\ DOMAIN enabled \subseteq End
  /\ rpc \in [Req -> RpcState]

(* an instance works on a persister of its own, which holds its state *)
Persisters(i) ==
  /\ Len(disk[i]) = saved[i]
  /\ \A k \in 1 .. Len(instance[i]) :
       /\ instance[i][k].persister \in 1 .. saved[i]
       /\ disk[i][instance[i][k].persister] = instance[i][k].state
       /\ \A l \in 1 .. Len(instance[i]) :
            instance[i][l].persister = instance[i][k].persister => l = k

(* what ShutdownServer and StartServer have done by each phase *)
Phases(i) ==
  /\ phase[i] \in {"down", "prepared"} =>
       \A k \in 1 .. Len(instance[i]) : instance[i][k].persister # saved[i]
  /\ phase[i] = "prepared" => saved[i] # 0
  /\ Len(instance[i]) = IF phase[i] = "prepared" THEN endnames[i] - 1 ELSE endnames[i]
  /\ phase[i] \in {"up", "disconnected", "deleted"} =>
       endnames[i] # 0 /\ instance[i][endnames[i]].persister = saved[i]
  /\ servers[i] = IF phase[i] \in {"up", "disconnected"} THEN endnames[i] ELSE 0

(* what the call r has done by each step, when c is its state *)
Progress(r, c) ==
  LET i == c.end.to IN
  /\ c.pc \in {"idle", "sending", "accepted", "found"} => c.handler = "none"
  /\ c.pc # "idle" => c.end \in DOMAIN enabled
  /\ c.pc = "found" \/ c.handler # "none" => c.object \in 1 .. Len(instance[i])
  /\ c.handler \in {"returned", "received"} => r \in instance[i][c.object].state
  /\ c.replyOK => c.handler = "received"
  /\ c.pc = "replying" \/ (c.pc = "returned" /\ c.ok) => saved[i] # 0 /\ r \in disk[i][saved[i]]

HarnessInv ==
  /\ Shape
  /\ \A i \in Peer : Persisters(i) /\ Phases(i)
  /\ \A r \in Req : Progress(r, rpc[r])

(* nothing that was written is lost from one state to the next *)
Grows(i) ==
  /\ saved[i] # 0 => saved'[i] # 0 /\ disk[i][saved[i]] \subseteq disk'[i][saved'[i]]
  /\ Len(instance[i]) <= Len(instance'[i])
  /\ \A k \in 1 .. Len(instance[i]) : instance[i][k].state \subseteq instance'[i][k].state

-----------------------------------------------------------------------------
(* Append adds one element at the end. *)
LEMMA Appended ==
  ASSUME NEW S, NEW s \in Seq(S), NEW x \in S
  PROVE  /\ Append(s, x) \in Seq(S) /\ Len(Append(s, x)) = Len(s) + 1
         /\ \A k \in 1 .. Len(s) : Append(s, x)[k] = s[k]
         /\ Append(s, x)[Len(s) + 1] = x
  OBVIOUS

(* Replacing an element of a sequence changes that element only. *)
LEMMA Replaced ==
  ASSUME NEW S, NEW s \in Seq(S), NEW x \in S, NEW n \in 1 .. Len(s)
  PROVE  /\ [s EXCEPT ![n] = x] \in Seq(S) /\ Len([s EXCEPT ![n] = x]) = Len(s)
         /\ [s EXCEPT ![n] = x][n] = x
         /\ \A k \in 1 .. Len(s) : k # n => [s EXCEPT ![n] = x][k] = s[k]
  OBVIOUS

(* Instances and persisters are counted from 1. *)
LEMMA CountedFromOne ==
  ASSUME NEW n, NEW k \in 1 .. n
  PROVE  k # 0
  OBVIOUS

(* A step that leaves a call alone keeps what it has done. *)
LEMMA OtherCallStays ==
  ASSUME HarnessInv, NEW r \in Req, rpc'[r] = rpc[r],
         DOMAIN enabled \subseteq DOMAIN enabled',
         Shape', \A i \in Peer : Grows(i)
  PROVE  Progress(r, rpc[r])'
  <1>1. Progress(r, rpc[r])
    BY ZenonT(60) DEF HarnessInv
  <1>2. CASE rpc[r].pc = "idle"
    BY ZenonT(60), <1>1, <1>2 DEF Progress
  <1>3. CASE rpc[r].pc # "idle"
    <2>1. rpc[r].end.to \in Peer
      BY ZenonT(60), <1>1, <1>3 DEF Progress, HarnessInv, Shape, End
    <2>2. Grows(rpc[r].end.to)
      BY Zenon, <2>1
    <2>3. rpc[r].end \in DOMAIN enabled'
      BY <1>1, <1>3 DEF Progress
    <2>4. ASSUME NEW j \in Peer, NEW o \in 1 .. Len(instance[j])
          PROVE  /\ o \in 1 .. Len(instance'[j])
                 /\ instance[j][o].state \subseteq instance'[j][o].state
      <3>1. instance \in [Peer -> Seq(Running)] /\ instance' \in [Peer -> Seq(Running)]
        BY Zenon DEF HarnessInv, Shape
      <3>2. Len(instance[j]) \in Nat /\ Len(instance'[j]) \in Nat
        BY <3>1
      <3>3. Len(instance[j]) <= Len(instance'[j]) /\ instance[j][o].state \subseteq instance'[j][o].state
        BY Zenon DEF Grows
      <3> QED
        BY <3>2, <3>3
    <2> DEFINE i == rpc[r].end.to
    <2>5. rpc[r].object \in 1 .. Len(instance[i]) =>
            /\ rpc[r].object \in 1 .. Len(instance'[i])
            /\ instance[i][rpc[r].object].state \subseteq instance'[i][rpc[r].object].state
      BY ZenonT(60), <2>1, <2>4
    <2>6. saved[i] # 0 /\ r \in disk[i][saved[i]] => saved'[i] # 0 /\ r \in disk'[i][saved'[i]]
      BY Zenon, <2>2 DEF Grows
    <2> QED
      BY ZenonT(60), <1>1, <1>3, <2>3, <2>5, <2>6 DEF Progress
  <1> QED
    BY <1>2, <1>3

Same(j) ==
  /\ endnames'[j] = endnames[j] /\ saved'[j] = saved[j] /\ servers'[j] = servers[j]
  /\ phase'[j] = phase[j] /\ disk'[j] = disk[j] /\ instance'[j] = instance[j]

(* A server that a step does not touch is as it was. *)
LEMMA SameStays ==
  ASSUME NEW j \in Peer, HarnessInv, Same(j)
  PROVE  Persisters(j)' /\ Phases(j)' /\ Grows(j)
  <1>1. Persisters(j) /\ Phases(j) /\ Len(instance[j]) \in Nat
    BY DEF HarnessInv, Shape
  <1>2. Persisters(j)'
    BY <1>1 DEF Persisters, Same
  <1>3. Phases(j)'
    BY <1>1 DEF Phases, Same
  <1>4. Grows(j)
    BY <1>1 DEF Grows, Same
  <1> QED
    BY <1>2, <1>3, <1>4

(* A new persister gets a number that no instance has, and the old ones stay. *)
LEMMA NewPersisterIsFresh ==
  ASSUME NEW i \in Peer, HarnessInv, NEW content \in SUBSET Req, NewPersister(i, content),
         instance'[i] = instance[i]
  PROVE  /\ saved' \in [Peer -> Nat] /\ disk' \in [Peer -> Seq(SUBSET Req)]
         /\ Persisters(i)'
         /\ saved'[i] # 0 /\ disk'[i][saved'[i]] = content
         /\ \A k \in 1 .. Len(instance[i]) : instance[i][k].persister # saved'[i]
         /\ \A j \in Peer \ {i} : saved'[j] = saved[j] /\ disk'[j] = disk[j]
  <1>1. /\ saved \in [Peer -> Nat] /\ disk \in [Peer -> Seq(SUBSET Req)]
        /\ instance \in [Peer -> Seq(Running)]
        /\ Persisters(i)
    BY DEF HarnessInv, Shape
  <1>2. /\ saved' = [saved EXCEPT ![i] = saved[i] + 1]
        /\ disk' = [disk EXCEPT ![i] = Append(disk[i], content)]
    BY DEF NewPersister
  <1>3. /\ Append(disk[i], content) \in Seq(SUBSET Req)
        /\ Len(Append(disk[i], content)) = saved[i] + 1
        /\ \A k \in 1 .. saved[i] : Append(disk[i], content)[k] = disk[i][k]
        /\ Append(disk[i], content)[saved[i] + 1] = content
    BY <1>1, Appended DEF Persisters
  <1>4. saved' \in [Peer -> Nat] /\ disk' \in [Peer -> Seq(SUBSET Req)]
    BY <1>1, <1>2, <1>3
  <1>5. saved'[i] = saved[i] + 1 /\ disk'[i] = Append(disk[i], content) /\ saved[i] \in Nat
    BY <1>1, <1>2
  <1>6. Persisters(i)'
    BY <1>1, <1>3, <1>5 DEF Persisters
  <1>7. \A k \in 1 .. Len(instance[i]) : instance[i][k].persister # saved'[i]
    BY <1>1, <1>5 DEF Persisters
  <1>8. \A j \in Peer \ {i} : saved'[j] = saved[j] /\ disk'[j] = disk[j]
    BY <1>1, <1>2
  <1> QED
    BY <1>3, <1>4, <1>5, <1>6, <1>7, <1>8

(* What a step of the harness has to show. *)
HarnessStays == Shape' /\ \A j \in Peer : Persisters(j)' /\ Phases(j)' /\ Grows(j)

(* StartServer up to the new persister: it is a copy, and no instance has it. *)
LEMMA PrepareStays ==
  ASSUME HarnessInv, NEW i \in Peer, PrepareServer(i)
  PROVE  HarnessStays /\ DOMAIN enabled \subseteq DOMAIN enabled'
  <1> DEFINE content == IF saved[i] = 0 THEN {} ELSE disk[i][saved[i]]
  <1>1. Shape /\ Persisters(i) /\ Phases(i)
    BY DEF HarnessInv
  <1>2. content \in SUBSET Req
    BY <1>1 DEF Shape, Persisters
  <1>3. NewPersister(i, content)
    BY DEF PrepareServer, Copy
  <1>4. instance' = instance /\ servers' = servers /\ rpc' = rpc
    BY DEF PrepareServer
  <1>5. /\ saved' \in [Peer -> Nat] /\ disk' \in [Peer -> Seq(SUBSET Req)]
        /\ Persisters(i)'
        /\ saved'[i] # 0 /\ disk'[i][saved'[i]] = content
        /\ \A k \in 1 .. Len(instance[i]) : instance[i][k].persister # saved'[i]
        /\ \A j \in Peer \ {i} : saved'[j] = saved[j] /\ disk'[j] = disk[j]
    <2> HIDE DEF content
    <2> QED
      BY <1>2, <1>3, <1>4, NewPersisterIsFresh
  <1>6. /\ endnames' = [endnames EXCEPT ![i] = endnames[i] + 1]
        /\ phase' = [phase EXCEPT ![i] = "prepared"]
        /\ endnames[i] < MaxStarts /\ phase[i] = "down"
    BY DEF PrepareServer
  <1>7. endnames[i] + 1 \in 0 .. MaxStarts
    BY <1>1, <1>6, HarnessAssumption DEF Shape
  <1>8. enabled' = [e \in [from : {<<i, endnames[i] + 1>>}, to : Peer] \cup DOMAIN enabled |->
                      e \notin [from : {<<i, endnames[i] + 1>>}, to : Peer] /\ enabled[e]]
    BY DEF PrepareServer, MakeEnds
  <1>9. [from : {<<i, endnames[i] + 1>>}, to : Peer] \subseteq End
    <2>1. <<i, endnames[i] + 1>> \in Instance
      BY <1>1, <1>7 DEF Instance, Shape
    <2> QED
      BY <2>1 DEF End
  <1>10. Shape'
    BY ZenonT(60), <1>1, <1>4, <1>5, <1>6, <1>7, <1>8, <1>9 DEF Shape
  <1>11. Phases(i)'
    BY <1>1, <1>4, <1>5, <1>6, <1>7 DEF Phases, Shape
  <1>12. Grows(i)
    BY <1>1, <1>4, <1>5 DEF Grows, Shape
  <1>13. \A j \in Peer \ {i} : Same(j)
    BY <1>1, <1>4, <1>5, <1>6 DEF Same, Shape
  <1> QED
    BY <1>5, <1>8, <1>10, <1>11, <1>12, <1>13, SameStays DEF HarnessStays

(* The rest of StartServer: the new instance gets the last persister. *)
LEMMA StartStays ==
  ASSUME HarnessInv, NEW i \in Peer, StartServer(i)
  PROVE  HarnessStays
  <1> DEFINE new == [persister |-> saved[i], state |-> disk[i][saved[i]]]
  <1>1. Shape /\ Persisters(i) /\ Phases(i)
    BY DEF HarnessInv
  <1>2. /\ phase[i] = "prepared" /\ phase' = [phase EXCEPT ![i] = "up"]
        /\ instance' = [instance EXCEPT ![i] = Append(instance[i], new)]
        /\ servers' = [servers EXCEPT ![i] = endnames[i]]
        /\ UNCHANGED <<enabled, rpc, endnames, saved, disk>>
    BY DEF StartServer, AddServer
  <1>3. /\ saved[i] \in 1 .. Len(disk[i]) /\ new \in Running
        /\ endnames[i] \in Nat /\ Len(instance[i]) = endnames[i] - 1
    BY <1>1, <1>2 DEF Shape, Persisters, Phases, Running
  <1>4. /\ instance'[i] = Append(instance[i], new) /\ phase'[i] = "up"
        /\ servers'[i] = endnames[i]
    BY <1>1, <1>2 DEF Shape
  <1>5. /\ instance'[i] \in Seq(Running)
        /\ Len(instance'[i]) = endnames[i]
        /\ \A k \in 1 .. endnames[i] - 1 : instance'[i][k] = instance[i][k]
        /\ instance'[i][endnames[i]] = new
    <2>1. instance[i] \in Seq(Running) /\ endnames[i] = Len(instance[i]) + 1
      BY <1>1, <1>3 DEF Shape
    <2> HIDE DEF new
    <2>2. /\ Append(instance[i], new) \in Seq(Running)
          /\ Len(Append(instance[i], new)) = Len(instance[i]) + 1
          /\ \A k \in 1 .. Len(instance[i]) : Append(instance[i], new)[k] = instance[i][k]
          /\ Append(instance[i], new)[Len(instance[i]) + 1] = new
      BY <1>3, <2>1, Appended
    <2> QED
      BY <1>3, <1>4, <2>1, <2>2
  <1>6. Shape'
    BY ZenonT(60), <1>1, <1>2, <1>3, <1>4, <1>5 DEF Shape
  <1>7. Persisters(i)'
    <2> DEFINE Own(s) == s.persister \in 1 .. saved[i] /\ disk[i][s.persister] = s.state
    <2>1. \A k \in 1 .. endnames[i] - 1 : Own(instance[i][k]) /\ instance[i][k].persister # saved[i]
      BY ZenonT(60), <1>1, <1>2, <1>3 DEF Persisters, Phases
    <2>2. \A k, l \in 1 .. endnames[i] - 1 :
            instance[i][l].persister = instance[i][k].persister => l = k
      BY ZenonT(60), <1>1, <1>3 DEF Persisters
    <2>3. new.persister = saved[i] /\ Own(new)
      BY <1>3
    <2>4. \A k \in 1 .. endnames[i] : k \in 1 .. endnames[i] - 1 \/ k = endnames[i]
      BY <1>3
    <2> HIDE DEF new, Own
    <2>5. \A k \in 1 .. endnames[i] : Own(instance'[i][k])
      BY ZenonT(60), <1>5, <2>1, <2>3, <2>4
    <2>6. \A k, l \in 1 .. endnames[i] :
            instance'[i][l].persister = instance'[i][k].persister => l = k
      BY ZenonT(60), <1>5, <2>1, <2>2, <2>3, <2>4
    <2>7. Len(disk'[i]) = saved'[i] /\ disk' = disk /\ saved' = saved
      BY ZenonT(60), <1>1, <1>2 DEF Persisters
    <2> QED
      BY ZenonT(60), <1>5, <2>5, <2>6, <2>7 DEF Persisters, Own
  <1>8. Phases(i)'
    BY <1>1, <1>2, <1>3, <1>4, <1>5 DEF Phases
  <1>9. Grows(i)
    BY <1>1, <1>2, <1>3, <1>5 DEF Grows
  <1>10. \A j \in Peer \ {i} : Same(j)
    BY <1>1, <1>2 DEF Same, Shape
  <1> QED
    BY <1>6, <1>7, <1>8, <1>9, <1>10, SameStays DEF HarnessStays

(* ShutdownServer disables ends only. *)
LEMMA ShutdownStays ==
  ASSUME HarnessInv, NEW i \in Peer, ShutdownServer(i)
  PROVE  HarnessStays /\ DOMAIN enabled' = DOMAIN enabled
  <1>1. Shape /\ Persisters(i) /\ Phases(i)
    BY DEF HarnessInv
  <1>2. /\ phase[i] = "up" /\ phase' = [phase EXCEPT ![i] = "disconnected"]
        /\ DOMAIN enabled' = DOMAIN enabled
        /\ UNCHANGED <<servers, rpc, endnames, saved, disk, instance>>
    BY DEF ShutdownServer, DisconnectUnlocked, Enable
  <1>3. Shape'
    BY ZenonT(60), <1>1, <1>2 DEF Shape
  <1>4. Persisters(i)' /\ Phases(i)' /\ Grows(i)
    <2>1. phase'[i] \in {"disconnected", "deleted"} /\ phase[i] # "prepared"
          /\ servers'[i] = IF phase'[i] = "disconnected" THEN endnames[i] ELSE 0
      BY <1>1, <1>2 DEF Shape, Phases
    <2>2. Persisters(i)'
      BY ZenonT(60), <1>1, <1>2 DEF Persisters
    <2>3. Phases(i)'
      BY <1>1, <1>2, <2>1 DEF Phases
    <2>4. Len(instance[i]) <= Len(instance[i])
      BY <1>1 DEF Shape
    <2>5. Grows(i)
      BY ZenonT(60), <1>2, <2>4 DEF Grows
    <2> QED
      BY Zenon, <2>2, <2>3, <2>5
  <1>5. \A j \in Peer \ {i} : Same(j)
    BY <1>1, <1>2 DEF Same, Shape
  <1> QED
    BY <1>2, <1>3, <1>4, <1>5, SameStays DEF HarnessStays

(* DeleteServer: no instance is the server any more. *)
LEMMA RemoveStays ==
  ASSUME HarnessInv, NEW i \in Peer, RemoveServer(i)
  PROVE  HarnessStays
  <1>1. Shape /\ Persisters(i) /\ Phases(i)
    BY DEF HarnessInv
  <1>2. /\ phase[i] = "disconnected" /\ phase' = [phase EXCEPT ![i] = "deleted"]
        /\ servers' = [servers EXCEPT ![i] = 0]
        /\ UNCHANGED <<enabled, rpc, endnames, saved, disk, instance>>
    BY DEF RemoveServer, DeleteServer
  <1>3. Shape'
    BY ZenonT(60), <1>1, <1>2 DEF Shape
  <1>4. Persisters(i)' /\ Phases(i)' /\ Grows(i)
    <2>1. phase'[i] \in {"disconnected", "deleted"} /\ phase[i] # "prepared"
          /\ servers'[i] = IF phase'[i] = "disconnected" THEN endnames[i] ELSE 0
      BY <1>1, <1>2 DEF Shape, Phases
    <2>2. Persisters(i)'
      BY ZenonT(60), <1>1, <1>2 DEF Persisters
    <2>3. Phases(i)'
      BY <1>1, <1>2, <2>1 DEF Phases
    <2>4. Len(instance[i]) <= Len(instance[i])
      BY <1>1 DEF Shape
    <2>5. Grows(i)
      BY ZenonT(60), <1>2, <2>4 DEF Grows
    <2> QED
      BY Zenon, <2>2, <2>3, <2>5
  <1>5. \A j \in Peer \ {i} : Same(j)
    BY <1>1, <1>2 DEF Same, Shape
  <1> QED
    BY <1>3, <1>4, <1>5, SameStays DEF HarnessStays

(* The copy of the persister when the server has been deleted. *)
LEMMA SupersedeStays ==
  ASSUME HarnessInv, NEW i \in Peer, SupersedePersister(i)
  PROVE  HarnessStays
  <1>1. Shape /\ Persisters(i) /\ Phases(i)
    BY DEF HarnessInv
  <1>2. /\ phase[i] = "deleted" /\ phase' = [phase EXCEPT ![i] = "down"]
        /\ NewPersister(i, disk[i][saved[i]])
        /\ UNCHANGED <<enabled, servers, rpc, endnames, instance>>
    BY ZenonT(60) DEF SupersedePersister, Copy, netVars
  <1>3. saved[i] # 0 /\ disk[i][saved[i]] \in SUBSET Req
    <2>1. endnames[i] # 0 /\ Len(instance[i]) = endnames[i] /\ instance[i][endnames[i]].persister = saved[i]
      BY <1>1, <1>2 DEF Phases
    <2>2. endnames[i] \in Nat /\ disk[i] \in Seq(SUBSET Req)
      BY HarnessAssumption, <1>1 DEF Shape
    <2>3. endnames[i] \in 1 .. Len(instance[i])
      BY <2>1, <2>2
    <2>4. saved[i] \in 1 .. saved[i] /\ Len(disk[i]) = saved[i]
      BY Zenon, <1>1, <2>1, <2>3 DEF Persisters
    <2> QED
      BY <2>2, <2>4
  <1>4. /\ saved' \in [Peer -> Nat] /\ disk' \in [Peer -> Seq(SUBSET Req)]
        /\ Persisters(i)'
        /\ saved'[i] # 0 /\ disk'[i][saved'[i]] = disk[i][saved[i]]
        /\ \A k \in 1 .. Len(instance[i]) : instance[i][k].persister # saved'[i]
        /\ \A j \in Peer \ {i} : saved'[j] = saved[j] /\ disk'[j] = disk[j]
    BY <1>2, <1>3, NewPersisterIsFresh
  <1>5. Shape'
    BY <1>1, <1>2, <1>4, ZenonT(60) DEF Shape
  <1>6. Phases(i)'
    BY <1>1, <1>2, <1>4 DEF Phases, Shape
  <1>7. Grows(i)
    BY <1>1, <1>2, <1>4 DEF Grows, Shape
  <1>8. \A j \in Peer \ {i} : Same(j)
    BY <1>1, <1>2, <1>4 DEF Same, Shape
  <1> QED
    BY <1>4, <1>5, <1>6, <1>7, <1>8, SameStays DEF HarnessStays

(* The steps that touch nothing but ends. *)
EndsOnly ==
  /\ UNCHANGED <<servers, rpc, endnames, saved, disk, instance, phase>>
  /\ DOMAIN enabled \subseteq DOMAIN enabled' /\ DOMAIN enabled' \subseteq End

(* Such a step keeps what the servers have. *)
LEMMA EndsOnlyStays ==
  ASSUME HarnessInv, EndsOnly
  PROVE  HarnessStays
  <1>1. Shape'
    BY DEF HarnessInv, Shape, EndsOnly
  <1>2. \A j \in Peer : Same(j)
    BY DEF Same, EndsOnly
  <1> QED
    BY <1>1, <1>2, SameStays DEF HarnessStays

(* ConnectAll, partition, the clients and the end of the network. *)
LEMMA ConnectingIsEndsOnly ==
  ASSUME HarnessInv,
         \/ ConnectAll
         \/ \E p \in SUBSET Peer : Partition(p) \/ MakeClient(p) \/ ConnectClient(p)
         \/ CleanUp
         \/ NetworkStops
  PROVE  EndsOnly
  <1>1. DOMAIN enabled \subseteq End
    BY DEF HarnessInv, Shape
  <1>2. CASE ConnectAll
    BY <1>1, <1>2 DEF ConnectAll, Enable, EndsOnly, harnessVars
  <1>3. ASSUME NEW p \in SUBSET Peer, Partition(p) PROVE EndsOnly
    BY <1>1, <1>3 DEF Partition, EndsOnly
  <1>4. ASSUME NEW p \in SUBSET Peer, MakeClient(p) PROVE EndsOnly
    <2>1. ClerkEnds(Peer) \subseteq End
      BY DEF ClerkEnds, End
    <2> QED
      BY <1>1, <1>4, <2>1 DEF MakeClient, EndsOnly, harnessVars
  <1>5. ASSUME NEW p \in SUBSET Peer, ConnectClient(p) PROVE EndsOnly
    BY <1>1, <1>5 DEF ConnectClient, Enable, EndsOnly, harnessVars
  <1>6. CASE CleanUp
    BY <1>1, <1>6 DEF CleanUp, Cleanup, EndsOnly, harnessVars
  <1>7. CASE NetworkStops
    BY <1>1, <1>7 DEF NetworkStops, StopListening, EndsOnly, harnessVars
  <1> QED
    BY <1>2, <1>3, <1>4, <1>5, <1>6, <1>7

-----------------------------------------------------------------------------
(* A step of one call leaves the servers and the other calls as they were. *)
LEMMA CallStays ==
  ASSUME HarnessInv, NEW r \in Req, NEW new \in RpcState, Becomes(r, new),
         UNCHANGED harnessVars, Progress(r, new)
  PROVE  HarnessInv'
  <1>1. /\ rpc' = [rpc EXCEPT ![r] = new]
        /\ UNCHANGED <<enabled, servers, endnames, saved, disk, instance, phase>>
    BY DEF Becomes, harnessVars
  <1>2. Shape'
    BY <1>1 DEF HarnessInv, Shape
  <1>3. \A i \in Peer : Persisters(i)' /\ Phases(i)'
    BY <1>1, SameStays DEF Same
  <1>4. \A q \in Req : Progress(q, rpc'[q])
    BY <1>1 DEF HarnessInv, Shape
  <1>5. \A q \in Req : Progress(q, rpc[q])'
    BY ZenonT(60), <1>1, <1>4 DEF Progress
  <1> QED
    BY <1>2, <1>3, <1>5 DEF HarnessInv

(* A new call has done nothing yet. *)
LEMMA SendStays ==
  ASSUME HarnessInv, NEW r \in Req, Send(r)
  PROVE  HarnessInv'
  <1>1. PICK e \in DOMAIN enabled : Call(r, e, ShutDown(e.from))
    BY DEF Send
  <1> DEFINE new == [rpc[r] EXCEPT !.pc = "sending", !.end = e, !.late = ShutDown(e.from)]
  <1>2. rpc[r] \in RpcState /\ Progress(r, rpc[r]) /\ e \in End /\ rpc[r].pc = "idle"
    BY <1>1 DEF HarnessInv, Shape, Call, At
  <1>3. ShutDown(e.from) \in BOOLEAN
    BY DEF ShutDown
  <1>4. new \in RpcState
    BY <1>2, <1>3, ZenonT(60) DEF RpcState
  <1>5. Progress(r, new)
    BY <1>2 DEF Progress, RpcState
  <1>6. Becomes(r, new) /\ UNCHANGED harnessVars
    BY <1>1 DEF Call, Send
  <1> QED
    BY <1>4, <1>5, <1>6, CallStays

(* The network's steps for a call, one by one. *)
LEMMA NetworkStays ==
  ASSUME HarnessInv, NEW r \in Req, NetworkActs(r)
  PROVE  HarnessInv'
  <1> DEFINE c == rpc[r]
             i == c.end.to
             failed == [c EXCEPT !.pc = "returned", !.ok = FALSE]
  <1>1. c \in RpcState /\ Progress(r, c)
    BY DEF HarnessInv, Shape
  <1>2. UNCHANGED harnessVars
    BY DEF NetworkActs
  <1>3. ASSUME Fails(r), c.pc # "idle" PROVE HarnessInv'
    <2>1. failed \in RpcState /\ Progress(r, failed)
      BY <1>1, <1>3, ZenonT(60) DEF RpcState, Progress
    <2> QED
      BY <1>2, <1>3, <2>1, CallStays DEF Fails
  <1>4. CASE Destroyed(r) \/ DropRequest(r) \/ DropReply(r)
    BY <1>3, <1>4 DEF Destroyed, DropRequest, DropReply, At
  <1>5. CASE Accept(r)
    <2> DEFINE new == [c EXCEPT !.pc = "accepted"]
    <2>1. new \in RpcState /\ Progress(r, new)
      BY <1>1, <1>5 DEF RpcState, Progress, Accept, At
    <2> QED
      BY <1>2, <1>5, <2>1, CallStays DEF Accept
  <1>6. CASE ReadEndnameInfo(r)
    <2> DEFINE new == [c EXCEPT !.object = servers[i], !.pc = "found"]
    <2>1. CASE enabled[c.end] /\ servers[i] # 0
      <3>1. c.pc = "accepted" /\ i \in Peer
        BY <1>1, <1>6 DEF ReadEndnameInfo, At, Progress, HarnessInv, Shape, End
      <3>2. Phases(i) /\ Shape
        BY <3>1 DEF HarnessInv
      <3>3. servers[i] \in Nat /\ servers[i] \in 1 .. Len(instance[i])
        <4>1. servers[i] \in Nat
          BY ZenonT(60), <3>1, <3>2 DEF Shape
        <4>2. phase[i] \in {"up", "disconnected"} /\ servers[i] = endnames[i]
          BY ZenonT(60), <2>1, <3>2 DEF Phases
        <4>3. Len(instance[i]) = endnames[i]
          BY ZenonT(60), <3>2, <4>2 DEF Phases
        <4> QED
          BY <2>1, <4>1, <4>2, <4>3
      <3>4. new \in RpcState
        BY <1>1, <3>3, ZenonT(60) DEF RpcState
      <3>5. Progress(r, new)
        BY <1>1, <3>1, <3>3 DEF RpcState, Progress
      <3> QED
        BY ZenonT(60), <1>2, <1>6, <2>1, <3>4, <3>5, CallStays DEF ReadEndnameInfo
    <2> QED
      BY <1>3, <1>6, <2>1 DEF ReadEndnameInfo, At
  <1>7. CASE Dispatch(r)
    <2> DEFINE new == [c EXCEPT !.pc = "waiting", !.handler = "running"]
    <2>1. new \in RpcState /\ Progress(r, new)
      BY <1>1, <1>7, Zenon DEF RpcState, Progress, Dispatch, At
    <2> QED
      BY <1>2, <1>7, <2>1, CallStays DEF Dispatch
  <1>8. CASE ReceiveReply(r)
    <2> DEFINE new == [c EXCEPT !.pc = "checking", !.handler = "received", !.replyOK = TRUE]
    <2>1. new \in RpcState /\ Progress(r, new)
      BY <1>1, <1>8, Zenon DEF RpcState, Progress, ReceiveReply, At
    <2> QED
      BY <1>2, <1>8, <2>1, CallStays DEF ReceiveReply
  <1>9. CASE PollDead(r)
    <2> DEFINE new == [c EXCEPT !.pc = "checking", !.draining = TRUE]
    <2>1. new \in RpcState /\ Progress(r, new)
      BY <1>1, <1>9, ZenonT(60) DEF RpcState, Progress, PollDead, At
    <2> QED
      BY <1>2, <1>9, <2>1, CallStays DEF PollDead
  <1>10. CASE Drain(r)
    <2> DEFINE new == [c EXCEPT !.handler = "received"]
    <2>1. new \in RpcState /\ Progress(r, new)
      BY <1>1, <1>10 DEF RpcState, Progress, Drain
    <2> QED
      BY <1>2, <1>10, <2>1, CallStays DEF Drain
  <1>11. CASE CheckDead(r)
    <2> DEFINE new == [c EXCEPT !.pc = "replying"]
    <2>1. CASE c.replyOK /\ ~IsServerDead(r)
      <3>1. c.pc = "checking" /\ i \in Peer
        BY <1>1, <1>11 DEF CheckDead, At, Progress, HarnessInv, Shape, End
      <3>2. Shape /\ Persisters(i) /\ Phases(i)
        BY ZenonT(60), <3>1 DEF HarnessInv
      <3>3. /\ servers[i] = c.object /\ c.object \in 1 .. Len(instance[i])
            /\ r \in instance[i][c.object].state
        BY ZenonT(60), <1>1, <2>1 DEF IsServerDead, Progress
      (* the instance that ran the handler is the one that is there *)
      <3>4. c.object = endnames[i] /\ instance[i][c.object].persister = saved[i]
        <4>1. servers[i] # 0
          BY Zenon, <3>3, CountedFromOne
        <4>2. phase[i] \in {"up", "disconnected"} /\ servers[i] = endnames[i]
          BY ZenonT(60), <3>2, <4>1 DEF Phases
        <4>3. instance[i][endnames[i]].persister = saved[i]
          BY ZenonT(60), <3>2, <4>2 DEF Phases
        <4> QED
          BY <3>3, <4>2, <4>3
      <3>5. saved[i] # 0 /\ r \in disk[i][saved[i]]
        <4>1. saved[i] \in 1 .. saved[i] /\ disk[i][saved[i]] = instance[i][c.object].state
          BY <3>2, <3>3, <3>4, ZenonT(60) DEF Persisters
        <4> QED
          BY <3>3, <4>1
      <3>6. new \in RpcState /\ Progress(r, new)
        BY <1>1, <3>1, <3>5 DEF RpcState, Progress
      <3> QED
        BY ZenonT(60), <1>2, <1>11, <2>1, <3>6, CallStays DEF CheckDead
    <2> QED
      BY <1>3, <1>11, <2>1 DEF CheckDead, At
  <1>12. CASE Reply(r)
    <2> DEFINE new == [c EXCEPT !.pc = "returned", !.ok = TRUE]
    <2>1. new \in RpcState /\ Progress(r, new)
      BY <1>1, <1>12, Zenon DEF RpcState, Progress, Reply, At
    <2> QED
      BY <1>2, <1>12, <2>1, CallStays DEF Reply
  <1> QED
    BY <1>4, <1>5, <1>6, <1>7, <1>8, <1>9, <1>10, <1>11, <1>12 DEF NetworkActs, NetworkStep

(* The handler writes to its own instance and to the persister of that one. *)
LEMMA ServeStays ==
  ASSUME HarnessInv, NEW r \in Req, Serve(r)
  PROVE  HarnessInv'
  <1> DEFINE c == rpc[r]
             written == [c EXCEPT !.handler = "returned"]
  <1>1. c \in RpcState /\ Progress(r, c) /\ Shape
    BY ZenonT(60) DEF HarnessInv, Shape
  <1>2. c.handler = "running" /\ c.pc # "idle"
    BY <1>1, Zenon DEF Serve, HandlerReturns, Progress
  <1>3. c.end.to \in Peer /\ c.object \in 1 .. Len(instance[c.end.to])
    BY <1>1, <1>2 DEF Progress, Shape, End
  <1>4. PICK i \in Peer : i = c.end.to
    BY <1>3
  <1>5. PICK o \in 1 .. Len(instance[i]) : o = c.object
    BY <1>3, <1>4
  <1> DEFINE p == instance[i][o].persister
             new == instance[i][o].state \cup {r}
             x == [instance[i][o] EXCEPT !.state = new]
  <1>6. /\ rpc' = [rpc EXCEPT ![r] = written]
        /\ instance' = [instance EXCEPT ![i] = [instance[i] EXCEPT ![o] = x]]
        /\ disk' = [disk EXCEPT ![i] = [disk[i] EXCEPT ![p] = new]]
        /\ UNCHANGED <<enabled, servers, endnames, saved, phase>>
    BY <1>4, <1>5, Zenon DEF Serve, HandlerReturns, Becomes
  <1>7. i \in Peer /\ o \in 1 .. Len(instance[i])
    OBVIOUS
  <1>8. Persisters(i) /\ Phases(i)
    BY <1>7 DEF HarnessInv
  <1>9. /\ instance[i] \in Seq(Running) /\ instance[i][o] \in Running
        /\ disk[i] \in Seq(SUBSET Req)
    BY <1>1, <1>7 DEF Shape
  <1>10. p \in 1 .. Len(disk[i]) /\ new \in SUBSET Req /\ x \in Running
        /\ x.persister = p /\ x.state = new
    BY ZenonT(60), <1>7, <1>8, <1>9 DEF Persisters, Running
  <1>11. /\ c = rpc[r] /\ p = instance[i][o].persister
        /\ instance[i][o].state \subseteq new /\ r \in new
        /\ disk[i][p] = instance[i][o].state
    BY <1>7, <1>8 DEF Persisters
  <1>12. instance'[i] = [instance[i] EXCEPT ![o] = x] /\ disk'[i] = [disk[i] EXCEPT ![p] = new]
    BY ZenonT(60), <1>1, <1>6, <1>7 DEF Shape
  <1> HIDE DEF c, p, new, x, written
  <1>13. /\ instance'[i] \in Seq(Running) /\ Len(instance'[i]) = Len(instance[i])
        /\ instance'[i][o] = x
        /\ \A k \in 1 .. Len(instance[i]) : k # o => instance'[i][k] = instance[i][k]
    <2>1. /\ [instance[i] EXCEPT ![o] = x] \in Seq(Running) /\ Len([instance[i] EXCEPT ![o] = x]) = Len(instance[i])
          /\ [instance[i] EXCEPT ![o] = x][o] = x
          /\ \A l \in 1 .. Len(instance[i]) : l # o => [instance[i] EXCEPT ![o] = x][l] = instance[i][l]
      BY <1>7, <1>9, <1>10, Replaced
    <2> QED
      BY ZenonT(60), <1>12, <2>1
  <1>14. /\ disk'[i] \in Seq(SUBSET Req) /\ Len(disk'[i]) = Len(disk[i])
        /\ disk'[i][p] = new
        /\ \A k \in 1 .. Len(disk[i]) : k # p => disk'[i][k] = disk[i][k]
    <2>1. /\ [disk[i] EXCEPT ![p] = new] \in Seq(SUBSET Req) /\ Len([disk[i] EXCEPT ![p] = new]) = Len(disk[i])
          /\ [disk[i] EXCEPT ![p] = new][p] = new
          /\ \A l \in 1 .. Len(disk[i]) : l # p => [disk[i] EXCEPT ![p] = new][l] = disk[i][l]
      BY <1>9, <1>10, Replaced
    <2> QED
      BY ZenonT(60), <1>12, <2>1
  <1>15. \A k \in 1 .. Len(instance[i]) :
            /\ instance'[i][k].persister = instance[i][k].persister
            /\ instance[i][k].state \subseteq instance'[i][k].state
            /\ disk'[i][instance[i][k].persister] = instance'[i][k].state
    <2> SUFFICES ASSUME NEW k \in 1 .. Len(instance[i])
                 PROVE  /\ instance'[i][k].persister = instance[i][k].persister
                        /\ instance[i][k].state \subseteq instance'[i][k].state
                        /\ disk'[i][instance[i][k].persister] = instance'[i][k].state
      BY ZenonT(60)
    <2>1. CASE k = o
      BY ZenonT(60), <1>10, <1>11, <1>13, <1>14, <2>1
    <2>2. CASE k # o
      <3>1. /\ instance[i][k].persister \in 1 .. Len(disk[i]) /\ instance[i][k].persister # p
            /\ disk[i][instance[i][k].persister] = instance[i][k].state
        BY ZenonT(60), <1>7, <1>8, <1>11, <2>2 DEF Persisters
      <3> QED
        BY <1>13, <1>14, <2>2, <3>1, Zenon
    <2> QED
      BY <2>1, <2>2
  <1>16. Persisters(i)'
    BY <1>6, <1>8, <1>13, <1>14, <1>15 DEF Persisters
  <1>17. Phases(i)'
    <2>1. phase[i] \in {"up", "disconnected", "deleted"} => endnames[i] \in 1 .. Len(instance[i])
      BY <1>1, <1>7, <1>8 DEF Phases, Shape
    <2> QED
      BY ZenonT(60), <1>6, <1>8, <1>13, <1>15, <2>1 DEF Phases
  <1>18. Grows(i)
    <2>1. saved[i] # 0 => disk[i][saved[i]] \subseteq disk'[i][saved[i]]
      <3>1. CASE saved[i] = p
        BY ZenonT(60), <1>11, <1>14, <3>1
      <3>2. CASE saved[i] # p /\ saved[i] # 0
        BY <1>1, <1>7, <1>8, <1>14, <3>2 DEF Persisters, Shape
      <3> QED
        BY ZenonT(60), <3>1, <3>2
    <2>2. Len(instance[i]) \in Nat
      BY <1>9
    <2>3. Len(instance[i]) <= Len(instance'[i])
      BY <1>13, <2>2
    <2> QED
      BY ZenonT(60), <1>6, <1>15, <2>1, <2>3 DEF Grows
  <1>19. \A j \in Peer \ {i} : Same(j)
    BY <1>1, <1>6, <1>7 DEF Same, Shape
  <1>20. Shape'
    <2>1. written \in RpcState
      BY <1>1 DEF RpcState, written
    <2> QED
      BY ZenonT(60), <1>1, <1>6, <1>7, <1>12, <1>13, <1>14, <2>1 DEF Shape
  <1>21. \A j \in Peer : Persisters(j)' /\ Phases(j)' /\ Grows(j)
    BY <1>16, <1>17, <1>18, <1>19, SameStays
  <1>22. Progress(r, rpc[r])'
    <2>1. /\ rpc'[r].pc = c.pc /\ rpc'[r].end = c.end /\ rpc'[r].object = c.object
          /\ rpc'[r].handler = "returned" /\ rpc'[r].replyOK = c.replyOK /\ rpc'[r].ok = c.ok
      BY ZenonT(60), <1>1, <1>6, <1>11 DEF Shape, RpcState, written
    <2>2. r \in instance'[i][o].state
      BY <1>10, <1>11, <1>13
    <2>3. saved[i] # 0 /\ r \in disk[i][saved[i]] => saved'[i] # 0 /\ r \in disk'[i][saved'[i]]
      BY <1>18 DEF Grows
    <2> QED
      BY <1>1, <1>2, <1>4, <1>5, <1>6, <1>13, <2>1, <2>2, <2>3, ZenonT(60) DEF Progress
  <1>23. \A q \in Req \ {r} : rpc'[q] = rpc[q]
    BY <1>1, <1>6 DEF Shape
  <1>24. \A q \in Req : Progress(q, rpc[q])'
    BY <1>6, <1>20, <1>21, <1>22, <1>23, OtherCallStays
  <1> QED
    BY <1>20, <1>21, <1>24 DEF HarnessInv

(* make_config establishes the invariant. *)
LEMMA HarnessInitially ==
  ASSUME Init
  PROVE  HarnessInv
  <1>1. Calm \in RpcState /\ \A r \in Req : rpc[r] = Calm
    BY DEF Init, MakeNetwork, Calm, RpcState
  <1>2. Shape
    <2>1. << >> \in Seq(Running) /\ << >> \in Seq(SUBSET Req)
      OBVIOUS
    <2>2. 0 \in 0 .. MaxStarts
      BY HarnessAssumption
    <2>3. DOMAIN enabled = {}
      BY DEF Init, MakeNetwork
    <2>4. rpc \in [Req -> RpcState]
      BY <1>1 DEF Init, MakeNetwork
    <2> QED
      BY <2>1, <2>2, <2>3, <2>4 DEF Init, Shape
  <1>3. \A i \in Peer : Persisters(i) /\ Phases(i)
    <2> SUFFICES ASSUME NEW i \in Peer PROVE Persisters(i) /\ Phases(i)
      OBVIOUS
    <2>1. /\ disk[i] = << >> /\ instance[i] = << >> /\ saved[i] = 0 /\ endnames[i] = 0
          /\ phase[i] = "down" /\ servers[i] = 0
      BY ZenonT(60) DEF Init, MakeNetwork
    <2> QED
      BY <2>1 DEF Persisters, Phases
  <1>4. \A r \in Req : Progress(r, rpc[r])
    BY <1>1 DEF Progress, Calm
  <1> QED
    BY ZenonT(60), <1>2, <1>3, <1>4 DEF HarnessInv

(* Every step of the harness, the network and the handlers keeps the invariant. *)
LEMMA HarnessNext ==
  ASSUME HarnessInv, [Next]_vars
  PROVE  HarnessInv'
  <1>1. ASSUME HarnessStays, DOMAIN enabled \subseteq DOMAIN enabled', UNCHANGED rpc
        PROVE  HarnessInv'
    BY <1>1, OtherCallStays DEF HarnessStays, HarnessInv
  <1>2. ASSUME NEW i \in Peer, PrepareServer(i) PROVE HarnessInv'
    BY <1>1, <1>2, PrepareStays, Zenon DEF PrepareServer
  <1>3. ASSUME NEW i \in Peer, StartServer(i) PROVE HarnessInv'
    BY <1>1, <1>3, StartStays, Zenon DEF StartServer
  <1>4. ASSUME NEW i \in Peer, ShutdownServer(i) PROVE HarnessInv'
    BY <1>1, <1>4, ShutdownStays, Zenon DEF ShutdownServer
  <1>5. ASSUME NEW i \in Peer, RemoveServer(i) PROVE HarnessInv'
    BY <1>1, <1>5, RemoveStays, Zenon DEF RemoveServer
  <1>6. ASSUME NEW i \in Peer, SupersedePersister(i) PROVE HarnessInv'
    BY <1>1, <1>6, SupersedeStays, Zenon DEF SupersedePersister, netVars
  <1>7. ASSUME EndsOnly PROVE HarnessInv'
    BY <1>1, <1>7, EndsOnlyStays DEF EndsOnly
  <1>8. CASE UNCHANGED vars
    <2>1. EndsOnly
      BY <1>8 DEF vars, netVars, EndsOnly, HarnessInv, Shape
    <2> QED
      BY <1>7, <2>1
  <1> QED
    BY ZenonT(60), <1>2, <1>3, <1>4, <1>5, <1>6, <1>7, <1>8, ConnectingIsEndsOnly, SendStays, ServeStays,
       NetworkStays DEF Next

(* A call that returned true has its update in the persister that the present or
   the next instance of the server works on, for any number of servers, calls and
   restarts (processReq, ShutdownServer, StartServer). *)
THEOREM AckedIsKeptAlways == Spec => []AckedIsKept
  <1>1. Init => HarnessInv
    BY HarnessInitially
  <1>2. HarnessInv /\ [Next]_vars => HarnessInv'
    BY ZenonT(60), HarnessNext
  <1>3. HarnessInv => AckedIsKept
    BY DEF HarnessInv, Progress, AckedIsKept, At
  <1> QED
    BY <1>1, <1>2, <1>3, PTL DEF Spec

-----------------------------------------------------------------------------
(* the ends of an instance that was shut down are disabled, and what it sent has got
   no further than the look at its end *)
CutOff ==
  /\ \A e \in DOMAIN enabled : e.from[1] # Clerk => e.from[2] <= endnames[e.from[1]]
  /\ \A e \in DOMAIN enabled : ShutDown(e.from) => ~enabled[e]
  /\ \A r \in Req : rpc[r].late =>
       /\ rpc[r].pc \in {"sending", "accepted", "returned"} /\ rpc[r].handler = "none"
       /\ ShutDown(rpc[r].end.from)

(* An end that is not the clerk's is that of an instance of a server. *)
LEMMA EndIsPair ==
  ASSUME NEW e \in End
  PROVE  /\ e.to \in Peer /\ e = [from |-> e.from, to |-> e.to]
         /\ e.from[1] # Clerk =>
              e.from[1] \in Peer /\ e.from[2] \in Nat /\ e.from = <<e.from[1], e.from[2]>>
  <1>1. /\ e.to \in Peer /\ e = [from |-> e.from, to |-> e.to]
        /\ e.from \in Instance \cup {<<Clerk, 1>>}
    BY DEF End
  <1>2. ASSUME NEW f \in Instance
        PROVE  f[1] \in Peer /\ f[2] \in Nat /\ f = <<f[1], f[2]>>
    BY HarnessAssumption DEF Instance
  <1>3. <<Clerk, 1>>[1] = Clerk
    BY Zenon
  <1> QED
    BY Zenon, <1>1, <1>2, <1>3

(* Being shut down is for ever, so the third part of CutOff outlasts a step that
   leaves the calls alone. *)
LEMMA LateStays ==
  ASSUME HarnessInv, CutOff, UNCHANGED rpc,
         \A e \in DOMAIN enabled : ShutDown(e.from) => ShutDown(e.from)'
  PROVE  \A r \in Req : rpc'[r].late =>
           /\ rpc'[r].pc \in {"sending", "accepted", "returned"} /\ rpc'[r].handler = "none"
           /\ ShutDown(rpc[r].end.from)'
  <1> SUFFICES ASSUME NEW r \in Req, rpc[r].late
               PROVE  /\ rpc[r].pc \in {"sending", "accepted", "returned"} /\ rpc[r].handler = "none"
                      /\ ShutDown(rpc[r].end.from)'
    BY ZenonT(60)
  <1>1. /\ rpc[r].pc \in {"sending", "accepted", "returned"} /\ rpc[r].handler = "none"
        /\ ShutDown(rpc[r].end.from)
    BY ZenonT(60) DEF CutOff
  <1>2. rpc[r].end \in DOMAIN enabled
    BY ZenonT(60), <1>1 DEF HarnessInv, Progress
  <1>3. PICK e \in DOMAIN enabled : e = rpc[r].end
    BY <1>2
  <1>4. ShutDown(e.from)'
    BY <1>1, <1>3
  <1>5. e = rpc'[r].end
    BY ZenonT(60), <1>3
  <1> QED
    BY <1>1, <1>4, <1>5 DEF ShutDown

(* StartServer: the new ends are disabled, and the old ones were. *)
LEMMA PrepareCuts ==
  ASSUME HarnessInv, CutOff, NEW i \in Peer, PrepareServer(i)
  PROVE  CutOff'
  <1> DEFINE fresh == [from : {<<i, endnames[i] + 1>>}, to : Peer]
  <1>1. /\ phase[i] = "down" /\ phase' = [phase EXCEPT ![i] = "prepared"]
        /\ endnames' = [endnames EXCEPT ![i] = endnames[i] + 1] /\ UNCHANGED rpc
        /\ enabled' = [e \in fresh \cup DOMAIN enabled |-> e \notin fresh /\ enabled[e]]
    BY DEF PrepareServer, MakeEnds
  <1>2. /\ endnames \in [Peer -> 0 .. MaxStarts] /\ DOMAIN enabled \subseteq End
        /\ phase \in [Peer -> {"down", "prepared", "up", "disconnected", "deleted"}]
    BY DEF HarnessInv, Shape
  <1>3. \A j \in Peer : endnames[j] \in Nat /\ endnames'[j] \in Nat
                       /\ endnames'[j] = IF j = i THEN endnames[j] + 1 ELSE endnames[j]
    BY <1>1, <1>2, HarnessAssumption
  <1>4. ASSUME NEW e \in DOMAIN enabled
        PROVE  /\ e.from[1] # Clerk => e.from[2] <= endnames'[e.from[1]]
               /\ ShutDown(e.from) => ShutDown(e.from)'
               /\ ShutDown(e.from)' => ~enabled[e]
    <2>1. e.from[1] # Clerk =>
            e.from[1] \in Peer /\ e.from[2] \in Nat /\ e.from[2] <= endnames[e.from[1]]
      BY <1>2, EndIsPair DEF CutOff
    <2>2. ShutDown(e.from) => ~enabled[e]
      BY ZenonT(60) DEF CutOff
    <2>3. CASE e.from[1] = Clerk
      BY ZenonT(60), <2>3 DEF ShutDown
    <2>4. CASE e.from[1] # Clerk /\ e.from[1] = i
      BY <1>1, <1>3, <2>1, <2>2, <2>4 DEF ShutDown
    <2>5. CASE e.from[1] # Clerk /\ e.from[1] # i
      BY <1>1, <1>2, <1>3, <2>1, <2>2, <2>5 DEF ShutDown
    <2> QED
      BY <2>3, <2>4, <2>5
  <1>5. ASSUME NEW e \in fresh
        PROVE  ~enabled'[e] /\ (e.from[1] # Clerk => e.from[2] <= endnames'[e.from[1]])
    <2>1. ~enabled'[e]
      BY <1>1, <1>5, Zenon
    <2>2. e.from = <<i, endnames[i] + 1>>
      BY <1>5
    <2>3. e.from[1] = i /\ e.from[2] = endnames[i] + 1
      BY <2>2
    <2> QED
      BY <1>3, <2>1, <2>3
  <1>6. \A e \in DOMAIN enabled' : e.from[1] # Clerk => e.from[2] <= endnames'[e.from[1]]
    BY <1>1, <1>4, <1>5, Zenon
  <1>7. \A e \in DOMAIN enabled' : ShutDown(e.from)' => ~enabled'[e]
    BY <1>1, <1>4, <1>5, ZenonT(60)
  <1>8. \A r \in Req : rpc'[r].late =>
           /\ rpc'[r].pc \in {"sending", "accepted", "returned"} /\ rpc'[r].handler = "none"
           /\ ShutDown(rpc[r].end.from)'
    BY ZenonT(60), <1>1, <1>4, LateStays
  <1> QED
    BY ZenonT(60), <1>6, <1>7, <1>8 DEF CutOff

(* disconnectUnlocked disables all ends of the instance. *)
LEMMA ShutdownCuts ==
  ASSUME HarnessInv, CutOff, NEW i \in Peer, ShutdownServer(i)
  PROVE  CutOff'
  <1>1. /\ phase' = [phase EXCEPT ![i] = "disconnected"] /\ UNCHANGED <<endnames, rpc>>
        /\ enabled' = [e \in DOMAIN enabled |-> IF e \in Between(i, Peer) THEN FALSE ELSE enabled[e]]
    BY DEF ShutdownServer, DisconnectUnlocked, Enable
  <1>2. /\ endnames \in [Peer -> 0 .. MaxStarts] /\ DOMAIN enabled \subseteq End
        /\ phase \in [Peer -> {"down", "prepared", "up", "disconnected", "deleted"}]
    BY DEF HarnessInv, Shape
  <1>3. ASSUME NEW e \in DOMAIN enabled
        PROVE  /\ ShutDown(e.from) => ShutDown(e.from)'
               /\ ShutDown(e.from)' => ~enabled'[e]
    <2>1. /\ e.to \in Peer /\ e = [from |-> e.from, to |-> e.to]
          /\ e.from[1] # Clerk =>
               /\ e.from[1] \in Peer /\ e.from[2] \in Nat /\ e.from[2] <= endnames[e.from[1]]
               /\ e.from = <<e.from[1], e.from[2]>>
      BY ZenonT(60), <1>2, EndIsPair DEF CutOff
    <2>2. ShutDown(e.from) => ~enabled[e]
      BY DEF CutOff
    <2>3. CASE e.from[1] = Clerk
      BY ZenonT(60), <2>3 DEF ShutDown
    <2>4. CASE e.from[1] # Clerk /\ e.from[1] = i
      <3>1. CASE e.from[2] = endnames[i]
        <4>1. e.from = <<i, endnames[i]>>
          BY <2>1, <2>4, <3>1
        <4>2. e \in Between(i, Peer)
          BY <2>1, <4>1 DEF Between
        <4> QED
          BY <1>1, <1>2, <2>4, <4>2 DEF ShutDown
      <3>2. CASE e.from[2] < endnames[i]
        BY ZenonT(60), <1>1, <2>2, <2>4, <3>2 DEF ShutDown
      <3> QED
        BY <1>2, <2>1, <2>4, <3>1, <3>2, HarnessAssumption
    <2>5. CASE e.from[1] # Clerk /\ e.from[1] # i
      BY ZenonT(60), <1>1, <1>2, <2>1, <2>2, <2>5 DEF ShutDown
    <2> QED
      BY <2>3, <2>4, <2>5
  <1>4. \A e \in DOMAIN enabled' : e.from[1] # Clerk => e.from[2] <= endnames'[e.from[1]]
    BY ZenonT(60), <1>1 DEF CutOff
  <1>5. \A r \in Req : rpc'[r].late =>
           /\ rpc'[r].pc \in {"sending", "accepted", "returned"} /\ rpc'[r].handler = "none"
           /\ ShutDown(rpc[r].end.from)'
    BY ZenonT(60), <1>1, <1>3, LateStays
  <1> QED
    BY <1>1, <1>3, <1>4, <1>5 DEF CutOff

(* The other steps of the harness leave alone who is shut down, and enable no end of
   those who are. *)
LEMMA OthersCut ==
  ASSUME HarnessInv, CutOff, UNCHANGED <<endnames, rpc>>,
         \A i \in Peer : phase'[i] \in {"prepared", "up"} <=> phase[i] \in {"prepared", "up"},
         \A e \in DOMAIN enabled' :
           IF e \in DOMAIN enabled THEN enabled'[e] => enabled[e] \/ ~ShutDown(e.from)
                                   ELSE e.from[1] = Clerk
  PROVE  CutOff'
  <1>1. DOMAIN enabled \subseteq End
    BY ZenonT(60) DEF HarnessInv, Shape
  <1>2. ASSUME NEW e \in DOMAIN enabled
        PROVE  ShutDown(e.from)' <=> ShutDown(e.from)
    <2>1. e.from[1] # Clerk => e.from[1] \in Peer
      BY <1>1, EndIsPair
    <2> QED
      BY <2>1 DEF ShutDown
  <1>3. \A e \in DOMAIN enabled' : e.from[1] # Clerk => e.from[2] <= endnames'[e.from[1]]
    BY DEF CutOff
  <1>4. ASSUME NEW e \in DOMAIN enabled', ShutDown(e.from)'
        PROVE  ~enabled'[e]
    <2>1. e.from[1] # Clerk
      BY <1>4 DEF ShutDown
    <2>2. e \in DOMAIN enabled
      BY ZenonT(60), <2>1
    <2>3. ShutDown(e.from)
      BY <1>2, <1>4, <2>2
    <2> QED
      BY <2>2, <2>3 DEF CutOff
  <1>5. \A r \in Req : rpc'[r].late =>
           /\ rpc'[r].pc \in {"sending", "accepted", "returned"} /\ rpc'[r].handler = "none"
           /\ ShutDown(rpc[r].end.from)'
    BY <1>2, LateStays
  <1> QED
    BY ZenonT(60), <1>3, <1>4, <1>5 DEF CutOff

(* While all servers are up, the current ends are those of nobody shut down. *)
LEMMA CurrentEnds ==
  ASSUME HarnessInv, AllUp, NEW i \in Peer, NEW others \in SUBSET Peer, NEW e \in Between(i, others)
  PROVE  ~ShutDown(e.from)
  <1>1. PICK j \in Peer : e.from = <<j, endnames[j]>>
    BY DEF Between
  <1>2. e.from[1] = j /\ e.from[2] = endnames[j]
    BY <1>1
  <1>3. phase[j] = "up" /\ endnames[j] \in Nat
    BY HarnessAssumption DEF AllUp, HarnessInv, Shape
  <1> QED
    BY <1>2, <1>3 DEF ShutDown

(* The rest of the harness. *)
LEMMA HarnessCuts ==
  ASSUME HarnessInv, CutOff,
         \/ \E i \in Peer : StartServer(i) \/ RemoveServer(i) \/ SupersedePersister(i)
         \/ ConnectAll
         \/ \E p \in SUBSET Peer : Partition(p) \/ MakeClient(p) \/ ConnectClient(p)
         \/ CleanUp
         \/ NetworkStops
  PROVE  CutOff'
  <1>1. phase \in [Peer -> {"down", "prepared", "up", "disconnected", "deleted"}]
    BY ZenonT(60) DEF HarnessInv, Shape
  <1>2. ASSUME NEW i \in Peer, StartServer(i) PROVE CutOff'
    BY ZenonT(60), <1>1, <1>2, OthersCut DEF StartServer
  <1>3. ASSUME NEW i \in Peer, RemoveServer(i) PROVE CutOff'
    BY ZenonT(60), <1>1, <1>3, OthersCut DEF RemoveServer
  <1>4. ASSUME NEW i \in Peer, SupersedePersister(i) PROVE CutOff'
    BY ZenonT(60), <1>1, <1>4, OthersCut DEF SupersedePersister, netVars
  <1>5. CASE ConnectAll
    <2> DEFINE all == UNION {Between(i, Peer) : i \in Peer}
    <2>1. /\ enabled' = [e \in DOMAIN enabled |-> IF e \in all THEN TRUE ELSE enabled[e]]
          /\ UNCHANGED <<endnames, rpc, phase>> /\ AllUp
      BY ZenonT(60), <1>5 DEF ConnectAll, Enable, harnessVars
    <2>2. \A e \in all : ~ShutDown(e.from)
      BY ZenonT(60), <2>1, CurrentEnds
    <2> HIDE DEF all
    <2> QED
      BY <2>1, <2>2, OthersCut
  <1>6. ASSUME NEW p \in SUBSET Peer, Partition(p) PROVE CutOff'
    <2> DEFINE inside == UNION ({Between(i, p) : i \in p}
                                  \cup {Between(i, Peer \ p) : i \in Peer \ p})
               all == UNION {Between(i, Peer) : i \in Peer}
    <2>1. /\ enabled' = [e \in DOMAIN enabled |-> IF e \in all THEN e \in inside ELSE enabled[e]]
          /\ UNCHANGED <<endnames, rpc, phase>> /\ AllUp
      BY ZenonT(60), <1>6 DEF Partition
    <2>2. \A e \in all : ~ShutDown(e.from)
      BY ZenonT(60), <2>1, CurrentEnds
    <2> HIDE DEF all, inside
    <2> QED
      BY ZenonT(60), <2>1, <2>2, OthersCut
  <1>7. \A e \in ClerkEnds(Peer) : e.from[1] = Clerk
    <2>1. \A e \in ClerkEnds(Peer) : e.from = <<Clerk, 1>>
      BY ZenonT(60) DEF ClerkEnds
    <2> QED
      BY <2>1
  <1>8. ASSUME NEW p \in SUBSET Peer, MakeClient(p) PROVE CutOff'
    <2>1. /\ enabled' = [e \in ClerkEnds(Peer) \cup DOMAIN enabled |->
                           IF e \in ClerkEnds(Peer) THEN e.to \in p ELSE enabled[e]]
          /\ UNCHANGED <<endnames, rpc, phase>>
      BY ZenonT(60), <1>8 DEF MakeClient, harnessVars
    <2>2. \A e \in ClerkEnds(Peer) : ~ShutDown(e.from)
      BY ZenonT(60), <1>7 DEF ShutDown
    <2> QED
      BY ZenonT(60), <1>7, <2>1, <2>2, OthersCut
  <1>9. ASSUME NEW p \in SUBSET Peer, ConnectClient(p) PROVE CutOff'
    <2>1. /\ enabled' = [e \in DOMAIN enabled |-> IF e \in ClerkEnds(p) THEN TRUE ELSE enabled[e]]
          /\ UNCHANGED <<endnames, rpc, phase>>
      BY ZenonT(60), <1>9 DEF ConnectClient, Enable, harnessVars
    <2>2. \A e \in ClerkEnds(p) : ~ShutDown(e.from)
      <3>1. ClerkEnds(p) \subseteq ClerkEnds(Peer)
        BY ZenonT(60) DEF ClerkEnds
      <3> QED
        BY <1>7, <3>1 DEF ShutDown
    <2> QED
      BY <2>1, <2>2, OthersCut
  <1>10. CASE CleanUp
    BY ZenonT(60), <1>10, OthersCut DEF CleanUp, Cleanup, harnessVars
  <1>11. CASE NetworkStops
    BY ZenonT(60), <1>11, OthersCut DEF NetworkStops, StopListening, harnessVars
  <1> QED
    BY <1>2, <1>3, <1>4, <1>5, <1>6, <1>8, <1>9, <1>10, <1>11

(* A step of one call. *)
LEMMA CallCuts ==
  ASSUME HarnessInv, CutOff, NEW r \in Req, NEW new, Becomes(r, new), UNCHANGED <<endnames, phase>>,
         new.late => /\ new.pc \in {"sending", "accepted", "returned"} /\ new.handler = "none"
                     /\ ShutDown(new.end.from)
  PROVE  CutOff'
  <1>1. /\ rpc' = [rpc EXCEPT ![r] = new] /\ UNCHANGED <<enabled, endnames, phase>>
        /\ DOMAIN rpc = Req
    BY ZenonT(60) DEF Becomes, HarnessInv, Shape
  <1>2. \A q \in Req : rpc'[q].late =>
          /\ rpc'[q].pc \in {"sending", "accepted", "returned"} /\ rpc'[q].handler = "none"
          /\ ShutDown(rpc'[q].end.from)
    BY <1>1 DEF CutOff
  <1> QED
    BY <1>1, <1>2 DEF CutOff, ShutDown

(* A late request is stopped by readEndnameInfo and never gets to a handler. *)
LEMMA CallsCut ==
  ASSUME HarnessInv, CutOff, NEW r \in Req, Send(r) \/ Serve(r) \/ NetworkActs(r)
  PROVE  CutOff'
  <1> DEFINE c == rpc[r]
  <1>1. /\ c \in RpcState /\ Progress(r, c)
        /\ c.late => /\ c.pc \in {"sending", "accepted", "returned"} /\ c.handler = "none"
                     /\ ShutDown(c.end.from)
    BY DEF HarnessInv, Shape, CutOff
  <1>2. UNCHANGED <<endnames, phase>>
    BY ZenonT(60) DEF Send, Serve, NetworkActs, harnessVars
  <1>3. CASE Send(r)
    <2>1. PICK e \in DOMAIN enabled : Call(r, e, ShutDown(e.from))
      BY <1>3 DEF Send
    <2> DEFINE new == [c EXCEPT !.pc = "sending", !.end = e, !.late = ShutDown(e.from)]
    <2>2. c.pc = "idle" /\ Becomes(r, new)
      BY ZenonT(60), <2>1 DEF Call, At
    <2>3. /\ new.pc = "sending" /\ new.end = e /\ new.late = ShutDown(e.from)
          /\ new.handler = "none"
      BY ZenonT(60), <1>1, <2>2 DEF RpcState, Progress
    <2> HIDE DEF new
    <2> QED
      BY ZenonT(60), <1>2, <2>2, <2>3, CallCuts
  <1>4. CASE Serve(r)
    <2> DEFINE new == [c EXCEPT !.handler = "returned"]
    <2>1. c.handler = "running" /\ Becomes(r, new)
      BY <1>4, Zenon DEF Serve, HandlerReturns
    <2>2. new.late = c.late
      BY ZenonT(60), <1>1 DEF RpcState
    <2> HIDE DEF new
    <2> QED
      BY <1>1, <1>2, <2>1, <2>2, CallCuts
  <1>5. ASSUME Fails(r), c.pc # "idle" PROVE CutOff'
    <2> DEFINE new == [c EXCEPT !.pc = "returned", !.ok = FALSE]
    <2>1. new.late = c.late /\ new.pc = "returned" /\ new.handler = c.handler /\ new.end = c.end
      BY <1>1 DEF RpcState
    <2>2. Becomes(r, new)
      BY <1>5 DEF Fails
    <2> HIDE DEF new
    <2> QED
      BY <1>1, <1>2, <2>1, <2>2, CallCuts
  <1>6. CASE Destroyed(r) \/ DropRequest(r) \/ DropReply(r)
    BY ZenonT(60), <1>5, <1>6 DEF Destroyed, DropRequest, DropReply, At
  <1>7. CASE Accept(r)
    <2> DEFINE new == [c EXCEPT !.pc = "accepted"]
    <2>1. new.late = c.late /\ new.pc = "accepted" /\ new.handler = c.handler /\ new.end = c.end
      BY <1>1 DEF RpcState
    <2>2. Becomes(r, new)
      BY <1>7 DEF Accept
    <2> HIDE DEF new
    <2> QED
      BY <1>1, <1>2, <2>1, <2>2, CallCuts
  (* the end is disabled, so a late request fails here *)
  <1>8. CASE ReadEndnameInfo(r)
    <2> DEFINE new == [c EXCEPT !.object = servers[c.end.to], !.pc = "found"]
    <2>1. CASE enabled[c.end] /\ servers[c.end.to] # 0
      <3>1. c.pc = "accepted" /\ c.end \in DOMAIN enabled
        BY ZenonT(60), <1>1, <1>8 DEF ReadEndnameInfo, At, Progress
      <3>2. ~c.late
        BY <1>1, <2>1, <3>1 DEF CutOff
      <3>3. new.late = c.late
        BY <1>1 DEF RpcState
      <3>4. Becomes(r, new)
        BY ZenonT(60), <1>8, <2>1 DEF ReadEndnameInfo
      <3> HIDE DEF new
      <3> QED
        BY ZenonT(60), <1>2, <3>2, <3>3, <3>4, CallCuts
    <2> QED
      BY ZenonT(60), <1>5, <1>8, <2>1 DEF ReadEndnameInfo, At
  (* no later step is open to a late request *)
  <1>9. ASSUME NEW new, Becomes(r, new), new.late = c.late,
               c.pc \in {"found", "waiting", "checking", "replying"} \/ c.handler # "none"
        PROVE  CutOff'
    BY <1>1, <1>2, <1>9, CallCuts
  <1>10. CASE Dispatch(r)
    <2>1. [c EXCEPT !.pc = "waiting", !.handler = "running"].late = c.late
      BY <1>1 DEF RpcState
    <2> QED
      BY <1>9, <1>10, <2>1, Zenon DEF Dispatch, At
  <1>11. CASE ReceiveReply(r)
    <2>1. [c EXCEPT !.pc = "checking", !.handler = "received", !.replyOK = TRUE].late = c.late
      BY <1>1 DEF RpcState
    <2> QED
      BY <1>9, <1>11, <2>1, Zenon DEF ReceiveReply, At
  <1>12. CASE PollDead(r)
    <2>1. [c EXCEPT !.pc = "checking", !.draining = TRUE].late = c.late
      BY <1>1 DEF RpcState
    <2> QED
      BY <1>9, <1>12, <2>1, Zenon DEF PollDead, At
  <1>13. CASE Drain(r)
    <2>1. [c EXCEPT !.handler = "received"].late = c.late
      BY <1>1 DEF RpcState
    <2> QED
      BY <1>9, <1>13, <2>1, Zenon DEF Drain
  <1>14. CASE CheckDead(r)
    <2>1. [c EXCEPT !.pc = "replying"].late = c.late
      BY <1>1 DEF RpcState
    <2> QED
      BY <1>5, <1>9, <1>14, <2>1, Zenon DEF CheckDead, At
  <1>15. CASE Reply(r)
    <2>1. [c EXCEPT !.pc = "returned", !.ok = TRUE].late = c.late
      BY <1>1 DEF RpcState
    <2> QED
      BY <1>9, <1>15, <2>1, Zenon DEF Reply, At
  <1> QED
    BY ZenonT(60), <1>3, <1>4, <1>6, <1>7, <1>8, <1>10, <1>11, <1>12, <1>13, <1>14, <1>15
    DEF NetworkActs, NetworkStep

(* No request that an instance sends after it was shut down is executed, however many
   restarts, partitions and calls there are (disconnectUnlocked, StartServer,
   processReq). *)
THEOREM NoGhostsAlways == Spec => []NoGhosts
  <1>1. Init => HarnessInv /\ CutOff
    <2> SUFFICES ASSUME Init PROVE HarnessInv /\ CutOff
      OBVIOUS
    <2>1. DOMAIN enabled = {} /\ \A r \in Req : ~rpc[r].late
      BY DEF Init, MakeNetwork, Calm
    <2> QED
      BY <2>1, HarnessInitially DEF CutOff
  <1>2. HarnessInv /\ CutOff /\ [Next]_vars => (HarnessInv /\ CutOff)'
    <2> SUFFICES ASSUME HarnessInv, CutOff, [Next]_vars PROVE CutOff'
      BY ZenonT(60), HarnessNext
    <2>1. CASE UNCHANGED vars
      BY ZenonT(60), <2>1 DEF vars, netVars, CutOff, ShutDown
    <2> QED
      BY <2>1, PrepareCuts, ShutdownCuts, HarnessCuts, CallsCut DEF Next
  <1>3. CutOff => NoGhosts
    BY DEF CutOff, NoGhosts
  <1> QED
    BY <1>1, <1>2, <1>3, PTL DEF Spec
=============================================================================
