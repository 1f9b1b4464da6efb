--------------------------- MODULE KVRaftProofs ---------------------------
(***************************************************************************)
(* ReplicasAgree for any number of servers, clients, commands, elections,  *)
(* snapshots and restarts.                                                 *)
(***************************************************************************)
EXTENDS KVRaft, SequenceTheorems, TLAPS

IsSeq(s) == \E S : s \in Seq(S)

\* How many of the chosen commands the machine of s has.
Reached(s) == IF lastApplied[s] > snapshot[s].index THEN lastApplied[s] ELSE snapshot[s].index

Counters ==
    /\ lastApplied \in [Server -> Nat] /\ pushed \in [Server -> Nat]
    /\ DOMAIN machine = Server
    /\ DOMAIN snapshot = Server /\ \A s \in Server : snapshot[s].index \in Nat

\* The machine after each chosen command comes from the one before.
History ==
    /\ IsSeq(states) /\ IsSeq(chosen)
    /\ Len(states) = Len(chosen) + 1
    /\ \A i \in 1..Len(chosen) : states[i + 1] = Applied(states[i], chosen[i].cmd)

\* Raft has not pushed more to s than its machine has; what it has not pushed
\* and the machine has came with a snapshot that lastApplied counts.
Prefix(s) ==
    /\ pushed[s] <= Reached(s) /\ Reached(s) <= Len(chosen)
    /\ snapshot[s].index <= lastApplied[s] \/ snapshot[s].index <= pushed[s]
    /\ snapshot[s].machine = states[snapshot[s].index + 1]
    /\ machine[s] = states[Reached(s) + 1]

ReplicaInv == Counters /\ History /\ \A s \in Server : Prefix(s)

----------------------------------------------------------------------------
\* Append adds one element at the end.
LEMMA Appended ==
  ASSUME NEW s, NEW x, IsSeq(s)
  PROVE  /\ IsSeq(Append(s, x)) /\ Len(s) \in Nat /\ Len(Append(s, x)) = Len(s) + 1
         /\ \A i \in 1..Len(s) : Append(s, x)[i] = s[i]
         /\ Append(s, x)[Len(s) + 1] = x
  <1>1. PICK S : s \in Seq(S)
    BY DEF IsSeq
  <1>2. s \in Seq(S \cup {x})
    BY <1>1, SeqMonotonic
  <1>3. Append(s, x) \in Seq(S \cup {x})
    BY <1>2
  <1> QED
    BY <1>2, <1>3 DEF IsSeq

\* The service starts with empty machines and nothing chosen.
LEMMA ReplicasInitially ==
  ASSUME Init
  PROVE  ReplicaInv
  <1>1. Counters
    BY DEF Init, Counters
  <1>2. History
    <2>1. states \in Seq({NewMachine}) /\ chosen \in Seq({})
      BY DEF Init, RaftInit
    <2>2. Len(states) = 1 /\ Len(chosen) = 0
      BY DEF Init, RaftInit
    <2> QED
      BY <2>1, <2>2 DEF History, IsSeq
  <1>3. \A s \in Server : Prefix(s)
    BY DEF Init, RaftInit, Prefix, Reached
  <1> QED
    BY <1>1, <1>2, <1>3 DEF ReplicaInv

\* The steps of clerks and handlers, of elections and of replication leave the
\* machines and the chosen commands alone.
Aside == UNCHANGED <<lastApplied, machine, snapshot, pushed, chosen, states>>

LEMMA AsideStays ==
  ASSUME ReplicaInv, Aside
  PROVE  ReplicaInv'
  BY DEF ReplicaInv, Aside, Counters, History, IsSeq, Prefix, Reached

\* A server that a step does not touch is as it was.
LEMMA OthersStay ==
  ASSUME NEW r \in Server, Prefix(r), UNCHANGED <<chosen, states>>,
         lastApplied'[r] = lastApplied[r], machine'[r] = machine[r],
         snapshot'[r] = snapshot[r], pushed'[r] = pushed[r]
  PROVE  Prefix(r)'
  BY DEF Prefix, Reached

\* Discard: the command is one that the machine has.
LEMMA DiscardStays ==
  ASSUME ReplicaInv, NEW s \in Server, Discard(s)
  PROVE  ReplicaInv'
  <1>1. /\ UNCHANGED <<lastApplied, machine, snapshot, chosen, states>>
        /\ pushed' = [pushed EXCEPT ![s] = pushed[s] + 1]
        /\ pushed[s] + 1 <= lastApplied[s]
    BY DEF Discard, raftVars, Outdated, NextIndex
  <1>2. Counters /\ History /\ Prefix(s)
    BY DEF ReplicaInv
  <1>3. Counters'
    BY <1>1, <1>2 DEF Counters
  <1>4. History'
    BY <1>1, <1>2 DEF History, IsSeq
  <1>5. Prefix(s)'
    BY <1>1, <1>2 DEF Prefix, Reached, Counters
  <1>6. \A r \in Server \ {s} : Prefix(r)'
    BY <1>1, <1>2, OthersStay DEF ReplicaInv, Counters
  <1> QED
    BY <1>3, <1>4, <1>5, <1>6 DEF ReplicaInv

\* ApplyCommand: the next command is the one after those that the machine has.
LEMMA ApplyStays ==
  ASSUME ReplicaInv, NEW s \in Server, ApplyCommand(s)
  PROVE  ReplicaInv'
  <1> DEFINE i == pushed[s] + 1
             m == Applied(machine[s], chosen[i].cmd)
  <1>1. /\ UNCHANGED <<chosen, states>>
        /\ i <= Len(chosen) /\ ~(i <= lastApplied[s])
        /\ pushed' = [pushed EXCEPT ![s] = i]
        /\ lastApplied' = [lastApplied EXCEPT ![s] = i]
        /\ machine' = [machine EXCEPT ![s] = m]
        /\ snapshot' = IF i \in TooBig THEN [snapshot EXCEPT ![s] = [index |-> i, machine |-> machine'[s]]]
                                       ELSE snapshot
    BY DEF ApplyCommand, raftVars, Outdated, NextIndex, Pushable, SnapshotAt
  <1>2. Counters /\ History /\ Prefix(s)
    BY DEF ReplicaInv
  <1>3. /\ pushed[s] \in Nat /\ lastApplied[s] \in Nat /\ snapshot[s].index \in Nat
        /\ Len(chosen) \in Nat
    BY <1>2 DEF Counters, History, IsSeq
  <1>4. Reached(s) = pushed[s]
    BY <1>1, <1>2, <1>3 DEF Prefix, Reached
  <1>5. m = states[i + 1]
    <2>1. machine[s] = states[pushed[s] + 1]
      BY Zenon, <1>2, <1>4 DEF Prefix
    <2>2. i \in 1..Len(chosen)
      BY <1>1, <1>3
    <2> QED
      BY ZenonT(60), <1>2, <2>1, <2>2 DEF History
  <1>6. /\ pushed'[s] = i /\ lastApplied'[s] = i /\ machine'[s] = m
        /\ snapshot'[s] = [index |-> i, machine |-> m] \/ snapshot'[s] = snapshot[s]
    BY <1>1, <1>2 DEF Counters
  <1> HIDE DEF m
  <1>7. Counters'
    BY <1>1, <1>2, <1>3 DEF Counters
  <1>8. History'
    BY <1>1, <1>2 DEF History, IsSeq
  <1>9. Reached(s)' = i /\ snapshot'[s].index <= i /\ snapshot'[s].machine = states[snapshot'[s].index + 1]
    <2>1. CASE snapshot'[s] = [index |-> i, machine |-> m]
      BY <1>3, <1>5, <1>6, <2>1 DEF Reached
    <2>2. CASE snapshot'[s] = snapshot[s]
      <3>1. snapshot[s].index <= pushed[s]
        BY <1>3, <1>4 DEF Reached
      <3>2. snapshot'[s].machine = states[snapshot'[s].index + 1]
        BY Zenon, <1>2, <2>2 DEF Prefix
      <3>3. snapshot'[s].index <= i /\ ~(i <= snapshot'[s].index)
        BY <1>3, <2>2, <3>1
      <3> QED
        BY <1>3, <1>6, <2>2, <3>2, <3>3 DEF Reached
    <2> QED
      BY Zenon, <1>6, <2>1, <2>2
  <1>10. Prefix(s)'
    BY <1>1, <1>3, <1>5, <1>6, <1>9 DEF Prefix
  <1>11. \A r \in Server \ {s} : Prefix(r)'
    BY <1>1, <1>2, OthersStay DEF ReplicaInv, Counters
  <1> QED
    BY <1>7, <1>8, <1>10, <1>11 DEF ReplicaInv

\* InstallSnapshot: the machine of the leader's snapshot, also when the rest
\* of a batch is still to come.
LEMMA InstallStays ==
  ASSUME ReplicaInv, NEW l \in Server, NEW s \in Server, NEW passed \in BOOLEAN,
         InstallSnapshot(l, s, passed)
  PROVE  ReplicaInv'
  <1>1. /\ UNCHANGED <<chosen, states>>
        /\ snapshot[l].index > pushed[s] /\ snapshot[l].index > lastApplied[s]
        /\ snapshot[l].index <= Len(chosen)
        /\ machine' = [machine EXCEPT ![s] = snapshot[l].machine]
        /\ lastApplied' = [lastApplied EXCEPT ![s] = snapshot[l].index]
        /\ snapshot' = [snapshot EXCEPT ![s] = snapshot[l]]
        /\ pushed' = IF passed THEN pushed ELSE [pushed EXCEPT ![s] = snapshot[l].index]
    BY DEF InstallSnapshot, raftVars, Pushable
  <1>2. Counters /\ History /\ Prefix(s) /\ Prefix(l)
    BY DEF ReplicaInv
  <1>3. pushed[s] \in Nat /\ lastApplied[s] \in Nat /\ snapshot[l].index \in Nat
    BY <1>2 DEF Counters
  <1>4. /\ lastApplied'[s] = snapshot[l].index /\ machine'[s] = snapshot[l].machine
        /\ snapshot'[s] = snapshot[l] /\ pushed'[s] \in {pushed[s], snapshot[l].index}
    BY <1>1, <1>2 DEF Counters
  <1>5. Counters'
    BY <1>1, <1>2, <1>3 DEF Counters
  <1>6. History'
    BY ZenonT(60), <1>1, <1>2 DEF History, IsSeq
  <1>7. Prefix(s)'
    BY <1>1, <1>2, <1>3, <1>4 DEF Prefix, Reached
  <1>8. \A r \in Server \ {s} : Prefix(r)'
    BY ZenonT(60), <1>1, <1>2, OthersStay DEF ReplicaInv, Counters
  <1> QED
    BY <1>5, <1>6, <1>7, <1>8 DEF ReplicaInv

\* Restart: lastApplied is 0, the machine is that of the snapshot, and Raft pushes
\* from there.
LEMMA RestartStays ==
  ASSUME ReplicaInv, NEW s \in Server, Restart(s)
  PROVE  ReplicaInv'
  <1>1. /\ UNCHANGED <<chosen, states, snapshot>>
        /\ machine' = [machine EXCEPT ![s] = snapshot[s].machine]
        /\ lastApplied' = [lastApplied EXCEPT ![s] = 0]
        /\ pushed' = [pushed EXCEPT ![s] = snapshot[s].index]
    BY DEF Restart
  <1>2. Counters /\ History /\ Prefix(s)
    BY DEF ReplicaInv
  <1>3. pushed[s] \in Nat /\ lastApplied[s] \in Nat /\ snapshot[s].index \in Nat /\ Len(chosen) \in Nat
    BY <1>2 DEF Counters, History, IsSeq
  <1>4. lastApplied'[s] = 0 /\ machine'[s] = snapshot[s].machine /\ pushed'[s] = snapshot[s].index
    BY <1>1, <1>2 DEF Counters
  <1>5. Counters'
    BY <1>1, <1>2, <1>3 DEF Counters
  <1>6. History'
    BY ZenonT(60), <1>1, <1>2 DEF History, IsSeq
  <1>7. Prefix(s)'
    BY <1>1, <1>2, <1>3, <1>4 DEF Prefix, Reached
  <1>8. \A r \in Server \ {s} : Prefix(r)'
    BY <1>1, <1>2, OthersStay DEF ReplicaInv, Counters
  <1> QED
    BY <1>5, <1>6, <1>7, <1>8 DEF ReplicaInv

\* RaftChooses: one more command, after all that any server has applied.
LEMMA ChooseStays ==
  ASSUME ReplicaInv, NEW l \in Server, RaftChooses(l)
  PROVE  ReplicaInv'
  <1> DEFINE e == log[l][Len(chosen) + 1]
             m == Applied(states[Len(states)], e.cmd)
  <1>1. /\ UNCHANGED <<lastApplied, machine, snapshot, pushed>>
        /\ chosen' = Append(chosen, e) /\ states' = Append(states, m)
    BY DEF RaftChooses, Choose, serverVars
  <1>2. Counters /\ History
    BY DEF ReplicaInv
  <1> HIDE DEF e
  <1>3. /\ IsSeq(chosen') /\ Len(chosen) \in Nat /\ Len(chosen') = Len(chosen) + 1
        /\ \A i \in 1..Len(chosen) : chosen'[i] = chosen[i]
        /\ chosen'[Len(chosen) + 1] = e
    BY <1>1, <1>2, Appended DEF History
  <1>4. m = Applied(states[Len(chosen) + 1], e.cmd)
    BY <1>2 DEF History
  <1> HIDE DEF m
  <1>5. /\ IsSeq(states') /\ Len(states') = Len(states) + 1
        /\ \A i \in 1..Len(chosen) + 1 : states'[i] = states[i]
        /\ states'[Len(chosen) + 2] = m
    <2>1. /\ IsSeq(Append(states, m)) /\ Len(Append(states, m)) = Len(states) + 1
          /\ \A i \in 1..Len(states) : Append(states, m)[i] = states[i]
          /\ Append(states, m)[Len(states) + 1] = m
      BY <1>2, Appended DEF History
    <2>2. Len(states) = Len(chosen) + 1 /\ Len(states) + 1 = Len(chosen) + 2
      BY <1>2, <1>3 DEF History
    <2> QED
      BY <1>1, <2>1, <2>2
  <1>6. Counters'
    BY <1>1, <1>2 DEF Counters
  <1>7. \A i \in 1..Len(chosen') : states'[i + 1] = Applied(states'[i], chosen'[i].cmd)
    <2> SUFFICES ASSUME NEW i \in 1..Len(chosen')
                 PROVE  states'[i + 1] = Applied(states'[i], chosen'[i].cmd)
      OBVIOUS
    <2>1. CASE i = Len(chosen) + 1
      <3>1. states'[i] = states[i] /\ states'[i + 1] = m /\ chosen'[i] = e
        BY <1>3, <1>5, <2>1
      <3> QED
        BY <1>4, <2>1, <3>1
    <2>2. CASE i \in 1..Len(chosen)
      <3>1. states'[i] = states[i] /\ states'[i + 1] = states[i + 1] /\ chosen'[i] = chosen[i]
        BY <1>3, <1>5, <2>2
      <3> QED
        BY <1>2, <2>2, <3>1 DEF History
    <2> QED
      BY <1>3, <2>1, <2>2
  <1>8. History'
    BY ZenonT(60), <1>2, <1>3, <1>5, <1>7 DEF History
  <1>9. \A s \in Server : Prefix(s)'
    <2> SUFFICES ASSUME NEW s \in Server PROVE Prefix(s)'
      OBVIOUS
    <2>1. Prefix(s) /\ snapshot[s].index \in Nat /\ lastApplied[s] \in Nat /\ pushed[s] \in Nat
      BY <1>2 DEF ReplicaInv, Counters
    <2>2. /\ Reached(s)' = Reached(s) /\ Reached(s) \in Nat /\ snapshot[s].index <= Reached(s)
      BY <1>1, <2>1 DEF Reached
    <2>3. /\ states'[Reached(s) + 1] = states[Reached(s) + 1]
          /\ states'[snapshot[s].index + 1] = states[snapshot[s].index + 1]
      <3>1. Reached(s) <= Len(chosen)
        BY <2>1 DEF Prefix
      <3>2. Reached(s) + 1 \in 1..Len(chosen) + 1 /\ snapshot[s].index + 1 \in 1..Len(chosen) + 1
        BY <1>3, <2>1, <2>2, <3>1
      <3> QED
        BY <1>5, <3>2
    <2> QED
      BY <1>1, <1>3, <2>1, <2>2, <2>3 DEF Prefix
  <1> QED
    BY <1>6, <1>8, <1>9 DEF ReplicaInv

\* Every step keeps the invariant.
LEMMA ReplicasNext ==
  ASSUME ReplicaInv, [Next]_vars
  PROVE  ReplicaInv'
  <1>1. CASE UNCHANGED vars
    BY <1>1, AsideStays DEF vars, raftVars, serverVars, Aside
  <1>2. CASE ClerkStep
    <2>1. Aside
      BY ZenonT(60), <1>2 DEF ClerkStep, Call, CallFails, raftVars, serverVars, Aside
    <2> QED
      BY <2>1, AsideStays
  <1>3. CASE HandlerStep
    <2>1. Aside
      BY <1>3 DEF HandlerStep, CheckDuplicate, StartCommand, Started, WrongLeader, FetchChan,
                  Receive, TimeOut, RemoveNotifyChan, raftVars, serverVars, Aside
    <2> QED
      BY <2>1, AsideStays
  <1>4. CASE ServerStep
    BY <1>4, DiscardStays, ApplyStays, InstallStays, RestartStays DEF ServerStep
  <1>5. CASE RaftStep
    <2>1. ASSUME NEW s \in Server, NEW Q \in Quorum, RaftElects(s, Q) PROVE Aside
      BY <2>1 DEF RaftElects, Elect, serverVars, Aside
    <2>2. ASSUME NEW s \in Server, NEW f \in Server, RaftReplicates(s, f) PROVE Aside
      BY <2>2 DEF RaftReplicates, Replicate, serverVars, Aside
    <2> QED
      BY <1>5, <2>1, <2>2, AsideStays, ChooseStays DEF RaftStep
  <1> QED
    BY <1>1, <1>2, <1>3, <1>4, <1>5 DEF Next

\* The table and the duplicate table of every server are those of a prefix of
\* the chosen commands, whatever snapshots pass a batch and whatever servers
\* restart (applier, taskSnapshot, restoreSnapshot, StartKVServer).
THEOREM ReplicasAgreeAlways == Spec => []ReplicasAgree
  <1>1. Init => ReplicaInv
    BY ReplicasInitially
  <1>2. ReplicaInv /\ [Next]_vars => ReplicaInv'
    BY ReplicasNext
  <1>3. ReplicaInv => ReplicasAgree
    BY DEF ReplicaInv, Prefix, Reached, ReplicasAgree
  <1> QED
    BY <1>1, <1>2, <1>3, PTL DEF Spec
=============================================================================
