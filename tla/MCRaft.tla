------------------------------- MODULE MCRaft -------------------------------
(***************************************************************************)
(* Small instances of Raft.  With three servers the messages under way     *)
(* multiply the states, so most runs use MCNext, which takes               *)
(* some steps of Next as soon as they are possible:                        *)
(*                                                                         *)
(* - Local steps (the end of a batch, a snapshot that is not wanted any    *)
(*   more) read and write variables of one server that no step of another  *)
(*   server writes, and no property tells their two orders apart.          *)
(* - Settle sends what every leader owes (Heartbeat), and gives the        *)
(*   answers that leave the server that answers as it was.  These sets     *)
(*   only grow by it: having a message under way obliges nobody to take    *)
(*   it, so no behaviour of Next is lost but for the moment at which the   *)
(*   message came to be there.                                             *)
(* - Settle forgets messages that can change nothing any more: refused     *)
(*   votes of the same term, and messages of a term that both ends have    *)
(*   left and that is below the last one of the instance.                  *)
(***************************************************************************)
EXTENDS Raft, TLC

CONSTANTS s1, s2, s3

(* values of Contenders *)
S1Only       == <<{s1}>>
S1ThenS2     == <<{s1}, {s2}>>
S1ThenOthers == <<{s1}, Server \ {s1}>>
S1Twice      == <<{s1}, {s1}>>
AnyoneTwice  == <<Server, Server>>

(* the permutations of the servers that leave the three roles of the bounds alone *)
Symmetry ==
  {p \in Permutations(Server) :
     \A S \in {Applying, Compacting} \cup {Contenders[t] : t \in DOMAIN Contenders} :
       {p[n] : n \in S} = S}

Leading == {n \in Server : role[n] = LEADER}

NewAppends == UNION
  {AppendsDue(n, TRUE, currentTerm[n], logs[n], nextIndex[n], commitIndex[n]) : n \in Leading}
NewSnapshots == UNION
  {SnapshotsDue(n, TRUE, currentTerm[n], logs[n], nextIndex[n]) : n \in Leading}

Silent(n, m) ==
  \/ m.Term < currentTerm[n]
  \/ /\ m.Term = currentTerm[n]
     /\ role[n] # CANDIDATE
     /\ \/ ~Matches(n, m)
        \/ NewEntries(logs[n], m.Entries) = {} /\ CommitTo(n, m, logs[n]) = commitIndex[n]

(* n is in the last term there is, and m is of an earlier one *)
Over(n, m) == m.Term < currentTerm[n] /\ currentTerm[n] = Len(Contenders)

NewAnswers == {AppendAnswer(m.to, m) : m \in
  {r \in appendRequests : Awaited(r) /\ Silent(r.to, r) /\ ~Over(r.from, r)}}

(* messages that can change nothing any more *)
DeadVoteRequests == {m \in voteRequests :
  \/ m.Term < currentTerm[m.to] /\ (m.Term < currentTerm[m.from] \/ ~Awaited(m))
  \/ VoteRefused(m.to, m) /\ m.Term = Len(Contenders)}
DeadVoteReplies == {m \in voteReplies :
  \/ m.Term < currentTerm[m.from] \/ role[m.from] = FOLLOWER
  \/ role[m.from] = LEADER /\ (Applying # {} \/ m.Term < Len(Contenders))  \* surplus votes
  \/ m.rTerm = m.Term /\ ~m.granted}
DeadAppendRequests == {m \in appendRequests :
  Over(m.to, m) /\ (Over(m.from, m) \/ ~Awaited(m))}
DeadAppendReplies == {m \in appendReplies : Over(m.from, m)}
DeadSnapRequests == {m \in snapRequests : Over(m.to, m) /\ ~Awaited(m)}

Settled ==
  /\ DeadVoteRequests = {} /\ DeadVoteReplies = {} /\ DeadAppendRequests = {}
  /\ DeadAppendReplies = {} /\ DeadSnapRequests = {}
  /\ NewAppends \subseteq appendRequests
  /\ NewSnapshots \subseteq snapRequests
  /\ NewAnswers \subseteq appendReplies

Settle ==
  /\ voteRequests' = voteRequests \ DeadVoteRequests
  /\ voteReplies' = voteReplies \ DeadVoteReplies
  /\ appendRequests' = (appendRequests \cup NewAppends) \ DeadAppendRequests
  /\ appendReplies' = (appendReplies \cup NewAnswers) \ DeadAppendReplies
  /\ snapRequests' = (snapRequests \cup NewSnapshots) \ DeadSnapRequests
  /\ UNCHANGED <<serverVars, logVars, leaderVars, storage, applyVars, snapReplies,
                 faults, votes, committed>>

(* steps of one server that commute with all the others *)
Local(n) == Finish(n) \/ \E s \in pendingSnaps[n] : RejectSnapshot(n, s)
Busy == \E n \in Server :
  \/ applier[n] # Idle /\ applier[n].Entries = <<>>
  \/ \E s \in pendingSnaps[n] : s.Index <= commitIndex[n]

MCNext ==
  \/ Busy /\ \E n \in Server : Local(n)
  \/ ~Busy /\ IF Settled THEN Next ELSE Settle

(* bound: s2 gets the first command and is then cut off until s1 has compacted
   all of them; s3 follows s1 closely *)
S2Behind ==
  /\ LastIndex(logs[s2]) > 1 => FirstIndex(logs[s1]) = MaxIndex
  /\ LastIndex(logs[s1]) > 1 => applier[s2] # Idle
  /\ LastIndex(logs[s1]) > LastIndex(logs[s3]) =>
       LastIndex(logs[s1]) = LastIndex(logs[s3]) + 1

(* bound: s1 fills its log in term 1 and is cut off, and it is heard of again
   only when s2 has led, replicated its own log and compacted it *)
S1CutOff ==
  /\ \A n \in Server \ {s1} : \A k \in 2 .. Len(logs[n]) : logs[n][k].Term > 1
  /\ currentTerm[s2] > 1 => LastIndex(logs[s1]) = MaxIndex
  /\ LastIndex(logs[s3]) > 0 => LastIndex(logs[s2]) = MaxIndex
  /\ currentTerm[s1] > 1 => FirstIndex(logs[s2]) = MaxIndex

(* bound: the candidate of term 2 does not get the votes that it needs *)
OneLeader == \A l \in leaders : l.term = 1

MCSpec == Init /\ [][MCNext]_vars

(* Local steps and Settle come to an end, so that whatever is enabled for ever can
   be taken: fairness of the applier means the same as under Next *)
MCFairSpec == MCSpec /\ ApplierFairness
=============================================================================
