--------------------------- MODULE RaftVoteProofs ---------------------------
(***************************************************************************)
(* The inductive invariant behind ElectionSafety, and the steps in which   *)
(* votes are asked for and given.                                          *)
(***************************************************************************)
EXTENDS RaftTypeProofs

-----------------------------------------------------------------------------
(* The inductive invariant behind ElectionSafety *)

(* the vote of a server in its current term is the one in votedFor *)
BallotsCurrent ==
  \A b \in ballots :
    /\ b.term <= currentTerm[b.voter]
    /\ b.term = currentTerm[b.voter] => votedFor[b.voter] = b.candidate

(* a server votes once in a term *)
BallotsUnique ==
  \A a, b \in ballots :
    a.voter = b.voter /\ a.term = b.term => a.candidate = b.candidate

(* requests and replies belong to an election of the server that waits for them *)
RequestsKnown ==
  \A m \in voteRequests :
    /\ m.epoch <= epoch[m.from]
    /\ Awaited(m) => /\ m.election \in DOMAIN elections[m.from]
                     /\ elections[m.from][m.election].Term = m.Term

RepliesKnown ==
  \A m \in voteReplies :
    /\ m.from # m.to
    /\ m.election \in DOMAIN elections[m.from]
    /\ elections[m.from][m.election].Term = m.Term
    /\ m.granted /\ m.rTerm = m.Term => Ballot(m.to, m.Term, m.from) \in ballots

(* what a candidate has counted are votes of its peers *)
ElectionsBacked ==
  \A n \in Server : \A e \in DOMAIN elections[n] :
    /\ elections[n][e].Term <= currentTerm[n]
    /\ \A p \in elections[n][e].Granted \ {n} : Ballot(p, elections[n][e].Term, n) \in ballots

(* a candidate or leader stands by its own vote *)
OwnVote ==
  \A n \in Server :
    role[n] \in {CANDIDATE, LEADER} => Ballot(n, currentTerm[n], n) \in ballots

LeadersBacked ==
  \A l \in leaders : \E Q \in SUBSET Server :
    Majority(Q) /\ \A v \in Q : Ballot(v, l.term, l.server) \in ballots

(* who has won the current term leads it still, or has been restarted since and
   waits for no more votes of that term *)
LeadersLead ==
  \A l \in leaders :
    /\ l.term <= currentTerm[l.server]
    /\ l.term = currentTerm[l.server] =>
         \/ role[l.server] = LEADER
         \/ \A e \in DOMAIN elections[l.server] :
              elections[l.server][e].Term < currentTerm[l.server]

VoteInv ==
  /\ BallotsCurrent /\ BallotsUnique
  /\ RequestsKnown /\ RepliesKnown
  /\ ElectionsBacked /\ OwnVote
  /\ LeadersBacked /\ LeadersLead

-----------------------------------------------------------------------------
(* Elections *)

(* The closure of an election *)
LEMMA ElectionType ==
  ASSUME VoteTypeOK, NEW p \in Server, NEW e \in DOMAIN elections[p]
  PROVE  elections[p][e].Term \in Nat /\ elections[p][e].Granted \subseteq Server
<1>1. elections[p] \in Seq(ElectionRecord)
  BY DEF VoteTypeOK
<1>2. elections[p][e] \in ElectionRecord
  BY <1>1
<1>3. QED
  BY <1>2 DEF ElectionRecord

(* A later term: the votes known belong to the past *)
LEMMA LaterTermStep ==
  ASSUME VoteTypeOK, VoteInv, NEW n \in Server, LaterTerm(n)
  PROVE  VoteInv'
<1>1. PICK t \in Nat : t > currentTerm[n] /\ SetNewTerm(n, t)
  BY DEF LaterTerm
<1>2. /\ currentTerm' = [currentTerm EXCEPT ![n] = t]
      /\ role' = [role EXCEPT ![n] = FOLLOWER]
      /\ votedFor' = [votedFor EXCEPT ![n] = None]
      /\ UNCHANGED <<elections, epoch, voteRequests, voteReplies, ballots, leaders>>
  BY Zenon, <1>1 DEF LaterTerm, SetNewTerm, voteNet, votes
<1>3. BallotsCurrent'
  BY <1>1, <1>2 DEF VoteTypeOK, VoteInv, BallotsCurrent, BallotRecord
<1>4. BallotsUnique' /\ RequestsKnown' /\ RepliesKnown' /\ LeadersBacked'
  BY <1>2 DEF VoteInv, BallotsUnique, RequestsKnown, RepliesKnown, LeadersBacked, Awaited
<1>5. ElectionsBacked'
  <2> SUFFICES ASSUME NEW p \in Server, NEW e \in DOMAIN elections[p]
               PROVE  elections[p][e].Term <= currentTerm'[p]
    BY <1>2 DEF VoteInv, ElectionsBacked
  <2>1. elections[p][e].Term \in Nat
    BY ElectionType
  <2>2. elections[p][e].Term <= currentTerm[p]
    BY DEF VoteInv, ElectionsBacked
  <2>3. QED
    BY <1>1, <1>2, <2>1, <2>2 DEF VoteTypeOK
<1>6. OwnVote'
  BY <1>2, RaftAssumption DEF VoteTypeOK, VoteInv, OwnVote
<1>7. LeadersLead'
  BY <1>1, <1>2 DEF VoteTypeOK, VoteInv, LeadersLead
<1>8. QED
  BY <1>3, <1>4, <1>5, <1>6, <1>7 DEF VoteInv

(* The types of what a server keeps of an election *)
LEMMA TermAndVote ==
  ASSUME VoteTypeOK
  PROVE  /\ role \in [Server -> {FOLLOWER, CANDIDATE, LEADER}]
         /\ currentTerm \in [Server -> Nat] /\ votedFor \in [Server -> Server \cup {None}]
         /\ epoch \in [Server -> Nat]
         /\ \A b \in ballots : b.voter \in Server /\ b.term \in Nat
         /\ \A l \in leaders : l.server \in Server /\ l.term \in Nat
  BY ZenonT(60) DEF VoteTypeOK, BallotRecord

(* What Append adds, and what it leaves *)
LEMMA Appended ==
  ASSUME NEW S, NEW s \in Seq(S), NEW x \in S
  PROVE  /\ \A e \in DOMAIN s : e \in DOMAIN Append(s, x) /\ Append(s, x)[e] = s[e]
         /\ Len(s) + 1 \in DOMAIN Append(s, x) /\ Append(s, x)[Len(s) + 1] = x
         /\ \A e \in DOMAIN Append(s, x) : e \in DOMAIN s \/ e = Len(s) + 1
  OBVIOUS

(* A new candidate votes for itself in a term that is new to it *)
LEMMA ElectionTimeoutStep ==
  ASSUME VoteTypeOK, VoteInv, NEW n \in Server, ElectionTimeout(n)
  PROVE  VoteInv'
<1> DEFINE t == currentTerm[n] + 1
           record == [Term |-> t, Granted |-> {n}, Won |-> FALSE]
<1>1. /\ currentTerm' = [currentTerm EXCEPT ![n] = t]
      /\ role' = [role EXCEPT ![n] = CANDIDATE]
      /\ votedFor' = [votedFor EXCEPT ![n] = n]
      /\ elections' = [elections EXCEPT ![n] = Append(@, record)]
      /\ ballots' = ballots \cup {Ballot(n, t, n)}
      /\ UNCHANGED <<epoch, voteReplies, leaders>>
  BY DEF ElectionTimeout, Ballot, faults
<1>2. \A m \in voteRequests' \ voteRequests :
        /\ m.from = n /\ m.epoch = epoch[n]
        /\ m.election = Len(elections[n]) + 1 /\ m.Term = t
  BY DEF ElectionTimeout
<1>t. t \in Nat /\ t > currentTerm[n]
  BY DEF VoteTypeOK
<1> HIDE DEF t
<1>3. /\ \A p \in Server : \A e \in DOMAIN elections[p] :
           e \in DOMAIN elections'[p] /\ elections'[p][e] = elections[p][e]
      /\ Len(elections[n]) + 1 \in DOMAIN elections'[n]
      /\ elections'[n][Len(elections[n]) + 1] = record
      /\ \A p \in Server : \A e \in DOMAIN elections'[p] :
           e \in DOMAIN elections[p] \/ (p = n /\ e = Len(elections[n]) + 1)
  <2>1. elections[n] \in Seq(ElectionRecord)
    BY DEF VoteTypeOK
  <2>2. elections'[n] = Append(elections[n], record)
    BY <1>1 DEF VoteTypeOK
  <2>3. \A p \in Server \ {n} : elections'[p] = elections[p]
    BY <1>1 DEF VoteTypeOK
  <2>4. record \in ElectionRecord
    BY <1>t DEF ElectionRecord
  <2> HIDE DEF record
  <2>5. /\ \A e \in DOMAIN elections[n] : e \in DOMAIN elections'[n] /\ elections'[n][e] = elections[n][e]
        /\ Len(elections[n]) + 1 \in DOMAIN elections'[n]
        /\ elections'[n][Len(elections[n]) + 1] = record
        /\ \A e \in DOMAIN elections'[n] : e \in DOMAIN elections[n] \/ e = Len(elections[n]) + 1
    <3> DEFINE s == elections[n]
    <3>1. /\ \A e \in DOMAIN s : e \in DOMAIN Append(s, record) /\ Append(s, record)[e] = s[e]
          /\ Len(s) + 1 \in DOMAIN Append(s, record) /\ Append(s, record)[Len(s) + 1] = record
          /\ \A e \in DOMAIN Append(s, record) : e \in DOMAIN s \/ e = Len(s) + 1
      BY <2>1, <2>4, Appended
    <3>2. QED
      BY ZenonT(60), <2>2, <3>1
  <2>6. QED
    BY ZenonT(60), <2>3, <2>5
<1>4. BallotsCurrent'
  BY <1>1, <1>t, TermAndVote DEF VoteInv, BallotsCurrent, Ballot
<1>5. BallotsUnique'
  BY <1>1, <1>t DEF VoteTypeOK, VoteInv, BallotsUnique, BallotsCurrent, BallotRecord, Ballot
<1>6. RequestsKnown'
  <2> SUFFICES ASSUME NEW m \in voteRequests'
               PROVE  /\ m.epoch <= epoch[m.from]
                      /\ Awaited(m) => /\ m.election \in DOMAIN elections'[m.from]
                                       /\ elections'[m.from][m.election].Term = m.Term
    BY ZenonT(60), <1>1 DEF RequestsKnown, Awaited
  <2>1. CASE m \in voteRequests
    BY ZenonT(60), <1>3, <2>1 DEF VoteTypeOK, VoteInv, RequestsKnown
  <2>2. CASE m \notin voteRequests
    BY <1>2, <1>3, <2>2 DEF VoteTypeOK
  <2>3. QED
    BY ZenonT(60), <2>1, <2>2
<1>7. RepliesKnown'
  <2>1. \A r \in voteReplies : r.from \in Server
    BY ZenonT(60) DEF VoteTypeOK, VoteReplyRecord
  <2>2. RepliesKnown /\ voteReplies' = voteReplies /\ ballots \subseteq ballots'
    BY ZenonT(60), <1>1 DEF VoteInv
  <2>3. QED
    BY ZenonT(60), <1>3, <2>1, <2>2 DEF RepliesKnown
<1>8. ElectionsBacked'
  <2> SUFFICES ASSUME NEW p \in Server, NEW e \in DOMAIN elections'[p]
               PROVE  /\ elections'[p][e].Term <= currentTerm'[p]
                      /\ \A q \in elections'[p][e].Granted \ {p} :
                           Ballot(q, elections'[p][e].Term, p) \in ballots'
    BY ZenonT(60) DEF ElectionsBacked
  <2>1. CASE e \in DOMAIN elections[p]
    <3>1. elections[p][e].Term \in Nat
      BY <2>1, ElectionType
    <3>2. elections'[p][e] = elections[p][e] /\ elections[p][e].Term <= currentTerm[p]
      BY <1>3, <2>1 DEF VoteInv, ElectionsBacked
    <3>3. \A q \in elections[p][e].Granted \ {p} : Ballot(q, elections[p][e].Term, p) \in ballots
      BY ZenonT(60), <2>1 DEF VoteInv, ElectionsBacked
    <3>4. elections[p][e].Term <= currentTerm'[p]
      <4>1. currentTerm'[p] = IF p = n THEN t ELSE currentTerm[p]
        BY ZenonT(60), <1>1, TermAndVote
      <4>2. currentTerm[p] \in Nat
        BY Zenon, TermAndVote
      <4>3. QED
        BY <1>t, <3>1, <3>2, <4>1, <4>2
    <3>5. QED
      BY <1>1, <3>2, <3>3, <3>4
  <2>2. CASE p = n /\ e = Len(elections[n]) + 1
    BY <1>1, <1>3, <1>t, <2>2, TermAndVote
  <2>3. QED
    BY ZenonT(60), <1>3, <2>1, <2>2
<1>9. OwnVote'
  <2>1. \A p \in Server : /\ currentTerm'[p] = IF p = n THEN t ELSE currentTerm[p]
                          /\ role'[p] = IF p = n THEN CANDIDATE ELSE role[p]
    BY ZenonT(60), <1>1, TermAndVote
  <2>2. OwnVote
    BY Zenon DEF VoteInv
  <2>3. \A p \in Server \ {n} : role'[p] = role[p] /\ currentTerm'[p] = currentTerm[p]
    BY ZenonT(60), <2>1
  <2>4. currentTerm'[n] = t /\ Ballot(n, t, n) \in ballots' /\ ballots \subseteq ballots'
    BY ZenonT(60), <1>1, <2>1
  <2>5. \A p \in Server \ {n} : role'[p] \in {CANDIDATE, LEADER} =>
                                Ballot(p, currentTerm'[p], p) \in ballots'
    BY ZenonT(60), <2>2, <2>3, <2>4 DEF OwnVote
  <2>6. QED
    BY ZenonT(60), <2>4, <2>5 DEF OwnVote
<1>10. LeadersBacked'
  BY ZenonT(60), <1>1 DEF VoteInv, LeadersBacked
<1>11. LeadersLead'
  BY <1>1, <1>t, <1>3 DEF VoteTypeOK, VoteInv, LeadersLead
<1>12. QED
  BY ZenonT(60), <1>4, <1>5, <1>6, <1>7, <1>8, <1>9, <1>10, <1>11 DEF VoteInv

(* A vote is given once in a term, and only then does the reply say so *)
LEMMA RequestVoteStep ==
  ASSUME VoteTypeOK, VoteInv, NEW n \in Server, NEW m \in voteRequests,
         RefuseVote(n, m) \/ RequestVote(n, m)
  PROVE  VoteInv'
<1>0. /\ m.from \in Server /\ m.from # m.to /\ m.Term \in Nat /\ m.to = n
      /\ voteRequests' \subseteq voteRequests
      /\ UNCHANGED <<elections, epoch, leaders>>
  BY ZenonT(60) DEF VoteTypeOK, RefuseVote, RequestVote, ReplyVote, serverVars, faults, votes
<1>1. RequestsKnown'
  BY ZenonT(60), <1>0 DEF VoteInv, RequestsKnown, Awaited
<1>2. ASSUME NEW term, NEW granted, ReplyVote(m, term, granted), ballots \subseteq ballots',
             granted => Ballot(n, m.Term, m.from) \in ballots'
      PROVE  RepliesKnown'
  <2> DEFINE reply == [from |-> m.from, to |-> m.to, election |-> m.election,
                       Term |-> m.Term, rTerm |-> term, granted |-> granted]
  <2>1. Awaited(m) => /\ m.election \in DOMAIN elections[m.from]
                      /\ elections[m.from][m.election].Term = m.Term
    BY DEF VoteInv, RequestsKnown
  <2>2. \A r \in voteReplies' : r \in voteReplies \/ (Awaited(m) /\ r = reply)
    BY ZenonT(60), <1>2 DEF ReplyVote
  <2>3. QED
    BY <1>0, <1>2, <2>1, <2>2 DEF VoteInv, RepliesKnown
<1>3. CASE RefuseVote(n, m)
  <2>1. UNCHANGED <<role, currentTerm, votedFor, ballots>>
    BY ZenonT(60), <1>3 DEF RefuseVote, serverVars, votes
  <2>2. RepliesKnown'
    BY Zenon, <1>2, <1>3, <2>1 DEF RefuseVote
  <2>3. QED
    BY ZenonT(60), <1>0, <1>1, <2>1, <2>2 DEF VoteInv, BallotsCurrent, BallotsUnique, ElectionsBacked,
                                  OwnVote, LeadersBacked, LeadersLead
<1>4. CASE RequestVote(n, m)
  <2> DEFINE newer == m.Term > currentTerm[n]
             grant == UpToDate(m.LastLogTerm, m.LastLogIndex, logs[n])
             vote  == IF grant THEN m.from ELSE IF newer THEN None ELSE votedFor[n]
  <2>1. /\ currentTerm' = [currentTerm EXCEPT ![n] = m.Term]
        /\ role' = [role EXCEPT ![n] = IF newer THEN FOLLOWER ELSE @]
        /\ votedFor' = [votedFor EXCEPT ![n] = vote]
        /\ ballots' = IF grant THEN ballots \cup {Ballot(n, m.Term, m.from)} ELSE ballots
        /\ ReplyVote(m, m.Term, grant)
    BY ZenonT(60), <1>4 DEF RequestVote, Ballot
  <2>2. /\ m.Term >= currentTerm[n]
        /\ ~newer => m.Term = currentTerm[n] /\ votedFor[n] \in {None, m.from}
    <3>1. ~VoteRefused(n, m)
      BY ZenonT(60), <1>4 DEF RequestVote
    <3>2. m.Term \in Nat /\ currentTerm[n] \in Nat
      BY ZenonT(60), <1>0 DEF VoteTypeOK
    <3>3. QED
      BY <3>1, <3>2 DEF VoteRefused
  <2>3. /\ grant => vote = m.from
        /\ ~grant /\ ~newer => vote = votedFor[n]
    OBVIOUS
  <2>t. currentTerm[n] \in Nat /\ (newer <=> m.Term > currentTerm[n])
    BY DEF VoteTypeOK
  <2> HIDE DEF newer, grant, vote
  <2>4. ASSUME NEW b \in ballots, b.voter = n, b.term = m.Term
        PROVE  ~newer /\ votedFor[n] = b.candidate /\ b.candidate = m.from
    <3>1. /\ b.term <= currentTerm[n]
          /\ b.term = currentTerm[n] => votedFor[n] = b.candidate
      BY <2>4 DEF VoteInv, BallotsCurrent
    <3>2. b.candidate # None
      BY RaftAssumption DEF VoteTypeOK, BallotRecord
    <3>3. QED
      <4>1. m.Term <= currentTerm[n] /\ m.Term \in Nat
        BY Zenon, <1>0, <2>4, <3>1
      <4>2. ~newer
        BY <2>t, <4>1
      <4>3. QED
        BY Zenon, <2>2, <2>4, <3>1, <3>2, <4>2
  <2>5. BallotsCurrent'
    <3> SUFFICES ASSUME NEW b \in ballots'
                 PROVE  /\ b.term <= currentTerm'[b.voter]
                        /\ b.term = currentTerm'[b.voter] => votedFor'[b.voter] = b.candidate
      BY ZenonT(60) DEF BallotsCurrent
    <3>1. CASE b = Ballot(n, m.Term, m.from) /\ grant
      <4>1. b.voter = n /\ b.term = m.Term /\ b.candidate = m.from
        BY ZenonT(60), <3>1 DEF Ballot
      <4>2. currentTerm'[n] = m.Term /\ votedFor'[n] = m.from /\ m.Term \in Nat
        BY ZenonT(60), <1>0, <2>1, <2>3, <3>1, TermAndVote
      <4>3. QED
        BY <4>1, <4>2
    <3>2. CASE b \in ballots /\ b.voter = n
      <4>1. b.term <= currentTerm[n] /\ b.term \in Nat
        BY <3>2 DEF VoteTypeOK, BallotRecord, VoteInv, BallotsCurrent
      <4>2. b.term = m.Term => vote = b.candidate
        BY ZenonT(60), <2>3, <2>4, <3>2
      <4>3. QED
        <5>1. currentTerm'[n] = m.Term /\ votedFor'[n] = vote /\ m.Term \in Nat
          BY ZenonT(60), <1>0, <2>1, TermAndVote
        <5>2. QED
          BY <2>2, <2>t, <3>2, <4>1, <4>2, <5>1
    <3>3. CASE b \in ballots /\ b.voter # n
      BY <2>1, <3>3 DEF VoteTypeOK, BallotRecord, VoteInv, BallotsCurrent
    <3>4. QED
      BY ZenonT(60), <2>1, <3>1, <3>2, <3>3
  <2>6. BallotsUnique'
    BY <2>1, <2>4 DEF VoteInv, BallotsUnique, Ballot
  <2>7. RepliesKnown'
    BY ZenonT(60), <1>2, <2>1
  <2>8. ElectionsBacked'
    <3> SUFFICES ASSUME NEW p \in Server, NEW e \in DOMAIN elections[p]
                 PROVE  elections[p][e].Term <= currentTerm'[p]
      BY <1>0, <2>1 DEF VoteInv, ElectionsBacked
    <3>1. elections[p][e].Term \in Nat /\ elections[p][e].Term <= currentTerm[p]
      BY ZenonT(60), ElectionType DEF VoteInv, ElectionsBacked
    <3>2. QED
      <4>1. currentTerm'[p] = IF p = n THEN m.Term ELSE currentTerm[p]
        BY ZenonT(60), <2>1, TermAndVote
      <4>2. m.Term \in Nat /\ currentTerm[p] \in Nat /\ currentTerm[n] \in Nat
        BY ZenonT(60), <1>0, TermAndVote
      <4>3. QED
        BY <2>2, <3>1, <4>1, <4>2
  <2>9. OwnVote'
    BY ZenonT(60), <2>1, <2>2, RaftAssumption DEF VoteTypeOK, VoteInv, OwnVote
  <2>10. LeadersBacked'
    <3>1. LeadersBacked /\ leaders' = leaders /\ ballots \subseteq ballots'
      BY ZenonT(60), <1>0, <2>1 DEF VoteInv
    <3>2. QED
      BY ZenonT(60), <3>1 DEF LeadersBacked
  <2>11. LeadersLead'
    <3>1. CASE newer
      <4>1. \A l \in leaders : l.term \in Nat /\ l.term <= currentTerm[l.server]
        BY ZenonT(60) DEF VoteTypeOK, VoteInv, LeadersLead
      <4>2. \A l \in leaders : l.server = n => l.term < currentTerm'[n]
        <5>1. currentTerm'[n] = m.Term /\ m.Term \in Nat
          BY ZenonT(60), <1>0, <2>1, TermAndVote
        <5>2. QED
          BY <2>t, <3>1, <4>1, <5>1
      <4>3. \A p \in Server \ {n} : currentTerm'[p] = currentTerm[p] /\ role'[p] = role[p]
        BY ZenonT(60), <2>1 DEF VoteTypeOK
      <4>4. QED
        <5>1. \A l \in leaders : l.server \in Server /\ currentTerm'[l.server] \in Nat
          BY ZenonT(60), <1>0, <2>1, <4>3, TermAndVote
        <5>2. LeadersLead /\ UNCHANGED <<leaders, elections>>
          BY ZenonT(60), <1>0 DEF VoteInv
        <5>3. QED
          BY <4>1, <4>2, <4>3, <5>1, <5>2 DEF LeadersLead
    <3>2. CASE ~newer
      BY <1>0, <2>1, <2>2, <3>2 DEF VoteTypeOK, VoteInv, LeadersLead
    <3>3. QED
      BY ZenonT(60), <3>1, <3>2
  <2>12. QED
    BY <1>1, <2>5, <2>6, <2>7, <2>8, <2>9, <2>10, <2>11 DEF VoteInv
<1>5. QED
  BY ZenonT(60), <1>3, <1>4

=============================================================================
