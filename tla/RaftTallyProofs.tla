-------------------------- MODULE RaftTallyProofs ---------------------------
(***************************************************************************)
(* The invariant of RaftVoteProofs, continued: the steps in which votes are*)
(* counted or withdrawn, restarts, and all the steps together.             *)
(***************************************************************************)
EXTENDS RaftVoteProofs

(* A candidate that is told of a later term withdraws the vote for itself, and
   that is all that it had given in its term *)
LEMMA HigherVoteReplyStep ==
  ASSUME VoteTypeOK, VoteInv, ~LateRejections,
         NEW n \in Server, NEW m \in voteReplies, HigherVoteReply(n, m)
  PROVE  VoteInv'
<1> DEFINE own == Ballot(n, m.Term, n)
<1>1. /\ currentTerm[n] = m.Term /\ role[n] = CANDIDATE /\ m.from = n
      /\ voteReplies' = voteReplies \ {m}
      /\ currentTerm' = [currentTerm EXCEPT ![n] = m.Term]
      /\ role' = [role EXCEPT ![n] = FOLLOWER]
      /\ votedFor' = [votedFor EXCEPT ![n] = None]
      /\ ballots' = ballots \ {own}
      /\ UNCHANGED <<elections, epoch, voteRequests, leaders>>
  BY DEF HigherVoteReply, SetNewTerm, Ballot, faults
<1>2. currentTerm' = currentTerm
  BY <1>1 DEF VoteTypeOK
<1>3. own \in ballots /\ votedFor[n] = n
  BY <1>1 DEF VoteInv, OwnVote, BallotsCurrent, Ballot
<1>4. \A v, t, c : v # n \/ c # n => (Ballot(v, t, c) \in ballots => Ballot(v, t, c) \in ballots')
  BY <1>1 DEF Ballot
<1>5. BallotsCurrent'
  <2> SUFFICES ASSUME NEW b \in ballots', b.voter = n
               PROVE  b.term # m.Term
    BY <1>1, <1>2 DEF VoteTypeOK, BallotRecord, VoteInv, BallotsCurrent
  <2>1. b = Ballot(b.voter, b.term, b.candidate)
    BY ZenonT(60), <1>1 DEF VoteTypeOK, BallotRecord, Ballot
  <2>2. b.term = m.Term => b.candidate = n
    BY <1>1, <1>3 DEF VoteInv, BallotsCurrent
  <2>3. QED
    BY ZenonT(60), <1>1, <2>1, <2>2
<1>6. BallotsUnique' /\ RequestsKnown'
  BY <1>1 DEF VoteInv, BallotsUnique, RequestsKnown, Awaited
<1>7. RepliesKnown'
  BY <1>1, <1>4 DEF VoteInv, RepliesKnown
<1>8. ElectionsBacked'
  BY <1>1, <1>2, <1>4 DEF VoteInv, ElectionsBacked
<1>9. OwnVote'
  BY <1>1, <1>2, <1>4, RaftAssumption DEF VoteTypeOK, VoteInv, OwnVote
<1>10. \A l \in leaders : l.server = n => l.term < m.Term
  <2>1. /\ m.election \in DOMAIN elections[n]
        /\ elections[n][m.election].Term = m.Term
    BY <1>1 DEF VoteInv, RepliesKnown
  <2>2. \A l \in leaders : l.server = n => l.term <= m.Term /\ l.term # m.Term
    BY <1>1, <2>1, RaftAssumption DEF VoteTypeOK, VoteInv, LeadersLead
  <2>3. QED
    BY <1>1, <2>2 DEF VoteTypeOK
<1>11. LeadersBacked'
  <2> SUFFICES ASSUME NEW l \in leaders
               PROVE  \E Q \in SUBSET Server :
                        Majority(Q) /\ \A v \in Q : Ballot(v, l.term, l.server) \in ballots'
    BY <1>1 DEF LeadersBacked
  <2>1. PICK Q \in SUBSET Server :
          Majority(Q) /\ \A v \in Q : Ballot(v, l.term, l.server) \in ballots
    BY DEF VoteInv, LeadersBacked
  <2>2. l.server = n => l.term # m.Term
    BY <1>1, <1>10 DEF VoteTypeOK
  <2>3. \A v \in Q : Ballot(v, l.term, l.server) # own
    BY ZenonT(60), <2>2 DEF Ballot
  <2>4. QED
    BY <1>1, <2>1, <2>3
<1>12. LeadersLead'
  BY <1>1, <1>2, <1>10 DEF VoteTypeOK, VoteInv, LeadersLead
<1>13. QED
  BY <1>5, <1>6, <1>7, <1>8, <1>9, <1>11, <1>12 DEF VoteInv

(* A vote that is counted has been given; a majority of them makes a leader *)
LEMMA VoteCountedStep ==
  ASSUME VoteTypeOK, VoteInv, NEW n \in Server, NEW m \in voteReplies,
         CountVote(n, m) \/ BecomeLeader(n, m)
  PROVE  VoteInv'
<1> DEFINE e == m.election
           granted == elections[n][e].Granted \cup {m.to}
<1>1. /\ m.from = n /\ m.rTerm = m.Term /\ m.granted
      /\ voteReplies' = voteReplies \ {m}
      /\ UNCHANGED <<currentTerm, votedFor, epoch, voteRequests, ballots>>
  BY Zenon DEF CountVote, BecomeLeader, faults, votes
<1>2. /\ e \in DOMAIN elections[n] /\ elections[n][e].Term = m.Term
      /\ m.to \in Server /\ Ballot(m.to, m.Term, n) \in ballots
  BY ZenonT(60), <1>1 DEF VoteTypeOK, VoteReplyRecord, VoteInv, RepliesKnown
<1>3. /\ \A p \in Server : DOMAIN elections'[p] = DOMAIN elections[p]
      /\ \A p \in Server : \A k \in DOMAIN elections[p] :
           /\ elections'[p][k].Term = elections[p][k].Term
           /\ \/ elections'[p][k].Granted = elections[p][k].Granted
              \/ p = n /\ k = e /\ elections'[p][k].Granted = granted
  <2>0. elections \in [Server -> Seq(ElectionRecord)]
    BY DEF VoteTypeOK
  <2>1. CASE CountVote(n, m)
    <3> DEFINE r == [elections[n][e] EXCEPT !.Granted = granted]
    <3>1. elections' = [elections EXCEPT ![n] = [elections[n] EXCEPT ![e] = r]]
      BY ZenonT(60), <2>0, <2>1 DEF CountVote
    <3>2. elections[n][e] \in ElectionRecord
      BY <1>2, <2>0
    <3>3. r.Term = elections[n][e].Term /\ r.Granted = granted
      BY ZenonT(60), <3>2 DEF ElectionRecord
    <3> HIDE DEF r, granted
    <3>4. QED
      BY <1>2, <2>0, <3>1, <3>3
  <2>2. CASE BecomeLeader(n, m)
    <3> DEFINE r == [Term |-> elections[n][e].Term, Granted |-> granted, Won |-> TRUE]
    <3>1. elections' = [elections EXCEPT ![n] = [elections[n] EXCEPT ![e] = r]]
      BY <2>0, <2>2 DEF BecomeLeader
    <3>3. r.Term = elections[n][e].Term /\ r.Granted = granted
      OBVIOUS
    <3> HIDE DEF r, granted
    <3>4. QED
      BY <1>2, <2>0, <3>1, <3>3
  <2>3. QED
    BY <2>1, <2>2
<1>4. BallotsCurrent' /\ BallotsUnique'
  BY <1>1 DEF VoteInv, BallotsCurrent, BallotsUnique
<1>k. \A p \in Server : /\ DOMAIN elections'[p] = DOMAIN elections[p]
                        /\ \A k \in DOMAIN elections[p] :
                             elections'[p][k].Term = elections[p][k].Term
  BY <1>3
<1>5. RequestsKnown'
  <2>1. \A r \in voteRequests : r.from \in Server
    BY ZenonT(60) DEF VoteTypeOK
  <2>2. QED
    BY <1>1, <1>k, <2>1 DEF VoteInv, RequestsKnown, Awaited
<1>6. RepliesKnown'
  <2>1. \A r \in voteReplies : r.from \in Server
    BY ZenonT(60) DEF VoteTypeOK, VoteReplyRecord
  <2>2. QED
    BY <1>1, <1>k, <2>1 DEF VoteInv, RepliesKnown
<1>7. ElectionsBacked'
  BY <1>1, <1>2, <1>3 DEF VoteInv, ElectionsBacked
<1>8. CASE CountVote(n, m)
  <2>1. UNCHANGED <<role, leaders>>
    BY ZenonT(60), <1>8 DEF CountVote, votes
  <2>2. OwnVote' /\ LeadersBacked'
    BY <1>1, <2>1 DEF VoteInv, OwnVote, LeadersBacked
  <2>3. LeadersLead'
    <3>1. \A l \in leaders : l.server \in Server
      BY DEF VoteTypeOK
    <3>2. \A l \in leaders :
            /\ DOMAIN elections'[l.server] = DOMAIN elections[l.server]
            /\ \A k \in DOMAIN elections[l.server] :
                 elections'[l.server][k].Term = elections[l.server][k].Term
      BY Zenon, <1>k, <3>1
    <3>3. UNCHANGED <<currentTerm, role, leaders>>
      BY <1>1, <2>1
    <3>4. LeadersLead
      BY DEF VoteInv
    <3>5. QED
      BY ZenonT(60), <3>2, <3>3, <3>4 DEF LeadersLead
  <2>4. QED
    BY ZenonT(60), <1>4, <1>5, <1>6, <1>7, <2>2, <2>3 DEF VoteInv
<1>9. CASE BecomeLeader(n, m)
  <2> DEFINE new == [server |-> n, term |-> m.Term]
  <2>1. /\ Majority(granted) /\ currentTerm[n] = m.Term /\ role[n] = CANDIDATE
        /\ role' = [role EXCEPT ![n] = LEADER]
        /\ leaders' = leaders \cup {new}
    BY <1>9 DEF BecomeLeader, WinsWith
  <2>2. OwnVote'
    BY ZenonT(60), <1>1, <2>1 DEF VoteTypeOK, VoteInv, OwnVote
  <2>3. LeadersBacked'
    <3>1. granted \subseteq Server
      BY ZenonT(60), <1>2, ElectionType
    <3>2. \A v \in granted : Ballot(v, m.Term, n) \in ballots
      BY ZenonT(60), <1>2, <2>1 DEF VoteInv, ElectionsBacked, OwnVote
    <3> HIDE DEF granted
    <3>3. \E Q \in SUBSET Server :
            Majority(Q) /\ \A v \in Q : Ballot(v, new.term, new.server) \in ballots
      BY ZenonT(60), <2>1, <3>1, <3>2
    <3>4. QED
      BY ZenonT(60), <1>1, <2>1, <3>3 DEF VoteInv, LeadersBacked
  <2>4. LeadersLead'
    <3>1. \A l \in leaders : l.server \in Server
      BY DEF VoteTypeOK
    <3>2. \A p \in Server : role[p] = LEADER \/ p = n => role'[p] = LEADER
      BY ZenonT(60), <2>1 DEF VoteTypeOK
    <3>3. currentTerm[n] \in Nat
      BY DEF VoteTypeOK
    <3>4. QED
      <4>1. /\ LeadersLead /\ UNCHANGED currentTerm
            /\ leaders' = leaders \cup {new} /\ new.server = n /\ new.term = currentTerm[n]
        BY ZenonT(60), <1>1, <2>1 DEF VoteInv
      <4> HIDE DEF new
      <4>2. new.term <= currentTerm[new.server]
        BY <3>3, <4>1
      <4>3. QED
        BY ZenonT(60), <1>k, <3>1, <3>2, <4>1, <4>2 DEF LeadersLead
  <2>5. QED
    BY ZenonT(60), <1>4, <1>5, <1>6, <1>7, <2>2, <2>3, <2>4 DEF VoteInv
<1>10. QED
  BY <1>8, <1>9

(* A server that is started again knows its term and its vote, and no election *)
LEMMA RemakeStep ==
  ASSUME VoteTypeOK, DurableInv, VoteInv, NEW n \in Server, Remake(n)
  PROVE  VoteInv'
<1>1. persisted[n].Term = currentTerm[n] /\ persisted[n].Vote = votedFor[n]
  <2>1. persisted[n] = [Term |-> currentTerm[n], Vote |-> votedFor[n], Log |-> logs[n]]
    BY Zenon DEF DurableInv, Durable
  <2>2. QED
    BY <2>1
<1>2. /\ UNCHANGED <<currentTerm, votedFor, voteRequests, ballots, leaders>>
      /\ role' = [role EXCEPT ![n] = FOLLOWER]
      /\ elections' = [elections EXCEPT ![n] = <<>>]
      /\ epoch' = [epoch EXCEPT ![n] = @ + 1]
      /\ voteReplies' = {m \in voteReplies : m.from # n}
  BY ZenonT(60), <1>1 DEF Remake, RepliesOfOthers, VoteTypeOK, votes
<1>3. /\ elections'[n] = <<>>
      /\ \A p \in Server \ {n} : elections'[p] = elections[p]
  BY ZenonT(60), <1>2 DEF VoteTypeOK
<1>4. BallotsCurrent' /\ BallotsUnique' /\ LeadersBacked'
  BY ZenonT(60), <1>2 DEF VoteInv, BallotsCurrent, BallotsUnique, LeadersBacked
<1>5. RequestsKnown'
  <2> SUFFICES ASSUME NEW m \in voteRequests
               PROVE  /\ m.epoch <= epoch'[m.from]
                      /\ m.epoch = epoch'[m.from] =>
                           /\ m.election \in DOMAIN elections'[m.from]
                           /\ elections'[m.from][m.election].Term = m.Term
    BY ZenonT(60), <1>2 DEF RequestsKnown, Awaited
  <2>1. m.from \in Server /\ m.epoch \in Nat /\ m.epoch <= epoch[m.from]
    BY ZenonT(60) DEF VoteTypeOK, VoteInv, RequestsKnown
  <2>2. CASE m.from = n
    <3>1. epoch[n] \in Nat /\ epoch'[n] = epoch[n] + 1
      BY ZenonT(60), <1>2, TermAndVote
    <3>2. m.epoch < epoch'[n]
      BY <2>1, <2>2, <3>1
    <3>3. m.epoch <= epoch'[n] /\ m.epoch # epoch'[n]
      BY <2>1, <3>1, <3>2
    <3>4. QED
      BY ZenonT(60), <2>2, <3>3
  <2>3. CASE m.from # n
    BY ZenonT(60), <1>2, <1>3, <2>1, <2>3 DEF VoteTypeOK, VoteInv, RequestsKnown, Awaited
  <2>4. QED
    BY ZenonT(60), <2>2, <2>3
<1>6. RepliesKnown'
  <2>1. \A r \in voteReplies : r.from \in Server
    BY ZenonT(60) DEF VoteTypeOK, VoteReplyRecord
  <2>2. QED
    BY ZenonT(60), <1>2, <1>3, <2>1 DEF VoteInv, RepliesKnown
<1>7. ElectionsBacked'
  <2>1. ElectionsBacked /\ UNCHANGED <<currentTerm, ballots>>
    BY ZenonT(60), <1>2 DEF VoteInv
  <2>2. DOMAIN elections'[n] = {}
    BY <1>3
  <2>3. QED
    BY ZenonT(60), <1>3, <2>1, <2>2 DEF ElectionsBacked
<1>8. OwnVote'
  BY ZenonT(60), <1>2, RaftAssumption DEF VoteTypeOK, VoteInv, OwnVote
<1>9. LeadersLead'
  <2>1. \A l \in leaders : l.server \in Server
    BY DEF VoteTypeOK
  <2>2. \A p \in Server \ {n} : role'[p] = role[p]
    BY <1>2 DEF VoteTypeOK
  <2>3. QED
    <3>1. LeadersLead /\ UNCHANGED <<currentTerm, leaders>>
      BY ZenonT(60), <1>2 DEF VoteInv
    <3>2. DOMAIN elections'[n] = {}
      BY <1>3
    <3>3. QED
      BY ZenonT(60), <1>3, <2>1, <2>2, <3>1, <3>2 DEF LeadersLead
<1>10. QED
  BY <1>4, <1>5, <1>6, <1>7, <1>8, <1>9 DEF VoteInv

(* The invariant of the elections is kept by every kind of step *)
LEMMA VoteInvStep ==
  ASSUME VoteTypeOK, DurableInv, VoteInv, ~LateRejections, NEW n \in Server,
         Neutral \/ Kinds(n)
  PROVE  VoteInv'
<1>1. CASE Neutral
  BY ZenonT(60), <1>1 DEF Neutral, serverVars, voteNet, votes, VoteInv, BallotsCurrent, BallotsUnique,
              RequestsKnown, RepliesKnown, ElectionsBacked, OwnVote, LeadersBacked,
              LeadersLead, Awaited
<1>2. CASE Conceding(n)
  <2>1. /\ UNCHANGED <<currentTerm, votedFor, elections, epoch, voteRequests, voteReplies,
                       ballots, leaders>>
        /\ role' = [role EXCEPT ![n] = IF @ = CANDIDATE THEN FOLLOWER ELSE @]
    BY ZenonT(60), <1>2 DEF Conceding, Concede, voteNet, votes
  <2>2. \A p \in Server : role'[p] = role[p] \/ (role[p] = CANDIDATE /\ role'[p] = FOLLOWER)
    BY ZenonT(60), <2>1 DEF VoteTypeOK
  <2>3. OwnVote'
    BY ZenonT(60), <2>1, <2>2, RaftAssumption DEF VoteInv, OwnVote
  <2>4. LeadersLead'
    BY <2>1, <2>2, RaftAssumption DEF VoteTypeOK, VoteInv, LeadersLead
  <2>5. QED
    BY Zenon, <2>1, <2>3, <2>4 DEF VoteInv, BallotsCurrent, BallotsUnique, RequestsKnown,
                            RepliesKnown, ElectionsBacked, LeadersBacked, Awaited
<1>3. CASE VoteRequested(n)
  BY <1>3, RequestVoteStep DEF VoteRequested
<1>4. CASE VoteReplied(n)
  BY <1>4, HigherVoteReplyStep, VoteCountedStep DEF VoteReplied
<1>5. QED
  BY ZenonT(60), <1>1, <1>2, <1>3, <1>4, LaterTermStep, ElectionTimeoutStep, RemakeStep DEF Kinds

(* Make on an empty persister satisfies the invariant *)
LEMMA InitVotes ==
  Init => VoteInv
<1> SUFFICES ASSUME Init
             PROVE  VoteInv
  BY ZenonT(60)
<1>1. BallotsCurrent /\ BallotsUnique /\ RequestsKnown /\ RepliesKnown
  BY ZenonT(60) DEF Init, BallotsCurrent, BallotsUnique, RequestsKnown, RepliesKnown
<1>2. ElectionsBacked
  <2>1. \A n \in Server : DOMAIN elections[n] = {}
    BY DEF Init
  <2>2. QED
    BY ZenonT(60), <2>1 DEF ElectionsBacked
<1>3. OwnVote /\ LeadersBacked /\ LeadersLead
  BY RaftAssumption DEF Init, OwnVote, LeadersBacked, LeadersLead
<1>4. QED
  BY <1>1, <1>2, <1>3 DEF VoteInv

(* Every step keeps the invariant of the elections, if no rejection comes late *)
LEMMA VoteInvNext ==
  ~LateRejections => (BaseInv /\ VoteInv /\ [Next]_vars => VoteInv')
<1> SUFFICES ASSUME ~LateRejections, BaseInv, VoteInv, [Next]_vars
             PROVE  VoteInv'
  OBVIOUS
<1>0. VoteTypeOK /\ CarriedTermOK /\ DurableInv
  BY DEF BaseInv
<1>1. CASE Neutral
  BY Zenon, <1>1 DEF Neutral, serverVars, voteNet, votes, VoteInv, BallotsCurrent, BallotsUnique,
              RequestsKnown, RepliesKnown, ElectionsBacked, OwnVote, LeadersBacked,
              LeadersLead, Awaited
<1>2. CASE \E n \in Server : Kinds(n)
  BY <1>0, <1>2, VoteInvStep
<1>3. QED
  BY <1>0, <1>1, <1>2, StepKinds

=============================================================================
