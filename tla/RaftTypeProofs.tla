--------------------------- MODULE RaftTypeProofs ---------------------------
(***************************************************************************)
(* Types and durability, for any finite set of servers, any bounds and any *)
(* network: everything that elections depend on has its type (VoteTypeOK), *)
(* so have the terms in the other messages (CarriedTermOK), and the        *)
(* persister of every server always holds what the server holds (Durable). *)
(***************************************************************************)
EXTENDS Raft, TLAPS

Ballot(voter, term, candidate) ==
  [voter |-> voter, term |-> term, candidate |-> candidate]

(* Durable, with the domains that make its equations definite *)
DurableInv ==
  /\ logs = [n \in Server |-> logs[n]]
  /\ persisted = [n \in Server |-> persisted[n]]
  /\ Durable

-----------------------------------------------------------------------------
(***************************************************************************)
(* Seen from the elections there are only a few kinds of steps.            *)
(***************************************************************************)
Neutral == UNCHANGED <<serverVars, epoch, voteNet, votes>>

LaterTerm(n) ==
  /\ \E t \in Nat : t > currentTerm[n] /\ SetNewTerm(n, t)
  /\ UNCHANGED <<elections, epoch, voteNet, votes>>

Conceding(n) ==
  /\ Concede(n)
  /\ UNCHANGED <<currentTerm, votedFor, elections, epoch, voteNet, votes>>

VoteRequested(n) == \E m \in voteRequests : RefuseVote(n, m) \/ RequestVote(n, m)

VoteReplied(n) ==
  \E m \in voteReplies : HigherVoteReply(n, m) \/ CountVote(n, m) \/ BecomeLeader(n, m)

Kinds(n) ==
  \/ Neutral \/ LaterTerm(n) \/ Conceding(n)
  \/ ElectionTimeout(n) \/ VoteRequested(n) \/ VoteReplied(n) \/ Remake(n)

(* Every step of Raft is of one of these kinds *)
LEMMA StepKinds ==
  ASSUME VoteTypeOK, CarriedTermOK, [Next]_vars
  PROVE  Neutral \/ \E n \in Server : Kinds(n)
<1>1. CASE UNCHANGED vars
  BY <1>1 DEF vars, serverVars, faults, voteNet, votes, Neutral
<1>2. CASE Next
  <2>1. PICK n \in Server : ServerStep(n) \/ RequestStep(n) \/ ReplyStep(n)
    BY <1>2 DEF Next
  <2>2. CASE ServerStep(n)
    <3>1. CASE Heartbeat(n) \/ Snapshot(n) \/ Collect(n) \/ Deliver(n) \/ Finish(n)
               \/ \E c \in Command : Start(n, c)
      BY Zenon, <3>1 DEF Heartbeat, Snapshot, Collect, Deliver, Finish, Start, Neutral, faults
    <3>2. CASE \E s \in pendingSnaps[n] : RejectSnapshot(n, s) \/ CondInstallSnapshot(n, s)
      BY <3>2 DEF RejectSnapshot, CondInstallSnapshot, Neutral, faults
    <3>3. CASE Restart(n)
      BY <3>3 DEF Restart, Kinds
    <3>4. QED
      BY <2>2, <3>1, <3>2, <3>3 DEF ServerStep, Kinds
  <2>3. CASE RequestStep(n)
    <3>1. CASE \E m \in appendRequests : RefuseAppend(n, m) \/ AdoptTerm(n, m)
      BY ZenonT(60), <3>1 DEF CarriedTermOK, RefuseAppend, AdoptTerm, Neutral, LaterTerm, Kinds, faults
    <3>2. CASE \E m \in appendRequests : AppendMismatch(n, m) \/ AppendEntries(n, m)
      BY <3>2 DEF AppendMismatch, AppendEntries, Conceding, Kinds, faults
    <3>3. CASE \E m \in snapRequests : RefuseSnapshot(n, m) \/ InstallSnapshot(n, m)
      BY <3>3 DEF CarriedTermOK, RefuseSnapshot, InstallSnapshot, Neutral, LaterTerm, Kinds,
                  serverVars, faults
    <3>4. QED
      BY <2>3, <3>1, <3>2, <3>3 DEF RequestStep, VoteRequested, Kinds
  <2>4. CASE ReplyStep(n)
    <3>1. CASE \E m \in appendReplies : AppendReplyNewTerm(n, m)
      BY <3>1 DEF CarriedTermOK, AppendReplyNewTerm, LaterTerm, Kinds, faults
    <3>2. CASE \E m \in appendReplies : AppendReply(n, m)
      BY <3>2 DEF AppendReply, UpdateIndexes, Neutral, Kinds, faults
    <3>3. CASE \E m \in snapReplies : SnapshotReply(n, m)
      BY <3>3 DEF CarriedTermOK, SnapshotReply, Neutral, LaterTerm, Kinds, serverVars, faults
    <3>4. QED
      BY <2>4, <3>1, <3>2, <3>3 DEF ReplyStep, VoteReplied, Kinds
  <2>5. QED
    BY <2>1, <2>2, <2>3, <2>4
<1>3. QED
  BY <1>1, <1>2

-----------------------------------------------------------------------------
(* Types *)

(* Replacing an element of a sequence by one of the same type *)
LEMMA SeqUpdate ==
  ASSUME NEW R, NEW s \in Seq(R), NEW e, NEW r, e \in DOMAIN s => r \in R
  PROVE  [s EXCEPT ![e] = r] \in Seq(R)
<1>1. s \in [1 .. Len(s) -> R] /\ Len(s) \in Nat
  OBVIOUS
<1>2. [s EXCEPT ![e] = r] \in [1 .. Len(s) -> R]
  BY Zenon, <1>1
<1>3. QED
  BY <1>1, <1>2

(* Answering a vote request leaves well-typed requests and replies *)
LEMMA ReplyVoteType ==
  ASSUME VoteTypeOK, NEW m \in voteRequests, NEW term \in Nat, NEW granted \in BOOLEAN,
         ReplyVote(m, term, granted)
  PROVE  /\ voteRequests' \subseteq voteRequests
         /\ voteReplies' \subseteq VoteReplyRecord
<1> DEFINE reply == [from |-> m.from, to |-> m.to, election |-> m.election,
                     Term |-> m.Term, rTerm |-> term, granted |-> granted]
<1>1. reply \in VoteReplyRecord
  BY DEF VoteTypeOK, VoteReplyRecord
<1>2. voteReplies \subseteq VoteReplyRecord
  BY DEF VoteTypeOK
<1>3. voteRequests' \subseteq voteRequests /\ voteReplies' \subseteq voteReplies \cup {reply}
  BY DEF ReplyVote
<1>4. QED
  BY <1>1, <1>2, <1>3

(* The types of the variables of the elections are kept by every kind of step *)
LEMMA VoteTypeStep ==
  ASSUME VoteTypeOK, DurableInv, NEW n \in Server, Neutral \/ Kinds(n)
  PROVE  VoteTypeOK'
<1> USE RaftAssumption
<1>1. CASE Neutral
  BY ZenonT(60), <1>1 DEF VoteTypeOK, Neutral, serverVars, voteNet, votes
<1>2. CASE LaterTerm(n)
  BY <1>2 DEF VoteTypeOK, LaterTerm, SetNewTerm, voteNet, votes
<1>3. CASE Conceding(n)
  BY <1>3 DEF VoteTypeOK, Conceding, Concede, voteNet, votes
<1>4. CASE ElectionTimeout(n)
  <2> DEFINE record == [Term |-> currentTerm[n] + 1, Granted |-> {n}, Won |-> FALSE]
  <2>1. record \in ElectionRecord
    <3>1. currentTerm[n] \in Nat
      BY Zenon DEF VoteTypeOK
    <3>2. QED
      BY <3>1 DEF ElectionRecord
  <2>2. elections' \in [Server -> Seq(ElectionRecord)]
    <3>1. elections \in [Server -> Seq(ElectionRecord)]
      BY Zenon DEF VoteTypeOK
    <3>2. elections' = [elections EXCEPT ![n] = Append(@, record)]
      BY Zenon, <1>4 DEF ElectionTimeout
    <3> HIDE DEF record
    <3>3. QED
      BY <2>1, <3>1, <3>2
  <2>3. Len(elections[n]) \in Nat
    BY DEF VoteTypeOK
  <2> DEFINE request(p) == [from |-> n, to |-> p, epoch |-> epoch[n], election |-> Len(elections[n]) + 1,
                             Term |-> currentTerm[n] + 1, LastLogIndex |-> LastIndex(logs[n]),
                             LastLogTerm |-> LastTerm(logs[n])]
             ballot == [voter |-> n, term |-> currentTerm[n] + 1, candidate |-> n]
  <2>4. /\ role' = [role EXCEPT ![n] = CANDIDATE]
        /\ currentTerm' = [currentTerm EXCEPT ![n] = currentTerm[n] + 1]
        /\ votedFor' = [votedFor EXCEPT ![n] = n]
        /\ voteRequests' = voteRequests \cup {request(p) : p \in Server \ {n}}
        /\ ballots' = ballots \cup {ballot}
        /\ UNCHANGED <<voteReplies, epoch, leaders>>
    BY ZenonT(60), <1>4 DEF ElectionTimeout, faults
  <2>5. \A m \in voteRequests' :
          /\ m.from \in Server /\ m.to \in Server /\ m.from # m.to
          /\ m.epoch \in Nat /\ m.election \in Nat /\ m.Term \in Nat
    <3> SUFFICES ASSUME NEW m \in voteRequests'
                 PROVE  /\ m.from \in Server /\ m.to \in Server /\ m.from # m.to
                        /\ m.epoch \in Nat /\ m.election \in Nat /\ m.Term \in Nat
      OBVIOUS
    <3>1. epoch[n] \in Nat /\ currentTerm[n] \in Nat
      BY Zenon DEF VoteTypeOK
    <3>2. CASE m \in voteRequests
      BY Zenon, <3>2 DEF VoteTypeOK
    <3>3. CASE \E p \in Server \ {n} : m = request(p)
      <4>1. PICK p \in Server \ {n} : m = request(p)
        BY <3>3
      <4>2. /\ m.from = n /\ m.to = p /\ m.epoch = epoch[n]
            /\ m.election = Len(elections[n]) + 1 /\ m.Term = currentTerm[n] + 1
        BY Zenon, <4>1
      <4>3. Len(elections[n]) + 1 \in Nat /\ currentTerm[n] + 1 \in Nat
        BY <2>3, <3>1
      <4>4. QED
        BY Zenon, <3>1, <4>2, <4>3
    <3> HIDE DEF request
    <3>4. QED
      BY Zenon, <2>4, <3>2, <3>3
  <2>6. ballots' \subseteq BallotRecord
    <3>1. ballots \subseteq BallotRecord /\ currentTerm[n] \in Nat
      BY Zenon DEF VoteTypeOK
    <3>2. ballot \in BallotRecord
      BY <3>1 DEF BallotRecord
    <3>3. QED
      BY Zenon, <2>4, <3>1, <3>2
  <2>7. /\ role' \in [Server -> {FOLLOWER, CANDIDATE, LEADER}]
        /\ currentTerm' \in [Server -> Nat]
        /\ votedFor' \in [Server -> Server \cup {None}]
    <3>1. /\ role \in [Server -> {FOLLOWER, CANDIDATE, LEADER}]
          /\ currentTerm \in [Server -> Nat]
          /\ votedFor \in [Server -> Server \cup {None}]
      BY Zenon DEF VoteTypeOK
    <3>2. QED
      BY <2>4, <3>1
  <2>8. epoch' \in [Server -> Nat] /\ voteReplies' \subseteq VoteReplyRecord
        /\ leaders' \subseteq [server : Server, term : Nat]
    BY <2>4 DEF VoteTypeOK
  <2>9. QED
    BY ZenonT(60), <2>2, <2>5, <2>6, <2>7, <2>8 DEF VoteTypeOK
<1>5. CASE VoteRequested(n)
  <2>1. PICK m \in voteRequests : RefuseVote(n, m) \/ RequestVote(n, m)
    BY <1>5 DEF VoteRequested
  <2>2. CASE RefuseVote(n, m)
    <3>1. voteRequests' \subseteq voteRequests /\ voteReplies' \subseteq VoteReplyRecord
      BY ZenonT(60), <2>1, <2>2, ReplyVoteType DEF RefuseVote, VoteTypeOK
    <3>2. UNCHANGED <<serverVars, epoch, votes>>
      BY <2>2 DEF RefuseVote, faults
    <3>3. QED
      BY Zenon, <3>1, <3>2 DEF VoteTypeOK, serverVars, votes
  <2>3. CASE RequestVote(n, m)
    <3> DEFINE newer == m.Term > currentTerm[n]
               grant == UpToDate(m.LastLogTerm, m.LastLogIndex, logs[n])
               vote  == IF grant THEN m.from ELSE IF newer THEN None ELSE votedFor[n]
    <3>1. grant \in BOOLEAN
      BY ZenonT(60) DEF UpToDate
    <3>3. vote \in Server \cup {None} /\ m.Term \in Nat /\ m.from \in Server
      BY ZenonT(60), <2>1 DEF VoteTypeOK
    <3>2. voteRequests' \subseteq voteRequests /\ voteReplies' \subseteq VoteReplyRecord
      <4>1. ReplyVote(m, m.Term, grant)
        BY ZenonT(60), <2>3 DEF RequestVote
      <4> HIDE DEF grant
      <4>2. QED
        BY ZenonT(60), <2>1, <3>1, <3>3, <4>1, ReplyVoteType
    <3>4. /\ role' = [role EXCEPT ![n] = IF newer THEN FOLLOWER ELSE @]
          /\ currentTerm' = [currentTerm EXCEPT ![n] = m.Term]
          /\ votedFor' = [votedFor EXCEPT ![n] = vote]
          /\ UNCHANGED <<elections, epoch, leaders>>
          /\ ballots' \subseteq ballots \cup {Ballot(n, m.Term, m.from)}
      BY ZenonT(60), <2>3 DEF RequestVote, faults, Ballot
    <3> HIDE DEF newer, grant, vote
    <3>5. ballots' \subseteq BallotRecord
      <4>1. Ballot(n, m.Term, m.from) \in BallotRecord
        BY <3>3 DEF Ballot, BallotRecord
      <4>2. ballots \subseteq BallotRecord
        BY Zenon DEF VoteTypeOK
      <4>3. QED
        BY Zenon, <3>4, <4>1, <4>2
    <3>6. QED
      BY Zenon, <3>2, <3>3, <3>4, <3>5 DEF VoteTypeOK
  <2>4. QED
    BY <2>1, <2>2, <2>3
<1>6. CASE VoteReplied(n)
  <2>1. PICK m \in voteReplies : HigherVoteReply(n, m) \/ CountVote(n, m) \/ BecomeLeader(n, m)
    BY <1>6 DEF VoteReplied
  <2>2. CASE HigherVoteReply(n, m)
    BY Zenon, <2>1, <2>2 DEF HigherVoteReply, SetNewTerm, VoteTypeOK, VoteReplyRecord, faults
  <2>3. CASE CountVote(n, m)
    <3> DEFINE s == elections[n]
               r == [s[m.election] EXCEPT !.Granted = @ \cup {m.to}]
    <3>a. s \in Seq(ElectionRecord) /\ m.to \in Server
      BY <2>1 DEF VoteTypeOK, VoteReplyRecord
    <3>b. m.election \in DOMAIN s => r \in ElectionRecord
      <4>1. m.election \in DOMAIN s => s[m.election] \in ElectionRecord
        BY <3>a
      <4>2. QED
        BY ZenonT(60), <3>a, <4>1 DEF ElectionRecord
    <3>c. elections' = [elections EXCEPT ![n] = [s EXCEPT ![m.election] = r]]
      BY ZenonT(60), <2>3 DEF CountVote, VoteTypeOK
    <3>1. elections' \in [Server -> Seq(ElectionRecord)]
      <4>1. [s EXCEPT ![m.election] = r] \in Seq(ElectionRecord)
        <5> HIDE DEF s, r
        <5>1. QED
          BY Zenon, <3>a, <3>b, SeqUpdate
      <4> HIDE DEF s, r
      <4>2. QED
        BY <3>c, <4>1 DEF VoteTypeOK
    <3>2. QED
      BY ZenonT(60), <2>3, <3>1 DEF CountVote, VoteTypeOK, faults, votes
  <2>4. CASE BecomeLeader(n, m)
    <3> DEFINE s == elections[n]
               r == [Term |-> s[m.election].Term,
                     Granted |-> s[m.election].Granted \cup {m.to}, Won |-> TRUE]
    <3>a. s \in Seq(ElectionRecord) /\ m.to \in Server
      BY <2>1 DEF VoteTypeOK, VoteReplyRecord
    <3>b. m.election \in DOMAIN s => r \in ElectionRecord
      <4>1. m.election \in DOMAIN s => s[m.election] \in ElectionRecord
        BY <3>a
      <4>2. QED
        BY ZenonT(60), <3>a, <4>1 DEF ElectionRecord
    <3>c. elections' = [elections EXCEPT ![n] = [s EXCEPT ![m.election] = r]]
      BY ZenonT(60), <2>4 DEF BecomeLeader, VoteTypeOK
    <3>1. elections' \in [Server -> Seq(ElectionRecord)]
      <4>1. [s EXCEPT ![m.election] = r] \in Seq(ElectionRecord)
        <5> HIDE DEF s, r
        <5>1. QED
          BY Zenon, <3>a, <3>b, SeqUpdate
      <4> HIDE DEF s, r
      <4>2. QED
        BY <3>c, <4>1 DEF VoteTypeOK
    <3>2. /\ role' = [role EXCEPT ![n] = LEADER]
          /\ voteReplies' = voteReplies \ {m}
          /\ leaders' = leaders \cup {[server |-> n, term |-> currentTerm[n]]}
          /\ UNCHANGED <<currentTerm, votedFor, epoch, voteRequests, ballots>>
      BY ZenonT(60), <2>4 DEF BecomeLeader, faults
    <3>3. role' \in [Server -> {FOLLOWER, CANDIDATE, LEADER}] /\ voteReplies' \subseteq VoteReplyRecord
      BY <3>2 DEF VoteTypeOK
    <3>4. leaders' \subseteq [server : Server, term : Nat]
      <4>1. leaders \subseteq [server : Server, term : Nat] /\ currentTerm[n] \in Nat
        BY DEF VoteTypeOK
      <4>2. [server |-> n, term |-> currentTerm[n]] \in [server : Server, term : Nat]
        BY ZenonT(60), <4>1
      <4>3. QED
        BY ZenonT(60), <3>2, <4>1, <4>2
    <3>5. QED
      BY ZenonT(60), <3>1, <3>2, <3>3, <3>4 DEF VoteTypeOK
  <2>5. QED
    BY <2>1, <2>2, <2>3, <2>4
<1>7. CASE Remake(n)
  <2>1. persisted[n].Term = currentTerm[n] /\ persisted[n].Vote = votedFor[n]
    BY DEF DurableInv, Durable
  <2>2. /\ role' = [role EXCEPT ![n] = FOLLOWER]
        /\ currentTerm' = [currentTerm EXCEPT ![n] = currentTerm[n]]
        /\ votedFor' = [votedFor EXCEPT ![n] = votedFor[n]]
        /\ elections' = [elections EXCEPT ![n] = <<>>]
        /\ epoch' = [epoch EXCEPT ![n] = @ + 1]
        /\ voteReplies' \subseteq voteReplies
        /\ UNCHANGED <<voteRequests, votes>>
    BY <1>7, <2>1 DEF Remake, RepliesOfOthers
  <2>3. elections' \in [Server -> Seq(ElectionRecord)]
    <3>1. elections \in [Server -> Seq(ElectionRecord)]
      BY Zenon DEF VoteTypeOK
    <3>2. QED
      BY <2>2, <3>1
  <2>4. role' \in [Server -> {FOLLOWER, CANDIDATE, LEADER}] /\ epoch' \in [Server -> Nat]
    <3>1. role \in [Server -> {FOLLOWER, CANDIDATE, LEADER}] /\ epoch \in [Server -> Nat]
      BY Zenon DEF VoteTypeOK
    <3>2. QED
      BY <2>2, <3>1
  <2>5. UNCHANGED <<currentTerm, votedFor>>
    BY Zenon, <2>2 DEF VoteTypeOK
  <2>6. QED
    BY Zenon, <2>2, <2>3, <2>4, <2>5 DEF VoteTypeOK, votes
<1>8. QED
  BY ZenonT(60), <1>1, <1>2, <1>3, <1>4, <1>5, <1>6, <1>7 DEF Kinds

(* What AppendEntries answers carries a term *)
LEMMA AnswerTerm ==
  ASSUME VoteTypeOK, CarriedTermOK, NEW n \in Server, NEW m \in appendRequests
  PROVE  AppendAnswer(n, m).rTerm \in Nat
<1>1. m.Term \in Nat /\ currentTerm[n] \in Nat
  BY DEF CarriedTermOK, VoteTypeOK
<1>2. CASE m.Term # currentTerm[n]
  BY <1>1, <1>2 DEF AppendAnswer
<1>3. CASE m.Term = currentTerm[n] /\ Matches(n, m)
  BY <1>1, <1>3 DEF AppendAnswer
<1>4. CASE m.Term = currentTerm[n] /\ ~Matches(n, m)
  BY <1>1, <1>4 DEF AppendAnswer
<1>5. QED
  BY ZenonT(60), <1>2, <1>3, <1>4

(* What appendEntries sends carries the term of the sender *)
LEMMA BroadcastTerm ==
  ASSUME CarriedTermOK, NEW n, NEW heartbeat, NEW term \in Nat, NEW log, NEW next, NEW commit,
         BroadcastAppend(n, heartbeat, term, log, next, commit),
         UNCHANGED <<appendReplies, snapReplies>>
  PROVE  CarriedTermOK'
<1>1. \A m \in AppendsDue(n, heartbeat, term, log, next, commit) : m.Term = term
  BY DEF AppendsDue, AppendArgs
<1>2. \A m \in SnapshotsDue(n, heartbeat, term, log, next) : m.Term = term
  BY DEF SnapshotsDue, SnapshotArgs
<1>3. QED
  BY ZenonT(60), <1>1, <1>2 DEF BroadcastAppend, CarriedTermOK

(* Every message of log replication and of snapshots carries a term *)
LEMMA CarriedTermStep ==
  ASSUME VoteTypeOK, CarriedTermOK, [Next]_vars
  PROVE  CarriedTermOK'
<1> DEFINE Quiet == UNCHANGED <<appendRequests, appendReplies, snapRequests, snapReplies>>
<1>0. Quiet => CarriedTermOK'
  BY DEF CarriedTermOK
<1>1. CASE UNCHANGED vars
  BY ZenonT(60), <1>0, <1>1 DEF vars, appendNet, snapNet
<1>2. ASSUME NEW n \in Server, ServerStep(n)
      PROVE  CarriedTermOK'
  <2>1. currentTerm[n] \in Nat
    BY DEF VoteTypeOK
  <2>2. CASE Heartbeat(n)
    BY Zenon, <2>1, <2>2, BroadcastTerm DEF Heartbeat
  <2>3. CASE \E c \in Command : Start(n, c)
    BY ZenonT(60), <2>1, <2>3, BroadcastTerm DEF Start
  <2>4. CASE ElectionTimeout(n) \/ Snapshot(n) \/ Collect(n) \/ Deliver(n) \/ Finish(n)
             \/ \E s \in pendingSnaps[n] : RejectSnapshot(n, s) \/ CondInstallSnapshot(n, s)
    BY ZenonT(60), <1>0, <2>4 DEF ElectionTimeout, Snapshot, Collect, Deliver, Finish, RejectSnapshot,
                      CondInstallSnapshot, appendNet, snapNet
  <2>5. CASE Restart(n)
    BY <2>5 DEF Restart, Remake, RepliesOfOthers, CarriedTermOK
  <2>6. QED
    BY ZenonT(60), <1>2, <2>2, <2>3, <2>4, <2>5 DEF ServerStep
<1>3. ASSUME NEW n \in Server, RequestStep(n)
      PROVE  CarriedTermOK'
  <2>1. CASE VoteRequested(n)
    BY ZenonT(60), <1>0, <2>1 DEF VoteRequested, RefuseVote, RequestVote, appendNet, snapNet
  <2>2. CASE \E m \in appendRequests : RefuseAppend(n, m) \/ AdoptTerm(n, m)
                                      \/ AppendMismatch(n, m) \/ AppendEntries(n, m)
    <3>1. PICK m \in appendRequests : RefuseAppend(n, m) \/ AdoptTerm(n, m)
                                      \/ AppendMismatch(n, m) \/ AppendEntries(n, m)
      BY <2>2
    <3>2. ReplyAppend(n, m) /\ UNCHANGED <<appendRequests, snapNet>>
      BY Zenon, <3>1 DEF RefuseAppend, AdoptTerm, AppendMismatch, AppendEntries
    <3>3. AppendAnswer(n, m).rTerm \in Nat
      BY AnswerTerm
    <3>4. appendReplies' \subseteq appendReplies \cup {AppendAnswer(n, m)}
      BY ZenonT(60), <3>2 DEF ReplyAppend
    <3>5. QED
      BY <3>2, <3>3, <3>4 DEF CarriedTermOK, snapNet
  <2>3. CASE \E m \in snapRequests : RefuseSnapshot(n, m) \/ InstallSnapshot(n, m)
    BY <2>3 DEF RefuseSnapshot, InstallSnapshot, ReplySnapshot, CarriedTermOK, VoteTypeOK, appendNet
  <2>4. QED
    BY <1>3, <2>1, <2>2, <2>3 DEF RequestStep, VoteRequested
<1>4. ASSUME NEW n \in Server, ReplyStep(n)
      PROVE  CarriedTermOK'
  <2>1. CASE \E m \in voteReplies : HigherVoteReply(n, m) \/ CountVote(n, m)
    BY <1>0, <2>1 DEF HigherVoteReply, CountVote, appendNet, snapNet
  <2>2. CASE \E m \in voteReplies : BecomeLeader(n, m)
    BY ZenonT(60), <2>2, BroadcastTerm DEF BecomeLeader, VoteTypeOK
  <2>3. CASE \E m \in appendReplies : AppendReplyNewTerm(n, m)
    BY ZenonT(60), <1>0, <2>3 DEF AppendReplyNewTerm, appendNet, snapNet
  <2>4. CASE \E m \in appendReplies : AppendReply(n, m)
    BY <2>4 DEF AppendReply, UpdateIndexes, Remake, RepliesOfOthers, CarriedTermOK, snapNet
  <2>5. CASE \E m \in snapReplies : SnapshotReply(n, m)
    BY <2>5 DEF SnapshotReply, CarriedTermOK, appendNet
  <2>6. QED
    BY ZenonT(60), <1>4, <2>1, <2>2, <2>3, <2>4, <2>5 DEF ReplyStep
<1>5. QED
  BY <1>1, <1>2, <1>3, <1>4 DEF Next

-----------------------------------------------------------------------------
(* Durability *)

(* A handler that persists what it leaves in the three fields keeps Durable *)
LEMMA PersistKeepsDurable ==
  ASSUME VoteTypeOK, DurableInv, NEW n \in Server, NEW term, NEW vote, NEW log,
         Persist(n, term, vote, log),
         currentTerm' = [currentTerm EXCEPT ![n] = term],
         votedFor' = [votedFor EXCEPT ![n] = vote],
         logs' = [logs EXCEPT ![n] = log]
  PROVE  DurableInv'
BY ZenonT(60) DEF VoteTypeOK, DurableInv, Durable, Persist

(* In every step the persister follows the server *)
LEMMA DurableStep ==
  ASSUME VoteTypeOK, DurableInv, [Next]_vars
  PROVE  DurableInv'
<1> DEFINE Quiet == UNCHANGED <<currentTerm, votedFor, logs, persisted>>
<1>q. Quiet => DurableInv'
  BY DEF DurableInv, Durable
<1>s. ASSUME NEW n \in Server, NEW term, SetNewTerm(n, term), UNCHANGED logs
      PROVE  DurableInv'
  <2>1. logs' = [logs EXCEPT ![n] = logs[n]]
    BY <1>s DEF DurableInv
  <2>2. QED
    BY Zenon, <1>s, <2>1, PersistKeepsDurable DEF SetNewTerm
<1>l. ASSUME NEW n \in Server, NEW log, Persist(n, currentTerm[n], votedFor[n], log),
             UNCHANGED <<currentTerm, votedFor>>, logs' = [logs EXCEPT ![n] = log]
      PROVE  DurableInv'
  <2>1. /\ currentTerm' = [currentTerm EXCEPT ![n] = currentTerm[n]]
        /\ votedFor' = [votedFor EXCEPT ![n] = votedFor[n]]
    BY <1>l DEF VoteTypeOK
  <2>2. QED
    BY ZenonT(60), <1>l, <2>1, PersistKeepsDurable
<1>r. ASSUME NEW n \in Server, Remake(n)
      PROVE  DurableInv'
  <2>1. persisted[n] = [Term |-> currentTerm[n], Vote |-> votedFor[n], Log |-> logs[n]]
    BY ZenonT(60) DEF DurableInv, Durable
  <2>2. Quiet
    <3>1. /\ currentTerm' = [currentTerm EXCEPT ![n] = currentTerm[n]]
          /\ votedFor' = [votedFor EXCEPT ![n] = votedFor[n]]
          /\ logs' = [logs EXCEPT ![n] = logs[n]]
          /\ persisted' = persisted
      BY <1>r, <2>1 DEF Remake, storage
    <3>2. currentTerm' = currentTerm
      BY <3>1 DEF VoteTypeOK
    <3>3. votedFor' = votedFor
      BY <3>1 DEF VoteTypeOK
    <3>4. logs' = logs
      BY <3>1 DEF DurableInv
    <3>5. QED
      BY Zenon, <3>1, <3>2, <3>3, <3>4
  <2>3. QED
    BY <1>q, <2>2
<1>1. CASE UNCHANGED vars
  BY ZenonT(60), <1>q, <1>1 DEF vars, serverVars, logVars, storage
<1>2. ASSUME NEW n \in Server, ServerStep(n)
      PROVE  DurableInv'
  <2>1. CASE Heartbeat(n) \/ Collect(n) \/ Deliver(n) \/ Finish(n)
             \/ \E s \in pendingSnaps[n] : RejectSnapshot(n, s)
    BY Zenon, <1>q, <2>1 DEF Heartbeat, Collect, Deliver, Finish, RejectSnapshot, serverVars,
                      logVars, storage
  <2>2. CASE ElectionTimeout(n)
    <3>1. logs' = [logs EXCEPT ![n] = logs[n]]
      BY <2>2 DEF ElectionTimeout, logVars, DurableInv
    <3>2. QED
      BY ZenonT(60), <2>2, <3>1, PersistKeepsDurable DEF ElectionTimeout
  <2>3. CASE \E c \in Command : Start(n, c)
    BY Zenon, <1>l, <2>3 DEF Start, serverVars
  <2>4. CASE Snapshot(n)
    BY Zenon, <1>l, <2>4 DEF Snapshot, SaveStateAndSnapshot, serverVars
  <2>5. CASE \E s \in pendingSnaps[n] : CondInstallSnapshot(n, s)
    BY ZenonT(60), <1>l, <2>5 DEF CondInstallSnapshot, SaveStateAndSnapshot, serverVars
  <2>6. CASE Restart(n)
    BY <1>r, <2>6 DEF Restart
  <2>7. QED
    BY <1>2, <2>1, <2>2, <2>3, <2>4, <2>5, <2>6 DEF ServerStep
<1>3. ASSUME NEW n \in Server, RequestStep(n)
      PROVE  DurableInv'
  <2>1. CASE \E m \in voteRequests : RefuseVote(n, m)
    BY ZenonT(60), <1>q, <2>1 DEF RefuseVote, serverVars, logVars, storage
  <2>2. CASE \E m \in voteRequests : RequestVote(n, m)
    <3>1. PICK m \in voteRequests : RequestVote(n, m)
      BY <2>2
    <3> DEFINE newer == m.Term > currentTerm[n]
               grant == UpToDate(m.LastLogTerm, m.LastLogIndex, logs[n])
               vote  == IF grant THEN m.from ELSE IF newer THEN None ELSE votedFor[n]
    <3>2. /\ currentTerm' = [currentTerm EXCEPT ![n] = m.Term]
          /\ votedFor' = [votedFor EXCEPT ![n] = vote]
          /\ UNCHANGED logs
          /\ IF newer \/ grant THEN Persist(n, m.Term, vote, logs[n]) ELSE UNCHANGED persisted
      BY Zenon, <3>1 DEF RequestVote, logVars
    <3>3. CASE newer \/ grant
      <4>1. logs' = [logs EXCEPT ![n] = logs[n]]
        BY ZenonT(60), <3>2 DEF DurableInv
      <4> HIDE DEF newer, grant, vote
      <4>2. QED
        BY ZenonT(60), <3>2, <3>3, <4>1, PersistKeepsDurable
    <3>4. CASE ~newer /\ ~grant
      <4>1. m.Term = currentTerm[n]
        <5>1. ~VoteRefused(n, m)
          BY ZenonT(60), <3>1 DEF RequestVote
        <5>2. m.Term \in Nat /\ currentTerm[n] \in Nat
          BY DEF VoteTypeOK
        <5>3. QED
          BY <3>4, <5>1, <5>2 DEF VoteRefused
      <4>2. vote = votedFor[n]
        BY <3>4
      <4> HIDE DEF newer, grant, vote
      <4>3. QED
        BY ZenonT(60), <1>q, <3>2, <3>4, <4>1, <4>2 DEF VoteTypeOK
    <3>5. QED
      BY <3>3, <3>4
  <2>3. CASE \E m \in appendRequests : RefuseAppend(n, m) \/ AppendMismatch(n, m)
    BY Zenon, <1>q, <2>3 DEF RefuseAppend, AppendMismatch, serverVars, logVars, storage
  <2>4. CASE \E m \in appendRequests : AdoptTerm(n, m)
    BY Zenon, <1>s, <2>4 DEF AdoptTerm, logVars
  <2>5. CASE \E m \in appendRequests : AppendEntries(n, m)
    <3>1. PICK m \in appendRequests : AppendEntries(n, m)
      BY <2>5
    <3>2. CASE NewEntries(logs[n], m.Entries) # {}
      BY ZenonT(60), <1>l, <3>1, <3>2 DEF AppendEntries
    <3>3. CASE NewEntries(logs[n], m.Entries) = {}
      <4>1. MergeEntries(logs[n], m.Entries) = logs[n]
        BY <3>3 DEF MergeEntries
      <4>2. QED
        BY <1>q, <3>1, <3>3, <4>1 DEF AppendEntries, DurableInv
    <3>4. QED
      BY <3>2, <3>3
  <2>6. CASE \E m \in snapRequests : RefuseSnapshot(n, m)
    BY ZenonT(60), <1>q, <2>6 DEF RefuseSnapshot, serverVars, logVars, storage
  <2>7. CASE \E m \in snapRequests : InstallSnapshot(n, m)
    BY <1>q, <1>s, <2>7 DEF InstallSnapshot, logVars
  <2>8. QED
    BY ZenonT(60), <1>3, <2>1, <2>2, <2>3, <2>4, <2>5, <2>6, <2>7 DEF RequestStep
<1>4. ASSUME NEW n \in Server, ReplyStep(n)
      PROVE  DurableInv'
  <2>1. CASE \E m \in voteReplies : HigherVoteReply(n, m)
    BY <1>s, <2>1 DEF HigherVoteReply, logVars
  <2>2. CASE \E m \in voteReplies : CountVote(n, m) \/ BecomeLeader(n, m)
    BY ZenonT(60), <1>q, <2>2 DEF CountVote, BecomeLeader, logVars, storage
  <2>3. CASE \E m \in appendReplies : AppendReplyNewTerm(n, m)
    BY ZenonT(60), <1>s, <2>3 DEF AppendReplyNewTerm, logVars
  <2>4. CASE \E m \in appendReplies : AppendReply(n, m)
    BY ZenonT(60), <1>q, <1>r, <2>4 DEF AppendReply, UpdateIndexes, serverVars, storage
  <2>5. CASE \E m \in snapReplies : SnapshotReply(n, m)
    BY <1>q, <1>s, <2>5 DEF SnapshotReply, logVars
  <2>6. QED
    BY ZenonT(60), <1>4, <2>1, <2>2, <2>3, <2>4, <2>5 DEF ReplyStep
<1>5. QED
  BY <1>1, <1>2, <1>3, <1>4 DEF Next

-----------------------------------------------------------------------------
(* What is invariant with or without late rejections *)
BaseInv == VoteTypeOK /\ CarriedTermOK /\ DurableInv

(* Make on an empty persister satisfies BaseInv *)
LEMMA InitBase ==
  Init => BaseInv
<1> SUFFICES ASSUME Init
             PROVE  BaseInv
  OBVIOUS
<1>1. VoteTypeOK
  <2>1. /\ role = [n \in Server |-> FOLLOWER]
        /\ currentTerm = [n \in Server |-> 0]
        /\ votedFor = [n \in Server |-> None]
        /\ elections = [n \in Server |-> <<>>]
        /\ epoch = [n \in Server |-> 0]
        /\ voteRequests = {} /\ voteReplies = {} /\ ballots = {} /\ leaders = {}
    BY ZenonT(60) DEF Init
  <2>2. QED
    BY <2>1 DEF VoteTypeOK
<1>2. CarriedTermOK
  BY ZenonT(60) DEF Init, CarriedTermOK
<1>3. DurableInv
  BY DEF Init, DurableInv, Durable
<1>4. QED
  BY <1>1, <1>2, <1>3 DEF BaseInv

(* BaseInv is inductive *)
LEMMA BaseInvStep ==
  BaseInv /\ [Next]_vars => BaseInv'
<1> SUFFICES ASSUME BaseInv, [Next]_vars
             PROVE  BaseInv'
  OBVIOUS
<1>0. VoteTypeOK /\ CarriedTermOK /\ DurableInv
  BY DEF BaseInv
<1>1. CarriedTermOK'
  BY <1>0, CarriedTermStep
<1>2. DurableInv'
  BY <1>0, DurableStep
<1>3. VoteTypeOK'
  <2>1. CASE Neutral
    BY <1>0, <2>1 DEF VoteTypeOK, Neutral, serverVars, voteNet, votes
  <2>2. CASE \E n \in Server : Kinds(n)
    BY <1>0, <2>2, VoteTypeStep
  <2>3. QED
    BY ZenonT(60), <1>0, <2>1, <2>2, StepKinds
<1>4. QED
  BY <1>1, <1>2, <1>3 DEF BaseInv

(* The types of everything the elections depend on, and of the terms in every
   message, for any servers, bounds and network, late rejections included *)
THEOREM VoteTypes ==
  Spec => [](VoteTypeOK /\ CarriedTermOK)
<1>1. Init => BaseInv
  BY InitBase
<1>2. BaseInv => VoteTypeOK /\ CarriedTermOK
  BY DEF BaseInv
<1>3. QED
  BY <1>1, <1>2, BaseInvStep, PTL DEF Spec

(* Durable, for every behaviour of the model: at the end of every handler the
   persister holds the term, the vote and the log of the server *)
THEOREM DurableAlways ==
  Spec => []Durable
<1>1. Init => BaseInv
  BY InitBase
<1>2. BaseInv => Durable
  BY DEF BaseInv, DurableInv
<1>3. QED
  BY <1>1, <1>2, BaseInvStep, PTL DEF Spec

=============================================================================
