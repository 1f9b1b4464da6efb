-------------------------------- MODULE Raft --------------------------------
(***************************************************************************)
(* The Raft servers of src/src/raft, the labrpc network between them, the  *)
(* persister under each of them and the service above each of them.        *)
(*                                                                         *)
(* Every handler runs under rf.mu from its first to its last line, so one  *)
(* handler is one action.  What runs without the lock is split: an RPC is  *)
(* a request, a handler step and a reply step; the applier collects a      *)
(* batch, pushes its entries one by one and then records how far it got.   *)
(***************************************************************************)
EXTENDS RaftLog, FiniteSets

CONSTANTS
  Server,          \* rf.peers
  None,            \* votedFor = -1
  FOLLOWER, CANDIDATE, LEADER,
  Contenders,      \* bound: Contenders[t] are the servers whose election timer may start term t
  Applying,        \* servers whose applier goroutine is scheduled
  Compacting,      \* servers whose service takes snapshots
  LateRejections,  \* whether a vote reply of a later term may come late (see HigherVoteReply)
  MaxIndex,        \* bound: Start is not called on a log that ends here
  MaxCrashes       \* bound: crashes of all the servers together

ASSUME RaftAssumption ==
  /\ IsFiniteSet(Server)
  /\ None \notin Server
  /\ FOLLOWER # CANDIDATE /\ FOLLOWER # LEADER /\ CANDIDATE # LEADER
  /\ Contenders \in Seq(SUBSET Server)
  /\ Applying \subseteq Server /\ Compacting \subseteq Server
  /\ LateRejections \in BOOLEAN
  /\ MaxIndex \in Nat /\ MaxCrashes \in Nat

VARIABLES
  role, currentTerm, votedFor, logs, commitIndex, nextIndex, matchIndex,
  elections,     \* per server, the closures of StartElection, oldest first
  persisted,     \* per server, the Raft state held by its persister
  snapshot,      \* per server, the snapshot held by its persister
  lastApplied,   \* rf.LastApplied
  applier,       \* per server, what is left of the batch being pushed
  pendingSnaps,  \* per server, snapshots whose sender waits on applyCh
  service,       \* per server, the service's lastApplied and its state
  voteRequests, voteReplies,
  appendRequests, appendReplies,
  snapRequests, snapReplies,
  epoch,         \* per server, how many times it has been started again
  crashes, panicked,
  ballots,       \* history: every vote given and not withdrawn
  leaders,       \* history: every server that ever led, with the term
  committed      \* history: every entry a server ever held as committed

serverVars == <<role, currentTerm, votedFor, elections>>
logVars    == <<logs, commitIndex>>
leaderVars == <<nextIndex, matchIndex>>
storage    == <<persisted, snapshot>>
applyVars  == <<lastApplied, applier, pendingSnaps, service>>
voteNet    == <<voteRequests, voteReplies>>
appendNet  == <<appendRequests, appendReplies>>
snapNet    == <<snapRequests, snapReplies>>
faults     == <<epoch, crashes, panicked>>
votes      == <<ballots, leaders>>

vars == <<serverVars, logVars, leaderVars, storage, applyVars,
          voteNet, appendNet, snapNet, faults, votes, committed>>

Majority(S) == Cardinality(S) > Cardinality(Server) \div 2

Idle == [Entries |-> <<>>, UpTo |-> 0]

(***************************************************************************)
(* Make on an empty persister.                                             *)
(***************************************************************************)
Init ==
  /\ role = [n \in Server |-> FOLLOWER]
  /\ currentTerm = [n \in Server |-> 0]
  /\ votedFor = [n \in Server |-> None]
  /\ elections = [n \in Server |-> <<>>]
  /\ logs = [n \in Server |-> EmptyLog]
  /\ commitIndex = [n \in Server |-> 0]
  /\ nextIndex = [n \in Server |-> [p \in Server |-> 0]]
  /\ matchIndex = [n \in Server |-> [p \in Server |-> 0]]
  /\ persisted = [n \in Server |-> [Term |-> 0, Vote |-> None, Log |-> EmptyLog]]
  /\ snapshot = [n \in Server |-> <<>>]
  /\ lastApplied = [n \in Server |-> 0]
  /\ applier = [n \in Server |-> Idle]
  /\ pendingSnaps = [n \in Server |-> {}]
  /\ service = [n \in Server |-> [LastApplied |-> 0, State |-> <<>>]]
  /\ voteRequests = {} /\ voteReplies = {}
  /\ appendRequests = {} /\ appendReplies = {}
  /\ snapRequests = {} /\ snapReplies = {}
  /\ epoch = [n \in Server |-> 0] /\ crashes = 0 /\ panicked = FALSE
  /\ ballots = {} /\ leaders = {}
  /\ committed = {}

-----------------------------------------------------------------------------
(* The persister *)

(* persist(): the three persistent fields, as they are when it is called *)
Persist(n, term, vote, log) ==
  persisted' = [persisted EXCEPT ![n] = [Term |-> term, Vote |-> vote, Log |-> log]]

(* persister.SaveStateAndSnapshot *)
SaveStateOnly(n, log, data) ==   \* mutant: persist() instead
  Persist(n, currentTerm[n], votedFor[n], log) /\ UNCHANGED snapshot

SaveStateAndSnapshot(n, log, data) ==
  /\ Persist(n, currentTerm[n], votedFor[n], log)
  /\ snapshot' = [snapshot EXCEPT ![n] = data]

(* setNewTerm(term) *)
SetNewTermUnsaved(n, term) ==   \* mutant: no persist()
  /\ currentTerm' = [currentTerm EXCEPT ![n] = term]
  /\ role' = [role EXCEPT ![n] = FOLLOWER]
  /\ votedFor' = [votedFor EXCEPT ![n] = None]
  /\ UNCHANGED persisted

SetNewTerm(n, term) ==
  /\ currentTerm' = [currentTerm EXCEPT ![n] = term]
  /\ role' = [role EXCEPT ![n] = FOLLOWER]
  /\ votedFor' = [votedFor EXCEPT ![n] = None]
  /\ Persist(n, term, None, logs[n])

-----------------------------------------------------------------------------
(* Crashes *)

(* the goroutine that sent request m still waits for its reply *)
Awaited(m) == m.epoch = epoch[m.from]

RepliesOfOthers(replies, n) == {m \in replies : m.from # n}

(* readPersist: commitIndex is where the log read back begins *)
RestoredCommitLast(log) == LastIndex(log)   \* mutant: where it ends

RestoredCommit(log) == FirstIndex(log)

(* what the service starts with: the state in the snapshot, and lastApplied 0 *)
Restored(n) == [LastApplied |-> 0, State |-> snapshot[n]]

(***************************************************************************)
(* Server n dies and Make starts it again from its persister; a server     *)
(* that stays down is one that takes no more steps.  Requests under way    *)
(* may still arrive, but nobody is left to take their replies.             *)
(***************************************************************************)
Remake(n) ==
  LET saved == persisted[n]
  IN  /\ role' = [role EXCEPT ![n] = FOLLOWER]
      /\ currentTerm' = [currentTerm EXCEPT ![n] = saved.Term]
      /\ votedFor' = [votedFor EXCEPT ![n] = saved.Vote]
      /\ logs' = [logs EXCEPT ![n] = saved.Log]
      /\ commitIndex' = [commitIndex EXCEPT ![n] = RestoredCommit(saved.Log)]
      /\ lastApplied' = [lastApplied EXCEPT ![n] = FirstIndex(saved.Log)]
      /\ nextIndex' = [nextIndex EXCEPT ![n] = [p \in Server |-> 0]]
      /\ matchIndex' = [matchIndex EXCEPT ![n] = [p \in Server |-> 0]]
      /\ elections' = [elections EXCEPT ![n] = <<>>]
      /\ applier' = [applier EXCEPT ![n] = Idle]
      /\ pendingSnaps' = [pendingSnaps EXCEPT ![n] = {}]
      /\ service' = [service EXCEPT ![n] = Restored(n)]
      /\ epoch' = [epoch EXCEPT ![n] = @ + 1]
      /\ voteReplies' = RepliesOfOthers(voteReplies, n)
      /\ appendReplies' = RepliesOfOthers(appendReplies, n)
      /\ snapReplies' = RepliesOfOthers(snapReplies, n)
      /\ UNCHANGED <<storage, voteRequests, appendRequests, snapRequests, votes, committed>>

Restart(n) ==
  /\ crashes < MaxCrashes
  /\ crashes' = crashes + 1
  /\ UNCHANGED panicked
  /\ Remake(n)

-----------------------------------------------------------------------------
(* Sending: appendEntries(heartbeat) *)

AppendArgs(n, p, term, log, next, commit) ==
  [from |-> n, to |-> p, epoch |-> epoch[n], Term |-> term,
   PrevLogIndex |-> EntryAt(log, next - 1).Index,
   PrevLogTerm |-> TermAt(log, next - 1),
   Entries |-> Slice(log, next, LastIndex(log)),
   LeaderCommit |-> commit]

SnapshotArgs(n, p, term, log) ==
  [from |-> n, to |-> p, epoch |-> epoch[n], Term |-> term,
   LastIncludedIndex |-> FirstIndex(log),
   LastIncludedTerm |-> log[1].Term,
   Data |-> snapshot[n]]

(***************************************************************************)
(* One request to every peer that is due one: a snapshot when the entry    *)
(* before its nextIndex has been compacted away, else the whole suffix.    *)
(* Requests stay in the set: the ticker sends an unchanged request again   *)
(* every HeartbeatTimeout, so any number of copies may be under way.       *)
(***************************************************************************)
Due(n, heartbeat, log, next) ==
  {p \in Server \ {n} : heartbeat \/ LastIndex(log) >= next[p]}

AppendsDue(n, heartbeat, term, log, next, commit) ==
  {AppendArgs(n, p, term, log, next[p], commit) :
     p \in {q \in Due(n, heartbeat, log, next) : next[q] - 1 >= FirstIndex(log)}}

SnapshotsDue(n, heartbeat, term, log, next) ==
  {SnapshotArgs(n, p, term, log) :
     p \in {q \in Due(n, heartbeat, log, next) : next[q] - 1 < FirstIndex(log)}}

BroadcastAppend(n, heartbeat, term, log, next, commit) ==
  /\ appendRequests' = appendRequests \cup AppendsDue(n, heartbeat, term, log, next, commit)
  /\ snapRequests' = snapRequests \cup SnapshotsDue(n, heartbeat, term, log, next)

(* ticker, heartbeatTimer *)
Heartbeat(n) ==
  /\ role[n] = LEADER
  /\ BroadcastAppend(n, TRUE, currentTerm[n], logs[n], nextIndex[n], commitIndex[n])
  /\ UNCHANGED <<serverVars, logVars, leaderVars, storage, applyVars, voteNet,
                 appendReplies, snapReplies, faults, votes, committed>>

(* Start(command) on the leader *)
Start(n, command) ==
  /\ role[n] = LEADER
  /\ LastIndex(logs[n]) < MaxIndex
  /\ LET log == Append(logs[n], [Index |-> LastIndex(logs[n]) + 1,
                                 Term |-> currentTerm[n], Command |-> command])
     IN  /\ logs' = [logs EXCEPT ![n] = log]
         /\ Persist(n, currentTerm[n], votedFor[n], log)
         /\ BroadcastAppend(n, FALSE, currentTerm[n], log, nextIndex[n], commitIndex[n])
  /\ UNCHANGED <<serverVars, commitIndex, leaderVars, snapshot, applyVars, voteNet,
                 appendReplies, snapReplies, faults, votes, committed>>

-----------------------------------------------------------------------------
(* Elections *)

(* ticker, electionTimer, and StartElection: no role is exempt *)
ElectionTimeout(n) ==
  /\ currentTerm[n] < Len(Contenders)
  /\ n \in Contenders[currentTerm[n] + 1]
  /\ LET term == currentTerm[n] + 1
     IN  /\ role' = [role EXCEPT ![n] = CANDIDATE]
         /\ currentTerm' = [currentTerm EXCEPT ![n] = term]
         /\ votedFor' = [votedFor EXCEPT ![n] = n]
         /\ Persist(n, term, n, logs[n])
         /\ elections' = [elections EXCEPT ![n] =
              Append(@, [Term |-> term, Granted |-> {n}, Won |-> FALSE])]
         /\ voteRequests' = voteRequests \cup
              {[from |-> n, to |-> p, epoch |-> epoch[n], election |-> Len(elections[n]) + 1,
                Term |-> term, LastLogIndex |-> LastIndex(logs[n]),
                LastLogTerm |-> LastTerm(logs[n])] : p \in Server \ {n}}
         /\ ballots' = ballots \cup {[voter |-> n, term |-> term, candidate |-> n]}
  /\ UNCHANGED <<logVars, leaderVars, snapshot, applyVars, voteReplies, appendNet,
                 snapNet, faults, leaders, committed>>

(* the reply reaches the goroutine that called, if its server still runs *)
ReplyVote(m, term, granted) ==
  /\ voteRequests' = voteRequests \ {m}
  /\ voteReplies' = IF Awaited(m)
       THEN voteReplies \cup {[from |-> m.from, to |-> m.to, election |-> m.election,
                               Term |-> m.Term, rTerm |-> term, granted |-> granted]}
       ELSE voteReplies

(* RequestVote, the early return *)
VoteRefusedByTerm(n, m) == m.Term < currentTerm[n]   \* mutant: votedFor is not looked at

VoteRefused(n, m) ==
  \/ m.Term < currentTerm[n]
  \/ m.Term = currentTerm[n] /\ votedFor[n] \notin {None, m.from}

RefuseVote(n, m) ==
  /\ m.to = n
  /\ VoteRefused(n, m)
  /\ ReplyVote(m, currentTerm[n], FALSE)
  /\ UNCHANGED <<serverVars, logVars, leaderVars, storage, applyVars, appendNet,
                 snapNet, faults, votes, committed>>

(* RequestVote, past the early return *)
RequestVote(n, m) ==
  /\ m.to = n
  /\ ~VoteRefused(n, m)
  /\ LET newer == m.Term > currentTerm[n]
         grant == UpToDate(m.LastLogTerm, m.LastLogIndex, logs[n])
         vote  == IF grant THEN m.from ELSE IF newer THEN None ELSE votedFor[n]
     IN  /\ currentTerm' = [currentTerm EXCEPT ![n] = m.Term]
         /\ role' = [role EXCEPT ![n] = IF newer THEN FOLLOWER ELSE @]
         /\ votedFor' = [votedFor EXCEPT ![n] = vote]
         /\ IF newer \/ grant
            THEN Persist(n, m.Term, vote, logs[n])
            ELSE UNCHANGED persisted
         /\ ReplyVote(m, m.Term, grant)
         /\ ballots' = IF grant
              THEN ballots \cup {[voter |-> n, term |-> m.Term, candidate |-> m.from]}
              ELSE ballots
  /\ UNCHANGED <<elections, logVars, leaderVars, snapshot, applyVars, appendNet,
                 snapNet, faults, leaders, committed>>

(***************************************************************************)
(* The reply of a peer that is in a later term.  The candidate calls       *)
(* setNewTerm with its own args.Term, not with reply.Term: whatever it did *)
(* since it sent the request, it is back in that term with no vote cast,   *)
(* and its vote for itself is withdrawn.  LateRejections = FALSE leaves    *)
(* out the replies that come when it is no candidate of that term any      *)
(* more, as if the network had lost them.                                  *)
(***************************************************************************)
HigherVoteReply(n, m) ==
  /\ m.from = n
  /\ m.rTerm > m.Term
  /\ LateRejections \/ (currentTerm[n] = m.Term /\ role[n] = CANDIDATE)
  /\ voteReplies' = voteReplies \ {m}
  /\ SetNewTerm(n, m.Term)
  /\ ballots' = ballots \ {[voter |-> n, term |-> m.Term, candidate |-> n]}
  /\ UNCHANGED <<elections, logVars, leaderVars, snapshot, applyVars, voteRequests,
                 appendNet, snapNet, faults, leaders, committed>>

(* the vote that makes (or that does not make) the candidate leader *)
WinsWith(n, m, granted) ==
  /\ Majority(granted)
  /\ currentTerm[n] = m.Term
  /\ role[n] = CANDIDATE
  /\ ~elections[n][m.election].Won

CountVote(n, m) ==
  /\ m.from = n
  /\ m.rTerm = m.Term /\ m.granted
  /\ ~WinsWith(n, m, elections[n][m.election].Granted \cup {m.to})
  /\ elections' = [elections EXCEPT ![n][m.election].Granted = @ \cup {m.to}]
  /\ voteReplies' = voteReplies \ {m}
  /\ UNCHANGED <<role, currentTerm, votedFor, logVars, leaderVars, storage, applyVars,
                 voteRequests, appendNet, snapNet, faults, votes, committed>>

BecomeLeader(n, m) ==
  /\ m.from = n
  /\ m.rTerm = m.Term /\ m.granted
  /\ LET granted == elections[n][m.election].Granted \cup {m.to}
         next    == [p \in Server |-> LastIndex(logs[n]) + 1]
     IN  /\ WinsWith(n, m, granted)
         /\ elections' = [elections EXCEPT ![n][m.election] =
              [Term |-> @.Term, Granted |-> granted, Won |-> TRUE]]
         /\ nextIndex' = [nextIndex EXCEPT ![n] = next]
         /\ BroadcastAppend(n, TRUE, currentTerm[n], logs[n], next, commitIndex[n])
  /\ role' = [role EXCEPT ![n] = LEADER]
  /\ matchIndex' = [matchIndex EXCEPT ![n] = [p \in Server |-> 0]]
  /\ voteReplies' = voteReplies \ {m}
  /\ leaders' = leaders \cup {[server |-> n, term |-> currentTerm[n]]}
  /\ UNCHANGED <<currentTerm, votedFor, logVars, storage, applyVars, voteRequests,
                 appendReplies, snapReplies, faults, ballots, committed>>

-----------------------------------------------------------------------------
(* Log replication *)

(* history: the entries of log up to commit have been committed by a server *)
RecordCommitted(log, commit) ==
  committed' = committed \cup
    {log[k] : k \in {j \in 2 .. Len(log) : log[j].Index <= commit}}

(* the log holds the entry before the ones sent *)
Matches(n, m) ==
  /\ m.PrevLogIndex \in FirstIndex(logs[n]) .. LastIndex(logs[n])
  /\ TermAt(logs[n], m.PrevLogIndex) = m.PrevLogTerm

(***************************************************************************)
(* What AppendEntries answers: the term it found on entry (0 when the      *)
(* entry before the ones sent has been compacted away), and on a conflict  *)
(* where the leader should look next.  match is what the caller computes   *)
(* from its own args when the answer is a success.                         *)
(***************************************************************************)
AppendAnswer(n, m) ==
  LET log  == logs[n]
      prev == m.PrevLogIndex
      answer(term, success, conflict, xTerm, xIndex, xLen) ==
        [from |-> m.from, to |-> m.to, Term |-> m.Term,
         match |-> prev + Len(m.Entries), rTerm |-> term,
         Success |-> success, Conflict |-> conflict,
         XTerm |-> xTerm, XIndex |-> xIndex, XLen |-> xLen]
      length == Len(log) + FirstIndex(log) - 1
  IN  CASE m.Term # currentTerm[n]  -> answer(currentTerm[n], FALSE, FALSE, 0, 0, 0)
        [] m.Term = currentTerm[n] /\ Matches(n, m)
                                    -> answer(m.Term, TRUE, FALSE, 0, 0, 0)
        [] m.Term = currentTerm[n] /\ prev < FirstIndex(log)
                                    -> answer(0, FALSE, FALSE, 0, 0, 0)
        [] m.Term = currentTerm[n] /\ prev > LastIndex(log)
                                    -> answer(m.Term, FALSE, TRUE, -1, -1, length)
        [] OTHER -> answer(m.Term, FALSE, TRUE, TermAt(log, prev), XIndexOf(log, prev), length)

ReplyAppend(n, m) ==
  appendReplies' = IF Awaited(m) THEN appendReplies \cup {AppendAnswer(n, m)} ELSE appendReplies

(* AppendEntries, args.Term < rf.currentTerm *)
RefuseAppend(n, m) ==
  /\ m.to = n
  /\ m.Term < currentTerm[n]
  /\ ReplyAppend(n, m)
  /\ UNCHANGED <<serverVars, logVars, leaderVars, storage, applyVars, voteNet,
                 appendRequests, snapNet, faults, votes, committed>>

(* AppendEntries, args.Term > rf.currentTerm: only the term is taken over *)
AdoptTerm(n, m) ==
  /\ m.to = n
  /\ m.Term > currentTerm[n]
  /\ SetNewTerm(n, m.Term)
  /\ ReplyAppend(n, m)
  /\ UNCHANGED <<elections, logVars, leaderVars, snapshot, applyVars, voteNet,
                 appendRequests, snapNet, faults, votes, committed>>

(* AppendEntries in the term of the server: a candidate has lost *)
Concede(n) == role' = [role EXCEPT ![n] = IF @ = CANDIDATE THEN FOLLOWER ELSE @]

(* the log consistency check fails *)
AppendMismatch(n, m) ==
  /\ m.to = n
  /\ m.Term = currentTerm[n]
  /\ ~Matches(n, m)
  /\ Concede(n)
  /\ ReplyAppend(n, m)
  /\ UNCHANGED <<currentTerm, votedFor, elections, logVars, leaderVars, storage,
                 applyVars, voteNet, appendRequests, snapNet, faults, votes, committed>>

(* rule 5, with the log as the loop over the entries has left it *)
CommitToLeader(n, m, log) == Min({m.LeaderCommit, LastIndex(log)})   \* mutant: no guard

CommitTo(n, m, log) ==
  IF m.LeaderCommit > commitIndex[n]
  THEN Min({m.LeaderCommit, LastIndex(log)}) ELSE commitIndex[n]

AppendEntries(n, m) ==
  LET log == MergeEntries(logs[n], m.Entries)
  IN  /\ m.to = n
      /\ m.Term = currentTerm[n]
      /\ Matches(n, m)
      /\ Concede(n)
      /\ logs' = [logs EXCEPT ![n] = log]
      /\ IF NewEntries(logs[n], m.Entries) # {}
         THEN Persist(n, currentTerm[n], votedFor[n], log)
         ELSE UNCHANGED persisted
      /\ commitIndex' = [commitIndex EXCEPT ![n] = CommitTo(n, m, log)]
      /\ RecordCommitted(log, CommitTo(n, m, log))
      /\ ReplyAppend(n, m)
      /\ UNCHANGED <<currentTerm, votedFor, elections, leaderVars, snapshot, applyVars,
                     voteNet, appendRequests, snapNet, faults, votes>>

(* sendAppendEntryAndUpdate, the reply of a peer in a later term *)
AppendReplyNewTerm(n, m) ==
  /\ m.from = n
  /\ m.rTerm > currentTerm[n]
  /\ SetNewTerm(n, m.rTerm)
  /\ UNCHANGED <<elections, logVars, leaderVars, snapshot, applyVars, voteNet,
                 appendNet, snapNet, faults, votes, committed>>

(* leaderCommitLog: the indexes it may commit, and the last one wins *)
CommittableByHalf(n, match) ==   \* mutant: cnt >= len(peers)/2
  {i \in commitIndex[n] + 1 .. LastIndex(logs[n]) :
     /\ TermAt(logs[n], i) = currentTerm[n]
     /\ Cardinality({n} \cup {p \in Server \ {n} : match[p] >= i}) >= Cardinality(Server) \div 2}

Committable(n, match) ==
  {i \in commitIndex[n] + 1 .. LastIndex(logs[n]) :
     /\ TermAt(logs[n], i) = currentTerm[n]
     /\ Majority({n} \cup {p \in Server \ {n} : match[p] >= i})}

LeaderCommitLog(n, match) ==
  LET commit == IF role[n] = LEADER /\ Committable(n, match) # {}
                THEN Max(Committable(n, match)) ELSE commitIndex[n]
  IN  /\ commitIndex' = [commitIndex EXCEPT ![n] = commit]
      /\ RecordCommitted(logs[n], commit)

(* the nextIndex that a failed reply leads to *)
NextAfterFailureUnbounded(n, m) ==   \* mutant: decremented below 1 too
  IF m.Conflict
  THEN IF m.XTerm = -1
       THEN m.XLen
       ELSE LET last == FindLastLogInXTerm(logs[n], m.XTerm)
            IN  IF last > 0 THEN last ELSE m.XIndex
  ELSE nextIndex[n][m.to] - 1

NextAfterFailure(n, m) ==
  IF m.Conflict
  THEN IF m.XTerm = -1
       THEN m.XLen
       ELSE LET last == FindLastLogInXTerm(logs[n], m.XTerm)
            IN  IF last > 0 THEN last ELSE m.XIndex
  ELSE IF nextIndex[n][m.to] > 1 THEN nextIndex[n][m.to] - 1 ELSE nextIndex[n][m.to]

(* the reply makes findLastLogInXTerm run off the log *)
ScanPanics(n, m) ==
  /\ m.Conflict /\ m.XTerm # -1
  /\ FindLastLogInXTerm(logs[n], m.XTerm) = Panic

(* args.PrevLogIndex + len(args.Entries) *)
MatchLast(n, m) == LastIndex(logs[n])   \* mutant: the log as it is now

Match(n, m) == m.match

(* sendAppendEntryAndUpdate, the reply to a request of this term *)
UpdateIndexes(n, m) ==
  /\ nextIndex' = [nextIndex EXCEPT ![n][m.to] =
       IF m.Success THEN Max({@, Match(n, m) + 1}) ELSE NextAfterFailure(n, m)]
  /\ matchIndex' = [matchIndex EXCEPT ![n][m.to] =
       IF m.Success THEN Max({@, Match(n, m)}) ELSE @]
  /\ LeaderCommitLog(n, matchIndex'[n])
  /\ appendReplies' = IF m.Success \/ m.Conflict THEN appendReplies
                      ELSE appendReplies \ {m}
  /\ UNCHANGED <<serverVars, logs, storage, applyVars, voteNet, appendRequests,
                 snapNet, faults, votes>>

AppendReply(n, m) ==
  /\ m.from = n
  /\ m.rTerm <= currentTerm[n]
  /\ m.Term = currentTerm[n]
  /\ IF ScanPanics(n, m)
     THEN panicked' = TRUE /\ UNCHANGED crashes /\ Remake(n)
     ELSE UpdateIndexes(n, m)

-----------------------------------------------------------------------------
(* Snapshots *)

ReplySnapshot(m, term) ==
  snapReplies' = IF Awaited(m)
    THEN snapReplies \cup {[from |-> m.from, to |-> m.to, rTerm |-> term,
                            LastIncludedIndex |-> m.LastIncludedIndex]}
    ELSE snapReplies

(* InstallSnapshot, args.Term < rf.currentTerm *)
RefuseSnapshot(n, m) ==
  /\ m.to = n
  /\ m.Term < currentTerm[n]
  /\ ReplySnapshot(m, currentTerm[n])
  /\ UNCHANGED <<serverVars, logVars, leaderVars, storage, applyVars, voteNet, appendNet,
                 snapRequests, faults, votes, committed>>

(* InstallSnapshot: a snapshot that is news waits in a goroutine for applyCh *)
InstallSnapshot(n, m) ==
  /\ m.to = n
  /\ m.Term >= currentTerm[n]
  /\ IF m.Term > currentTerm[n]
     THEN SetNewTerm(n, m.Term)
     ELSE UNCHANGED <<currentTerm, role, votedFor, persisted>>
  /\ pendingSnaps' = [pendingSnaps EXCEPT ![n] =
       IF m.LastIncludedIndex <= commitIndex[n] THEN @
       ELSE @ \cup {[Index |-> m.LastIncludedIndex, Term |-> m.LastIncludedTerm,
                     Data |-> m.Data]}]
  /\ ReplySnapshot(m, currentTerm[n])
  /\ UNCHANGED <<elections, logVars, leaderVars, snapshot, lastApplied, applier, service,
                 voteNet, appendNet, snapRequests, faults, votes, committed>>

MatchAfterSnapshotNext(m) == m.LastIncludedIndex + 1   \* mutant: nextIndex and matchIndex alike

(* what the leader counts of a follower after a snapshot *)
MatchAfterSnapshot(m) == m.LastIncludedIndex

(***************************************************************************)
(* sendInstallSnapshotAndUpdate: the indexes are set whatever the term and *)
(* the role have become, and whether or not the snapshot was installed.    *)
(***************************************************************************)
SnapshotReply(n, m) ==
  /\ m.from = n
  /\ IF m.rTerm > currentTerm[n]
     THEN SetNewTerm(n, m.rTerm)
     ELSE UNCHANGED <<currentTerm, role, votedFor, persisted>>
  /\ nextIndex' = [nextIndex EXCEPT ![n][m.to] = m.LastIncludedIndex + 1]
  /\ matchIndex' = [matchIndex EXCEPT ![n][m.to] = MatchAfterSnapshot(m)]
  /\ snapReplies' = snapReplies \ {m}
  /\ UNCHANGED <<elections, logVars, snapshot, applyVars, voteNet, appendNet,
                 snapRequests, faults, votes, committed>>

(* the service takes the pending snapshot s off applyCh: CondInstallSnapshot
   says no, or the log, the storage and the service move to s *)
RejectSnapshot(n, s) ==
  /\ s.Index <= commitIndex[n]
  /\ pendingSnaps' = [pendingSnaps EXCEPT ![n] = @ \ {s}]
  /\ UNCHANGED <<serverVars, logVars, leaderVars, storage, lastApplied, applier, service,
                 voteNet, appendNet, snapNet, faults, votes, committed>>

CondInstallSnapshot(n, s) ==
  /\ s.Index > commitIndex[n]
  /\ LET log == InstallAt(logs[n], s.Index, s.Term)
     IN  /\ logs' = [logs EXCEPT ![n] = log]
         /\ SaveStateAndSnapshot(n, log, s.Data)
  /\ lastApplied' = [lastApplied EXCEPT ![n] = s.Index]
  /\ commitIndex' = [commitIndex EXCEPT ![n] = s.Index]
  /\ service' = [service EXCEPT ![n] = [LastApplied |-> s.Index, State |-> s.Data]]
  /\ pendingSnaps' = [pendingSnaps EXCEPT ![n] = @ \ {s}]
  /\ UNCHANGED <<serverVars, leaderVars, applier, voteNet, appendNet, snapNet, faults,
                 votes, committed>>

(* the service calls Snapshot at the last command it applied *)
Snapshot(n) ==
  LET index == service[n].LastApplied
  IN  /\ n \in Compacting
      /\ index > FirstIndex(logs[n])
      /\ logs' = [logs EXCEPT ![n] = CompactTo(@, index)]
      /\ SaveStateAndSnapshot(n, CompactTo(logs[n], index), service[n].State)
      /\ UNCHANGED <<serverVars, commitIndex, leaderVars, applyVars, voteNet, appendNet,
                     snapNet, faults, votes, committed>>

-----------------------------------------------------------------------------
(* The applier goroutine and the service at the other end of applyCh *)

(* the condition the applier waits for *)
UnappliedOffByOne(n) == lastApplied[n] + 1 < commitIndex[n]   \* mutant

Unapplied(n) == lastApplied[n] < commitIndex[n]

Collect(n) ==
  /\ n \in Applying
  /\ applier[n] = Idle
  /\ Unapplied(n)
  /\ applier' = [applier EXCEPT ![n] =
       [Entries |-> Slice(logs[n], lastApplied[n] + 1, commitIndex[n]),
        UpTo |-> commitIndex[n]]]
  /\ UNCHANGED <<serverVars, logVars, leaderVars, storage, lastApplied, pendingSnaps,
                 service, voteNet, appendNet, snapNet, faults, votes, committed>>

(* one entry passes applyCh; the service discards what it has already *)
Deliver(n) ==
  /\ applier[n].Entries # <<>>
  /\ applier' = [applier EXCEPT ![n].Entries = Tail(@)]
  /\ LET e   == Head(applier[n].Entries)
         new == Append(service[n].State, e)
     IN  IF e.Index <= service[n].LastApplied
         THEN UNCHANGED service
         ELSE service' = [service EXCEPT ![n] = [LastApplied |-> e.Index, State |-> new]]
  /\ UNCHANGED <<serverVars, logVars, leaderVars, storage, lastApplied, pendingSnaps,
                 voteNet, appendNet, snapNet, faults, votes, committed>>

Finish(n) ==
  /\ applier[n].Entries = <<>> /\ applier[n] # Idle
  /\ applier' = [applier EXCEPT ![n] = Idle]
  /\ lastApplied' = [lastApplied EXCEPT ![n] = Max({@, applier[n].UpTo})]
  /\ UNCHANGED <<serverVars, logVars, leaderVars, storage, pendingSnaps, service,
                 voteNet, appendNet, snapNet, faults, votes, committed>>

-----------------------------------------------------------------------------
ServerStep(n) ==
  \/ ElectionTimeout(n) \/ Heartbeat(n) \/ Snapshot(n)
  \/ Collect(n) \/ Deliver(n) \/ Finish(n) \/ Restart(n)
  \/ \E c \in Command : Start(n, c)
  \/ \E s \in pendingSnaps[n] : RejectSnapshot(n, s) \/ CondInstallSnapshot(n, s)

RequestStep(n) ==
  \/ \E m \in voteRequests : RefuseVote(n, m) \/ RequestVote(n, m)
  \/ \E m \in appendRequests :
       \/ RefuseAppend(n, m) \/ AdoptTerm(n, m)
       \/ AppendMismatch(n, m) \/ AppendEntries(n, m)
  \/ \E m \in snapRequests : RefuseSnapshot(n, m) \/ InstallSnapshot(n, m)

ReplyStep(n) ==
  \/ \E m \in voteReplies :
       HigherVoteReply(n, m) \/ CountVote(n, m) \/ BecomeLeader(n, m)
  \/ \E m \in appendReplies :
       AppendReplyNewTerm(n, m) \/ AppendReply(n, m)
  \/ \E m \in snapReplies : SnapshotReply(n, m)

Next == \E n \in Server : ServerStep(n) \/ RequestStep(n) \/ ReplyStep(n)

Spec == Init /\ [][Next]_vars

(* the applier goroutine is scheduled, and the service reads applyCh *)
ApplierFairness ==
  \A n \in Applying : WF_vars(Collect(n)) /\ WF_vars(Deliver(n)) /\ WF_vars(Finish(n))

FairSpec == Spec /\ ApplierFairness

-----------------------------------------------------------------------------
(* Types *)

IsLog(log) ==
  /\ log \in Seq(Entry) /\ log # <<>>
  /\ \A k \in DOMAIN log : log[k].Index = FirstIndex(log) + k - 1

ElectionRecord == [Term : Nat, Granted : SUBSET Server, Won : BOOLEAN]

VoteReplyRecord ==
  [from : Server, to : Server, election : Nat, Term : Nat, rTerm : Nat, granted : BOOLEAN]

BallotRecord == [voter : Server, term : Nat, candidate : Server]

VoteTypeOK ==
  /\ role \in [Server -> {FOLLOWER, CANDIDATE, LEADER}]
  /\ currentTerm \in [Server -> Nat]
  /\ votedFor \in [Server -> Server \cup {None}]
  /\ elections \in [Server -> Seq(ElectionRecord)]
  /\ epoch \in [Server -> Nat]
  /\ \A m \in voteRequests :
       /\ m.from \in Server /\ m.to \in Server /\ m.from # m.to
       /\ m.epoch \in Nat /\ m.election \in Nat /\ m.Term \in Nat
  /\ voteReplies \subseteq VoteReplyRecord
  /\ ballots \subseteq BallotRecord
  /\ leaders \subseteq [server : Server, term : Nat]

(* the terms that the other messages carry *)
CarriedTermOK ==
  /\ \A m \in appendRequests \cup snapRequests : m.Term \in Nat
  /\ \A m \in appendReplies \cup snapReplies : m.rTerm \in Nat

(* The type of every variable; a log is never empty and has no gap in its indexes *)
TypeOK ==
  /\ VoteTypeOK /\ CarriedTermOK
  /\ DOMAIN logs = Server /\ \A n \in Server : IsLog(logs[n])
  /\ persisted \in [Server -> [Term : Nat, Vote : Server \cup {None}, Log : Seq(Entry)]]
  /\ {commitIndex, lastApplied} \subseteq [Server -> Nat]
  /\ {nextIndex, matchIndex} \subseteq [Server -> [Server -> Nat]]
  /\ snapshot \in [Server -> Seq(Entry)]
  /\ applier \in [Server -> [Entries : Seq(Entry), UpTo : Nat]]
  /\ service \in [Server -> [LastApplied : Nat, State : Seq(Entry)]]
  /\ \A n \in Server : pendingSnaps[n] \subseteq [Index : Nat, Term : Nat, Data : Seq(Entry)]
  /\ appendRequests \subseteq
       [from : Server, to : Server, epoch : Nat, Term : Nat, PrevLogIndex : Nat,
        PrevLogTerm : Nat, Entries : Seq(Entry), LeaderCommit : Nat]
  /\ appendReplies \subseteq
       [from : Server, to : Server, Term : Nat, match : Nat, rTerm : Nat, Success : BOOLEAN,
        Conflict : BOOLEAN, XTerm : Nat \cup {-1}, XIndex : Nat \cup {-1}, XLen : Nat]
  /\ committed \subseteq Entry
  /\ crashes \in 0 .. MaxCrashes /\ panicked \in BOOLEAN

-----------------------------------------------------------------------------
(* Safety *)

(* No two servers win an election of the same term (StartElection, RequestVote),
   not even at different times *)
ElectionSafety ==
  \A a, b \in leaders : a.term = b.term => a.server = b.server

(* GetState never shows two leaders in one term: "term %d has %d (>1) leaders"
   is a failure to checkOneLeader in config.go *)
OneLeaderPerTerm ==
  \A n, p \in Server :
    role[n] = LEADER /\ role[p] = LEADER /\ currentTerm[n] = currentTerm[p] => n = p

(* Between two handlers the persister holds the term, the vote and the log that
   the server has in memory: nothing a server has answered is lost in a crash *)
Durable ==
  \A n \in Server :
    persisted[n] = [Term |-> currentTerm[n], Vote |-> votedFor[n], Log |-> logs[n]]

(* No two servers ever hold different entries as committed at one index
   (leaderCommitLog, AppendEntries), whatever was elected or restarted in between;
   checkLogs in config.go looks for this on the entries that get applied *)
StateMachineSafety ==
  \A a, b \in committed : a.Index = b.Index => a = b

(* The leader of the latest term has every entry that any server ever held as
   committed, in its log or below its snapshot (the election restriction of
   RequestVote together with the commit rule of leaderCommitLog) *)
LeaderCompleteness ==
  \A n \in Server :
    role[n] = LEADER /\ (\A l \in leaders : l.term <= currentTerm[n]) =>
      \A e \in committed :
        \/ e.Index <= FirstIndex(logs[n])
        \/ e.Index <= LastIndex(logs[n]) /\ EntryAt(logs[n], e.Index) = e

(* What leaderCommitLog counts is there: a peer that is in the term of the leader
   has the leader's entry at its matchIndex, unless that is in a snapshot by now *)
MatchIndexSound ==
  \A n \in Server : role[n] = LEADER =>
    \A p \in Server \ {n} :
      LET i == matchIndex[n][p]
      IN  currentTerm[p] = currentTerm[n] /\ i > FirstIndex(logs[n]) /\ i > FirstIndex(logs[p]) =>
            i <= LastIndex(logs[p]) /\ EntryAt(logs[p], i) = EntryAt(logs[n], i)

(* Every slice expression on rf.logs is in range: the applier collects from the
   snapshot on and no further than the log goes, and appendEntries finds the entry
   before nextIndex, or a snapshot to send in its place *)
IndexesInRange ==
  \A n \in Server :
    /\ applier[n] = Idle => FirstIndex(logs[n]) <= lastApplied[n] /\ lastApplied[n] <= commitIndex[n]
    /\ FirstIndex(logs[n]) <= commitIndex[n] /\ commitIndex[n] <= LastIndex(logs[n])
    /\ role[n] = LEADER => \A p \in Server : nextIndex[n][p] \in 0 .. LastIndex(logs[n]) + 1

(* The state of every service is that of the committed commands 1, 2, 3, ..., each
   once, through any sequence of batches, snapshots taken and installed, and restarts *)
ServiceInOrder ==
  \A n \in Server : \A i \in DOMAIN service[n].State :
    service[n].State[i].Index = i /\ service[n].State[i] \in committed

(* The persister's snapshot ends where its log begins: the state in it is that of the
   commands up to the dummy, so a restart finds neither a gap nor an overlap
   (Snapshot, CondInstallSnapshot) *)
SnapshotMeetsLog ==
  \A n \in Server :
    /\ Len(snapshot[n]) = FirstIndex(persisted[n].Log)
    /\ \A i \in DOMAIN snapshot[n] : snapshot[n][i].Index = i /\ snapshot[n][i] \in committed

(* The next command on applyCh is the one after the last applied: applierSnap in
   config.go says "server %v apply out of order, expected index %v, got %v" *)
AppliedInOrder ==
  \A n \in Server : applier[n].Entries # <<>> =>
    Head(applier[n].Entries).Index = service[n].LastApplied + 1

(* A leader survives every conflict that a follower reports and retries with a lower
   nextIndex, as the comment in sendAppendEntryAndUpdate has it *)
NoPanic == ~panicked

(* While a server runs its commitIndex never goes back, and no step, not even a
   restart, takes a committed entry out of its log except into a snapshot *)
CommittedKept ==
  [][\A n \in Server :
       /\ epoch'[n] = epoch[n] => commitIndex'[n] >= commitIndex[n]
       /\ \A k \in 2 .. Len(logs[n]) :
            logs[n][k].Index <= commitIndex[n] =>
              \/ logs[n][k].Index <= FirstIndex(logs'[n])
              \/ \E j \in 2 .. Len(logs'[n]) : logs'[n][j] = logs[n][k]]_vars

(* Every command a server has as committed reaches its service (applier), unless the
   server is restarted and has to learn again what is committed *)
AppliedEventually ==
  \A n \in Applying : \A i \in 1 .. MaxIndex :
    commitIndex[n] >= i ~> (Len(service[n].State) >= i \/ commitIndex[n] < i)

=============================================================================
