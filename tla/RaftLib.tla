------------------------------ MODULE RaftLib ------------------------------
(***************************************************************************)
(* The Raft library as the services above it meet it: a server may believe *)
(* that it leads, a command that a leader took may be lost, commands are   *)
(* chosen in one order.  It is the protocol of module Raft without its     *)
(* messages: an election, a replication to one follower and the commit of  *)
(* one entry are one step each.                                            *)
(***************************************************************************)
EXTENDS Integers, FiniteSets, Sequences

CONSTANTS
    Server,
    MaxTerm   \* bound: the last term

VARIABLES
    term,     \* term[s]: currentTerm
    leading,  \* leading[s]: s is in the role of the leader
    log,      \* log[s]: the entries, from index 1
    chosen    \* history: the entries that have been committed, in order

raftVars == <<term, leading, log, chosen>>

Quorum == {Q \in SUBSET Server : 2 * Cardinality(Q) > Cardinality(Server)}

LastTerm(l) == IF l = <<>> THEN 0 ELSE l[Len(l)].term

\* RequestVote grants a vote to a candidate whose log is up to date.
UpToDate(l, m) ==
    \/ LastTerm(l) > LastTerm(m)
    \/ LastTerm(l) = LastTerm(m) /\ Len(l) >= Len(m)

\* Two logs agree on the first n entries.
Agree(l, m, n) == n <= Len(l) /\ n <= Len(m) /\ SubSeq(l, 1, n) = SubSeq(m, 1, n)

\* The entry at index i of s is chosen, so the applier of s may push it.
Pushable(s, i) == i <= Len(chosen) /\ Agree(log[s], chosen, i)

RaftInit ==
    /\ term = [s \in Server |-> 0]
    /\ leading = [s \in Server |-> FALSE]
    /\ log = [s \in Server |-> <<>>]
    /\ chosen = <<>>

\* s wins the election of a new term with the votes of Q; who voted has left
\* its old term, the others may still believe in theirs.
Elect(s, Q) ==
    LET t == 1 + CHOOSE m \in {term[q] : q \in Server} : \A q \in Server : term[q] <= m IN
    /\ s \in Q /\ t <= MaxTerm
    /\ \A q \in Q : UpToDate(log[s], log[q])
    /\ term' = [q \in Server |-> IF q \in Q THEN t ELSE term[q]]
    /\ leading' = [q \in Server |-> IF q = s THEN TRUE ELSE leading[q] /\ q \notin Q]
    /\ UNCHANGED <<log, chosen>>

\* What AppendEntries makes of a follower's log: a suffix that goes on after
\* the leader's log stays, anything else gives way to it.
Merged(mine, leaders) == IF Agree(mine, leaders, Len(leaders)) THEN mine ELSE leaders

\* A follower hears from a leader of its term or of a later one.
Replicate(l, f) ==
    /\ l # f /\ leading[l] /\ term[f] <= term[l]
    /\ term[f] # term[l] \/ Merged(log[f], log[l]) # log[f]
    /\ term' = [term EXCEPT ![f] = term[l]]
    /\ leading' = [leading EXCEPT ![f] = FALSE]
    /\ log' = [log EXCEPT ![f] = Merged(@, log[l])]
    /\ UNCHANGED chosen

\* leaderCommitLog commits up to an entry of the leader's own term that a
\* majority has; the entries are chosen one at a time.
Choose(l) ==
    LET n == Len(chosen) + 1 IN
    /\ leading[l]
    /\ \E m \in n..Len(log[l]), Q \in Quorum :
         /\ log[l][m].term = term[l]
         /\ \A q \in Q : term[q] = term[l] /\ Agree(log[q], log[l], m)
    /\ chosen' = Append(chosen, log[l][n])
    /\ UNCHANGED <<term, leading, log>>

\* Start appends a command to the log of a leader.
Started(s, cmd) ==
    /\ leading[s]
    /\ log' = [log EXCEPT ![s] = Append(@, [term |-> term[s], cmd |-> cmd])]
    /\ UNCHANGED <<term, leading, chosen>>
=============================================================================
