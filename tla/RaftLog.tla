------------------------------ MODULE RaftLog ------------------------------
(***************************************************************************)
(* The log of one Raft server and the computations on it that its handlers *)
(* make.  rf.logs is a Go slice whose cell 0 is not a command: it is a     *)
(* dummy that carries the Index and the Term of the last entry covered by  *)
(* the snapshot (0 and 0 before any snapshot).  Here a log is a non-empty  *)
(* sequence whose element 1 is that dummy; the entry of index i is at      *)
(* position i - FirstIndex(log) + 1, as logs[i-getFirstLog().Index] is in  *)
(* the code.                                                               *)
(***************************************************************************)
EXTENDS Integers, Sequences, FiniteSetsExt

CONSTANTS Command,  \* what the service asks Raft to replicate
          Nil       \* the Command of a dummy (nil in Go)

ASSUME NilAssumption == Nil \notin Command

Entry == [Index : Nat, Term : Nat, Command : Command \cup {Nil}]

Dummy(index, term) == [Index |-> index, Term |-> term, Command |-> Nil]

EmptyLog == <<Dummy(0, 0)>>

(* getFirstLog().Index, getLastLog().Index and getLastLog().Term *)
FirstIndex(log) == log[1].Index
LastIndex(log)  == log[Len(log)].Index
LastTerm(log)   == log[Len(log)].Term

(* logs[i-firstLogIndex] *)
EntryAt(log, i) == log[i - FirstIndex(log) + 1]
TermAt(log, i)  == EntryAt(log, i).Term

(* logs[from-firstLogIndex:to-firstLogIndex+1] *)
Slice(log, from, to) ==
  SubSeq(log, from - FirstIndex(log) + 1, to - FirstIndex(log) + 1)

(* the election restriction of RequestVote *)
UpToDateAlways(lastTerm, lastIndex, log) == TRUE   \* mutant: no restriction

UpToDate(lastTerm, lastIndex, log) ==
  \/ lastTerm > LastTerm(log)
  \/ lastTerm = LastTerm(log) /\ lastIndex >= LastIndex(log)

(***************************************************************************)
(* What a follower answers when its entry at PrevLogIndex has another term *)
(* than the leader's: the index just before the run of entries of that     *)
(* term, searched down to the dummy.                                       *)
(***************************************************************************)
XIndexOf(log, prev) ==
  Max({FirstIndex(log) - 1} \cup
      {x \in FirstIndex(log) .. prev - 1 : TermAt(log, x) # TermAt(log, prev)})

(***************************************************************************)
(* The loop over args.Entries in AppendEntries.  The first entry that the  *)
(* log lacks, or holds with another term, replaces everything from its     *)
(* index on by the rest of the message; when there is none the log stays   *)
(* as it is, longer than the message or not.                               *)
(***************************************************************************)
NewEntries(log, entries) ==
  {k \in 1 .. Len(entries) :
     \/ entries[k].Index > LastIndex(log)
     \/ TermAt(log, entries[k].Index) # entries[k].Term}

MergeAppending(log, entries) == log \o entries   \* mutant: no check for duplicates

MergeEntries(log, entries) ==
  IF NewEntries(log, entries) = {}
  THEN log
  ELSE LET k == Min(NewEntries(log, entries))
       IN  SubSeq(log, 1, entries[k].Index - FirstIndex(log))
             \o SubSeq(entries, k, Len(entries))

(***************************************************************************)
(* findLastLogInXTerm scans the indexes from the last one down to 1 and    *)
(* stops at the first term that is not above the one it looks for.  When   *)
(* every term kept is above it and the log starts at 2 or later, the scan  *)
(* runs on past the dummy to logs[-1], which is a run-time panic.          *)
(***************************************************************************)
Panic == -2

FindLastLogInXTerm(log, xterm) ==
  LET low  == Max({1, FirstIndex(log)})
      hits == {i \in low .. LastIndex(log) : TermAt(log, i) <= xterm}
  IN  IF hits # {}
      THEN IF TermAt(log, Max(hits)) = xterm THEN Max(hits) ELSE -1
      ELSE IF FirstIndex(log) >= 2 THEN Panic ELSE -1

(***************************************************************************)
(* CondInstallSnapshot: the log after the snapshot at (index, term) has    *)
(* been accepted.  The entries after index are kept whatever the term of   *)
(* the entry at index is.                                                  *)
(***************************************************************************)
InstallAt(log, index, term) ==
  IF index > LastIndex(log)
  THEN <<Dummy(index, term)>>
  ELSE <<Dummy(index, term)>> \o Slice(log, index + 1, LastIndex(log))

(* Snapshot: drop the entries before index; index becomes the dummy *)
CompactTo(log, index) ==
  <<Dummy(index, TermAt(log, index))>> \o Slice(log, index + 1, LastIndex(log))

=============================================================================
