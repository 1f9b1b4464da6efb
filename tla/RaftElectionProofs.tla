------------------------- MODULE RaftElectionProofs -------------------------
(***************************************************************************)
(* At most one server wins a term, when no late rejection is delivered.    *)
(***************************************************************************)
EXTENDS RaftTallyProofs, FiniteSetTheorems

(* A voter that two majorities share has voted for both *)
LEMMA VoteInvElectionSafety ==
  ASSUME VoteTypeOK, VoteInv
  PROVE  ElectionSafety
<1> SUFFICES ASSUME NEW a \in leaders, NEW b \in leaders, a.term = b.term
             PROVE  a.server = b.server
  BY DEF ElectionSafety
<1>1. PICK Q \in SUBSET Server :
        Majority(Q) /\ \A v \in Q : Ballot(v, a.term, a.server) \in ballots
  BY DEF VoteInv, LeadersBacked
<1>2. PICK R \in SUBSET Server :
        Majority(R) /\ \A v \in R : Ballot(v, b.term, b.server) \in ballots
  BY DEF VoteInv, LeadersBacked
<1>3. Q \cap R # {}
  <2>1. IsFiniteSet(Q) /\ IsFiniteSet(R)
    BY RaftAssumption, FS_Subset
  <2>2. Cardinality(Q) \in Nat /\ Cardinality(R) \in Nat /\ Cardinality(Server) \in Nat
    BY <2>1, RaftAssumption, FS_CardinalityType
  <2>3. Cardinality(Q) + Cardinality(R) > Cardinality(Server)
    BY <1>1, <1>2, <2>2 DEF Majority
  <2>4. QED
    BY <2>3, RaftAssumption, FS_MajoritiesIntersect
<1>4. PICK v \in Q : v \in R
  BY <1>3
<1>5. QED
  BY ZenonT(60), <1>1, <1>2, <1>4 DEF VoteInv, BallotsUnique, Ballot

(* ElectionSafety, for any finite set of servers, any number of elections, crashes
   and lost, delayed or reordered messages, as long as no reply of a later term
   reaches a server that is no longer the candidate that asked (the replies that
   StartElection answers with setNewTerm(args.Term)) *)
THEOREM ElectionSafetyAlways ==
  ASSUME ~LateRejections
  PROVE  Spec => []ElectionSafety
<1>1. Init => BaseInv /\ VoteInv
  BY InitBase, InitVotes
<1>2. BaseInv /\ VoteInv /\ [Next]_vars => BaseInv' /\ VoteInv'
  BY BaseInvStep, VoteInvNext
<1>3. BaseInv /\ VoteInv => ElectionSafety
  BY VoteInvElectionSafety DEF BaseInv
<1>4. QED
  BY <1>1, <1>2, <1>3, PTL DEF Spec

=============================================================================
