--------------------------- MODULE AtomicService ---------------------------
(***************************************************************************)
(* What the replicated services promise: one object, operations that take  *)
(* effect one at a time, each between its call and its return, a write     *)
(* exactly once.  KVRaft, ShardCtrler and ShardKV are shown to implement   *)
(* it, each with its own object.                                           *)
(***************************************************************************)
CONSTANTS
    Client,
    Op,            \* what may be asked for
    Initial,       \* the object at the start
    IsRead(_),     \* the operation only reads
    Result(_, _),  \* Result(x, o): what the read o returns when the object is x
    Effect(_, _),  \* Effect(x, o): the object after the write o
    Nothing        \* no operation, and what a write returns

VARIABLES
    object,
    asked,   \* asked[c]: what c has called and has not got an answer to
    taken,   \* taken[c]: it is a write and has taken effect
    seen,    \* seen[c]: it is a read; what it could have returned since the call
    answer   \* answer[c]: what the last operation of c returned

atomicVars == <<object, asked, taken, seen, answer>>

\* What each read under way may have seen, once the object is x.
SeenWith(x, ask) ==
    [c \in Client |-> IF ask[c] # Nothing /\ IsRead(ask[c]) THEN seen[c] \cup {Result(x, ask[c])} ELSE {}]

AtomicInit ==
    /\ object = Initial
    /\ asked = [c \in Client |-> Nothing]
    /\ taken = [c \in Client |-> FALSE]
    /\ seen = [c \in Client |-> {}]
    /\ answer = [c \in Client |-> Nothing]

\* c calls an operation.
Begin(c) ==
    /\ asked[c] = Nothing
    /\ \E o \in Op : asked' = [asked EXCEPT ![c] = o]
    /\ seen' = SeenWith(object, asked')
    /\ UNCHANGED <<object, taken, answer>>

\* A write takes effect.
Take(c) ==
    /\ asked[c] # Nothing /\ ~taken[c] /\ ~IsRead(asked[c])
    /\ object' = Effect(object, asked[c])
    /\ taken' = [taken EXCEPT ![c] = TRUE]
    /\ seen' = SeenWith(object', asked)
    /\ UNCHANGED <<asked, answer>>

\* The operation returns: a write that has taken effect, or a read with a
\* result that the object gave at some time since the call.
Finish(c) ==
    /\ asked[c] # Nothing
    /\ IF IsRead(asked[c]) THEN \E v \in seen[c] : answer' = [answer EXCEPT ![c] = v]
                           ELSE taken[c] /\ answer' = [answer EXCEPT ![c] = Nothing]
    /\ asked' = [asked EXCEPT ![c] = Nothing]
    /\ taken' = [taken EXCEPT ![c] = FALSE]
    /\ seen' = [seen EXCEPT ![c] = {}]
    /\ UNCHANGED object

AtomicNext == \E c \in Client : Begin(c) \/ Take(c) \/ Finish(c)

AtomicSpec == AtomicInit /\ [][AtomicNext]_atomicVars
=============================================================================
