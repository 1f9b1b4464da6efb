------------------------------ MODULE MCKVRaft ------------------------------
(***************************************************************************)
(* Instances of KVRaft.                                                    *)
(*                                                                         *)
(* MCNext takes some steps as soon as they are possible.  Once a server    *)
(* has applied index i, no later handler of it gets this index and its     *)
(* applier does not come back to it; so what the only handler of i has     *)
(* left to do (fetch the channel, give up when nobody waits for the reply, *)
(* remove the channel) meets no other step, and neither does discarding    *)
(* an outdated command.                                                    *)
(***************************************************************************)
EXTENDS KVRaft

CONSTANTS c1, c2, c3

Two == 0..1
Three == 0..2
OneKey == {"k"}

Op(op, value) == [op |-> op, key |-> "k", value |-> value]

\* c1 appends and then reads, while c2 appends; one of c1's calls may fail.
AppendGetAppend == (c1 :> <<Op("Append", "a"), Op("Get", "")>>) @@ (c2 :> <<Op("Append", "b")>>)
TwoAndOne == (c1 :> 2) @@ (c2 :> 1)

\* Three clients write; c1 may call twice.
PutPutPut == (c1 :> <<Op("Put", "a")>>) @@ (c2 :> <<Op("Put", "b")>>) @@ (c3 :> <<Op("Put", "d")>>)
TwoOneOne == (c1 :> 2) @@ (c2 :> 1) @@ (c3 :> 1)

----------------------------------------------------------------------------
Awaited(h) == clerk[h.client].calling /\ clerk[h.client].calls = h.try

Alone(h) == \A g \in handlers \ {h} : g.server = h.server => g.index # h.index

Over(h) ==
    /\ h.pc \in {"channel", "wait", "remove"}
    /\ Pushable(h.server, h.index)
    /\ lastApplied[h.server] >= h.index \/ snapshot[h.server].index >= h.index

Ready(h) == Over(h) /\ Alone(h) /\ (h.pc = "wait" => ~Awaited(h))

Busy ==
    \/ \E h \in handlers : Ready(h)
    \/ \E s \in Server : Pushable(s, NextIndex(s)) /\ Outdated(s)

Settle ==
    \/ \E h \in handlers : Ready(h) /\ (FetchChan(h) \/ TimeOut(h) \/ RemoveNotifyChan(h))
    \/ \E s \in Server : Discard(s)

MCNext == (Busy /\ Settle) \/ (~Busy /\ Next)

MCSpec == Init /\ [][MCNext]_vars

----------------------------------------------------------------------------
\* One course of events.  Server 0 leads in the terms 1 and 3, server 1 in term
\* 2, and nothing is chosen before term 3; c2 and c3 wait for server 0, which
\* gets the call of c3 in term 3; nobody else's handler ends.
LeaderReturns ==
    /\ \A s \in Server : leading[s] => s = (term[s] + 1) % 2
    /\ clerk[c2].leaderId = 0 /\ clerk[c3].leaderId = 0
    /\ term[0] < 3 => chosen = <<>> /\ \A h \in handlers : h.client = c3 => h.pc = "check"
    /\ \A h \in handlers : h.pc = "remove" => h.client = c2
    /\ lastApplied[1] = 0 /\ lastApplied[2] = 0 /\ log[2] = <<>>
=============================================================================
