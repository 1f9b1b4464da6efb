---------------------------- MODULE Labrpc ----------------------------
(***************************************************************************)
(* labrpc/labrpc.go: the simulated network under every service of the      *)
(* repository.  A Call goes to the one goroutine of the network, which     *)
(* hands it to a processReq of its own; that one looks up the server at    *)
(* the other end, runs the handler in a third goroutine, and watches for   *)
(* the server being deleted while it waits.                                *)
(*                                                                         *)
(* Every delay (short delays, longDelays, longReordering) is the freedom   *)
(* of the next step to come late.  An end is made and connected in one     *)
(* breath by all callers, so its name holds the server it leads to.        *)
(***************************************************************************)
EXTENDS Naturals, FiniteSets

CONSTANTS
  Req,         \* the calls that are made
  NoEnd,       \* the end of a call not made yet
  Reliable     \* does the network lose nothing (Network.Reliable, set once by make_config)

VARIABLES
  enabled,     \* by end that was made: does it let requests through
  servers,     \* by server name, the server object (0 stands for nil)
  listening,   \* is the goroutine that reads endCh running
  done,        \* is the channel closed that Cleanup closes
  rpc          \* per call, where its goroutines are

netVars == <<enabled, servers, listening, done, rpc>>

Calm == [pc |-> "idle", end |-> NoEnd, late |-> FALSE, object |-> 0, handler |-> "none",
         draining |-> FALSE, replyOK |-> FALSE, ok |-> FALSE]

MakeNetwork ==
  /\ enabled = << >>
  /\ listening = TRUE
  /\ done = FALSE
  /\ rpc = [r \in Req |-> Calm]

(* MakeEnd and Connect for each of the ends new: they are made disabled *)
MakeEnds(new) ==
  enabled' = [e \in new \cup DOMAIN enabled |-> e \notin new /\ enabled[e]]

Enable(ends, yes) ==
  enabled' = [e \in DOMAIN enabled |-> IF e \in ends THEN yes ELSE enabled[e]]

AddServer(s, object) == servers' = [servers EXCEPT ![s] = object]

DeleteServer(s) == servers' = [servers EXCEPT ![s] = 0]

Cleanup ==
  /\ done' = TRUE
  /\ UNCHANGED <<enabled, servers, listening, rpc>>

-----------------------------------------------------------------------------
At(r, pc) == rpc[r].pc = pc

Becomes(r, new) ==
  /\ rpc' = [rpc EXCEPT ![r] = new]
  /\ UNCHANGED <<enabled, servers, listening, done>>

(* Call returns false *)
Fails(r) == Becomes(r, [rpc[r] EXCEPT !.pc = "returned", !.ok = FALSE])

(* someone calls through the end e; late records whether the caller was shut down by then *)
Call(r, e, late) ==
  /\ At(r, "idle")
  /\ Becomes(r, [rpc[r] EXCEPT !.pc = "sending", !.end = e, !.late = late])

(* Call: the entire Network has been destroyed *)
Destroyed(r) == At(r, "sending") /\ done /\ Fails(r)

(* the network's goroutine takes the request, or sees that done is closed: when
   both are possible it picks either *)
Accept(r) == listening /\ At(r, "sending") /\ Becomes(r, [rpc[r] EXCEPT !.pc = "accepted"])

StopListening ==
  /\ listening /\ done
  /\ listening' = FALSE
  /\ UNCHANGED <<enabled, servers, done, rpc>>

(* mutant: no look at whether there is a server *)
ReadWithoutServer(r) ==
  /\ At(r, "accepted")
  /\ LET e == rpc[r].end
     IN  IF enabled[e]
         THEN Becomes(r, [rpc[r] EXCEPT !.object = servers[e.to], !.pc = "found"])
         ELSE Fails(r)

(* processReq reads who is at the other end: the call fails if no one is *)
ReadEndnameInfo(r) ==
  /\ At(r, "accepted")
  /\ LET e == rpc[r].end
     IN  IF enabled[e] /\ servers[e.to] # 0
         THEN Becomes(r, [rpc[r] EXCEPT !.object = servers[e.to], !.pc = "found"])
         ELSE Fails(r)

(* the request is lost, which an unreliable network does *)
DropRequest(r) == At(r, "found") /\ ~Reliable /\ Fails(r)

(* the handler starts, in a goroutine of its own *)
Dispatch(r) ==
  /\ At(r, "found")
  /\ Becomes(r, [rpc[r] EXCEPT !.pc = "waiting", !.handler = "running"])

(* the handler returns, and its goroutine offers the reply on ech *)
HandlerReturns(r) ==
  /\ rpc[r].handler = "running"
  /\ Becomes(r, [rpc[r] EXCEPT !.handler = "returned"])

IsServerDead(r) == ~enabled[rpc[r].end] \/ servers[rpc[r].end.to] # rpc[r].object

ReceiveReply(r) ==
  /\ At(r, "waiting") /\ rpc[r].handler = "returned"
  /\ Becomes(r, [rpc[r] EXCEPT !.pc = "checking", !.handler = "received", !.replyOK = TRUE])

(* mutant: looks at the server only when the reply is there *)
PollAfterReply(r) ==
  /\ At(r, "waiting") /\ IsServerDead(r) /\ rpc[r].handler = "returned"
  /\ Becomes(r, [rpc[r] EXCEPT !.pc = "checking", !.draining = TRUE])

(* mutant: nobody takes the late reply *)
PollWithoutDrain(r) ==
  /\ At(r, "waiting") /\ IsServerDead(r)
  /\ Becomes(r, [rpc[r] EXCEPT !.pc = "checking"])

(* 100 ms went by and the server is dead: the wait ends, and one more goroutine
   takes the late reply from ech *)
PollDead(r) ==
  /\ At(r, "waiting") /\ IsServerDead(r)
  /\ Becomes(r, [rpc[r] EXCEPT !.pc = "checking", !.draining = TRUE])

Drain(r) ==
  /\ rpc[r].draining /\ rpc[r].handler = "returned"
  /\ Becomes(r, [rpc[r] EXCEPT !.handler = "received"])

(* mutant: no second look at the server *)
CheckReplyOnly(r) ==
  /\ At(r, "checking")
  /\ IF rpc[r].replyOK THEN Becomes(r, [rpc[r] EXCEPT !.pc = "replying"]) ELSE Fails(r)

(* no reply passes if the server was deleted while the handler ran *)
CheckDead(r) ==
  /\ At(r, "checking")
  /\ IF rpc[r].replyOK /\ ~IsServerDead(r)
     THEN Becomes(r, [rpc[r] EXCEPT !.pc = "replying"])
     ELSE Fails(r)

(* the reply is lost, which an unreliable network does *)
DropReply(r) == At(r, "replying") /\ ~Reliable /\ Fails(r)

Reply(r) == At(r, "replying") /\ Becomes(r, [rpc[r] EXCEPT !.pc = "returned", !.ok = TRUE])

(* what the goroutines of the network do for call r, without the handler *)
NetworkStep(r) ==
  \/ Destroyed(r)
  \/ Accept(r)
  \/ ReadEndnameInfo(r)
  \/ DropRequest(r)
  \/ Dispatch(r)
  \/ ReceiveReply(r)
  \/ PollDead(r)
  \/ Drain(r)
  \/ CheckDead(r)
  \/ DropReply(r)
  \/ Reply(r)
=============================================================================
