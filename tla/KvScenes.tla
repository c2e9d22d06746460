------------------------------ MODULE KvScenes ------------------------------
(***************************************************************************)
(* What a node relies on locally, its storage engine and the channel to a  *)
(* peer, each on its own.  "scene" says which of them runs in a behaviour. *)
(*                                                                         *)
(* In "shared" threads call any operations of the engine, and what they    *)
(* write expires at once.  In "owned" Owner alone writes and expires, and  *)
(* the others delete: what the store promises to its only writer.  In      *)
(* "channel" tasks share the client of a peer.                             *)
(***************************************************************************)
EXTENDS KvStorage

CONSTANTS
  Owner,        \* the thread that writes in "owned"
  SharedCalls,  \* bound on the calls of each thread in "shared"
  ChCaller, ChKindOf, ChCallDur, ChOuterDur, ChGuarded,
  ChMaxCalls, ChMaxConn, ChMaxCloses, ChNoCaller

VARIABLE scene   \* never changes

VARIABLES
  chPool, chNext, chOpen, chHolder, chQueue, chLog, chCut, chGarbled,
  chReceived, chServed, chRead, chPc, chVia, chMine, chAge, chHeld, chCalls,
  chOutcome, chAnswer, chAbandoned
channel ==
  <<chPool, chNext, chOpen, chHolder, chQueue, chLog, chCut, chGarbled,
  chReceived, chServed, chRead, chPc, chVia, chMine, chAge, chHeld, chCalls,
  chOutcome, chAnswer, chAbandoned>>

CH == INSTANCE KvRpc WITH
  Caller <- ChCaller, KindOf <- ChKindOf, CallDur <- ChCallDur,
  OuterDur <- ChOuterDur, Guarded <- ChGuarded,
  MaxCalls <- ChMaxCalls, MaxConn <- ChMaxConn, MaxCloses <- ChMaxCloses,
  NoCaller <- ChNoCaller,
  pool <- chPool, next <- chNext, open <- chOpen, holder <- chHolder,
  queue <- chQueue, log <- chLog, cut <- chCut, garbled <- chGarbled,
  received <- chReceived, served <- chServed, read <- chRead, pc <- chPc,
  via <- chVia, mine <- chMine, age <- chAge, held <- chHeld, calls <- chCalls,
  outcome <- chOutcome, answer <- chAnswer, abandoned <- chAbandoned

ASSUME ChannelConstants == CH!KvRpcAssumption

-----------------------------------------------------------------------------
SceneInit ==
  /\ Init /\ CH!Init
  /\ scene \in {"shared", "owned", "channel"}

Writes(t) == pc'[t] \in {"version", "insert", "cas", "check", "replace"}

InScene ==
  CASE scene = "shared" ->
         \A t \in Thread : calls'[t] =< SharedCalls /\ (Writes(t) => arg'[t].ttl = 0)
    [] scene = "owned" ->
         \A t \in Thread \ {Owner} : pc'[t] \in {"idle", "remove"}
    [] scene = "channel" -> FALSE

RunStorage == Next /\ InScene /\ UNCHANGED <<channel, scene>>
RunChannel == scene = "channel" /\ CH!Next /\ UNCHANGED <<vars, scene>>

SceneNext == RunStorage \/ RunChannel

SceneSpec ==
  /\ SceneInit /\ [][SceneNext]_<<vars, channel, scene>>
  /\ \A t \in Thread : WF_vars(Finish(t))
  /\ WF_channel(scene = "channel" /\ CH!Tick)
  /\ \A t \in ChCaller : WF_channel(scene = "channel" /\ CH!Progress(t))

-----------------------------------------------------------------------------
\* With one writer the version held under a key never goes down while the key stays
\* present (storage.rs:9 and 169-172).
OwnVersionsNeverRegress == [][scene = "owned" => VersionsKept]_vars

\* The positions of a stream are in order: the peer reads no request before it is
\* written and answers none before it is read (server.rs:86-102).
ChannelTypeOK == CH!TypeOK

\* The answer a task reads next lags behind its own by the number of calls that gave
\* up on this connection (client.rs:43-51).
SkewIsAbandoned == CH!SkewIsAbandoned

\* As long as no call on it gave up after writing, every call on a connection gets
\* the answer to its own request (client.rs:42).
OwnResponseUntilTimeout == CH!OwnResponseUntilTimeout

\* Every call ends, even when the peer hangs for ever (client.rs:44-50).
CallsEnd == CH!CallsEnd
=============================================================================
