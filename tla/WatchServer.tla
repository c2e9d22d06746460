----------------------------- MODULE WatchServer -----------------------------
(***************************************************************************)
(* The gRPC store of app-tokio-tonic (bin/server.rs, bin/client.rs): put   *)
(* and delete change the map under its mutex, release it, and only then    *)
(* publish the event on a broadcast channel; each Watch has a task that    *)
(* relays the events to the stream of its client.                          *)
(*                                                                         *)
(* A change is identified by its place in the order in which the map was   *)
(* changed.  The broadcast channel keeps the newest events; a receiver     *)
(* that falls behind it is told how many it has lost.                      *)
(***************************************************************************)
EXTENDS Naturals, Sequences, FiniteSets, SequencesExt, FiniteSetsExt

CONSTANTS
  Writer, Watcher, Key,
  MaxWrites,   \* bound: how many puts and deletes are called
  Buffer,      \* events the broadcast channel keeps (128 in the code)
  Window       \* events the stream of a client holds (128 in the code)

WatchServerAssumption ==
  MaxWrites \in Nat /\ Buffer \in Nat \ {0} /\ Window \in Nat \ {0}

VARIABLES
  store,     \* store[k]: the change that gave k its value, or None
  changes,   \* how many changes there were (history)
  calls,     \* how many puts and deletes were called (bound)
  pending,   \* pending[t]: the change t has still to publish, as a sequence
  events,    \* every event published, in the order of the channel
  pc,        \* pc[w]: the task of watch w: "none", "recv", "send" or "gone"
  next,      \* next[w]: the place of the next event its receiver returns
  since,     \* since[w]: the place from which it is subscribed
  stream,    \* stream[w]: what the client has still to read
  heard,     \* heard[w]: what the client has read (history)
  skipped,   \* skipped[w]: how many events it was told to have lost
  gone       \* the clients that have left

vars == <<store, changes, calls, pending, events, pc, next, since, stream, heard, skipped, gone>>

None == 0

Init ==
  /\ store = [k \in Key |-> None]
  /\ changes = 0 /\ calls = 0
  /\ pending = [t \in Writer |-> <<>>]
  /\ events = <<>>
  /\ pc = [w \in Watcher |-> "none"]
  /\ next = [w \in Watcher |-> 1] /\ since = [w \in Watcher |-> 1]
  /\ stream = [w \in Watcher |-> <<>>] /\ heard = [w \in Watcher |-> <<>>]
  /\ skipped = [w \in Watcher |-> 0]
  /\ gone = {}

watchVars == <<pc, next, since, stream, heard, skipped, gone>>

-----------------------------------------------------------------------------
(* put, delete *)

Change(t, k, value) ==
  /\ store' = [store EXCEPT ![k] = value]
  /\ changes' = changes + 1
  /\ pending' = [pending EXCEPT ![t] = <<changes + 1>>]

MayCall(t) == pending[t] = <<>> /\ calls < MaxWrites

Put(t, k) ==
  /\ MayCall(t) /\ calls' = calls + 1
  /\ Change(t, k, changes + 1)
  /\ UNCHANGED <<events, watchVars>>

\* Only a key that was there is a change.
Delete(t, k) ==
  /\ MayCall(t) /\ calls' = calls + 1
  /\ IF store[k] = None
       THEN UNCHANGED <<store, changes, pending>>
       ELSE Change(t, k, None)
  /\ UNCHANGED <<events, watchVars>>

\* The lock is released by now: another writer may be faster.
Publish(t) ==
  /\ pending[t] # <<>>
  /\ events' = Append(events, Head(pending[t]))
  /\ pending' = [pending EXCEPT ![t] = <<>>]
  /\ UNCHANGED <<store, changes, calls, watchVars>>

-----------------------------------------------------------------------------
(* watch *)

Watch(w) ==
  /\ pc[w] = "none"
  /\ pc' = [pc EXCEPT ![w] = "recv"]
  /\ next' = [next EXCEPT ![w] = Len(events) + 1]
  /\ since' = [since EXCEPT ![w] = Len(events) + 1]
  /\ UNCHANGED <<store, changes, calls, pending, events, stream, heard, skipped, gone>>

\* The oldest event that is still in the channel.
Oldest == Max({1, Len(events) - Buffer + 1})

Recv(w) ==
  /\ pc[w] = "recv" /\ next[w] \in Oldest .. Len(events)
  /\ pc' = [pc EXCEPT ![w] = "send"]
  /\ next' = [next EXCEPT ![w] = @ + 1]
  /\ UNCHANGED <<store, changes, calls, pending, events, since, stream, heard, skipped, gone>>

\* RecvError::Lagged: the receiver goes on with the oldest event there is.
Lagged(w) ==
  /\ pc[w] = "recv" /\ next[w] < Oldest
  /\ skipped' = [skipped EXCEPT ![w] = @ + (Oldest - next[w])]
  /\ next' = [next EXCEPT ![w] = Oldest]
  /\ UNCHANGED <<store, changes, calls, pending, events, pc, since, stream, heard, gone>>

\* Mutant: an event for which the stream has no room is dropped.
RelayOrDrop(w) ==
  /\ pc[w] = "send" /\ w \notin gone
  /\ stream' = [stream EXCEPT ![w] =
       IF Len(@) < Window THEN Append(@, next[w] - 1) ELSE @]
  /\ pc' = [pc EXCEPT ![w] = "recv"]
  /\ UNCHANGED <<store, changes, calls, pending, events, next, since, heard, skipped, gone>>

\* send() waits for room.
Relay(w) ==
  /\ pc[w] = "send" /\ w \notin gone /\ Len(stream[w]) < Window
  /\ stream' = [stream EXCEPT ![w] = Append(@, next[w] - 1)]
  /\ pc' = [pc EXCEPT ![w] = "recv"]
  /\ UNCHANGED <<store, changes, calls, pending, events, next, since, heard, skipped, gone>>

\* The task learns that its client has left when it has something to send.
RelayFails(w) ==
  /\ pc[w] = "send" /\ w \in gone
  /\ pc' = [pc EXCEPT ![w] = "gone"]
  /\ UNCHANGED <<store, changes, calls, pending, events, next, since, stream, heard, skipped, gone>>

Task(w) == Recv(w) \/ Lagged(w) \/ Relay(w) \/ RelayFails(w)

\* The client: stream.next(), and abort() at any time.
Read(w) ==
  /\ stream[w] # <<>> /\ w \notin gone
  /\ heard' = [heard EXCEPT ![w] = Append(@, Head(stream[w]))]
  /\ stream' = [stream EXCEPT ![w] = Tail(@)]
  /\ UNCHANGED <<store, changes, calls, pending, events, pc, next, since, skipped, gone>>

Disconnect(w) ==
  /\ pc[w] # "none" /\ w \notin gone
  /\ gone' = gone \cup {w}
  /\ UNCHANGED <<store, changes, calls, pending, events, pc, next, since, stream, heard, skipped>>

Next ==
  \/ \E t \in Writer : (\E k \in Key : Put(t, k) \/ Delete(t, k)) \/ Publish(t)
  \/ \E w \in Watcher : Watch(w) \/ Task(w) \/ Read(w) \/ Disconnect(w)

Spec == Init /\ [][Next]_vars

\* Tasks run; a connected client reads its stream.
FairSpec ==
  /\ Spec
  /\ \A t \in Writer : WF_vars(Publish(t))
  /\ \A w \in Watcher : WF_vars(Task(w)) /\ WF_vars(Read(w))

-----------------------------------------------------------------------------
(* Properties. *)

TypeOK ==
  /\ store \in [Key -> 0 .. MaxWrites]
  /\ \A w \in Watcher :
       /\ pc[w] \in {"none", "recv", "send", "gone"}
       /\ next[w] \in 1 .. Len(events) + 1
       /\ Len(stream[w]) =< Window

\* Every change of the map is published once, or about to be by one writer, and nothing
\* else: put and delete tell the watchers what they have done, in any order.
ChangesPublished ==
  LET late == {t \in Writer : pending[t] # <<>>}
  IN /\ IsInjective(events)
     /\ \A t \in late : Head(pending[t]) \notin ToSet(events)
     /\ \A t, u \in late : Head(pending[t]) = Head(pending[u]) => t = u
     /\ ToSet(events) \cup {Head(pending[t]) : t \in late} = 1 .. changes

Handed(w) == heard[w] \o stream[w] \o (IF pc[w] = "send" THEN <<next[w] - 1>> ELSE <<>>)

\* A client hears the events of the channel in order, none twice, and each one since
\* it subscribed is heard, on its way or counted as lost (server.rs:135-166).
HeardInOrder ==
  \A w \in Watcher : pc[w] # "gone" =>
    /\ \A i \in 1 .. Len(Handed(w)) - 1 : Handed(w)[i] < Handed(w)[i + 1]
    /\ since[w] + Len(Handed(w)) + skipped[w] = next[w]

\* A client that falls behind catches up with the newest event, or leaves.
WatchersCatchUp ==
  \A w \in Watcher :
    []<>(pc[w] # "none" =>
           w \in gone \/ (next[w] > Len(events) /\ stream[w] = <<>>))
=============================================================================
