---------------------------- MODULE EventStream -----------------------------
(***************************************************************************)
(* The control channel between the orchestrator and its nodes: Subscribe,  *)
(* broadcastDelta and pushSeed (orchestrator/orchestrator.go), the handler *)
(* of GET /events (orchestrator/server.go), SubscribeEvents                *)
(* (protocol/client.go) and Node.Start with its event loop                 *)
(* (client/node.go).                                                       *)
(*                                                                         *)
(* The orchestrator keeps one buffered channel per connection and, in      *)
(* Orchestrator.subs, one channel per node.  Pushers take channels out of  *)
(* subs under the lock and send to them after releasing it; the handler of *)
(* a connection that is gone takes its node out of subs under the lock and *)
(* closes its channel after releasing it.                                  *)
(*                                                                         *)
(* `flow` is what a connection carries beyond the orchestrator's channel:  *)
(* the bytes under way and the client's own channel.  An event is its      *)
(* number; what is in it does not matter here.                             *)
(***************************************************************************)
EXTENDS Naturals, Sequences, FiniteSets

CONSTANTS
  Nodes,      \* the node daemons
  Conns,      \* connections that can be open or draining at a time
  None,       \* no connection and no node
  ServerCap,  \* capacity of the channel made by Subscribe
  FlowCap,    \* events a connection and the client's channel hold
  MaxEvents   \* bound: events pushed

ASSUME NoneAssumption == None \notin Conns \cup Nodes
ASSUME CapAssumption == {ServerCap, FlowCap, MaxEvents} \subseteq Nat \ {0}

VARIABLES
  orch,     \* is the orchestrator's process running?
  known,    \* Orchestrator.nodes
  subs,     \* Orchestrator.subs: node -> connection whose channel it gets
  pushes,   \* pushes that took their channels and have not sent to all yet
  events,   \* number of events so far
  owner,    \* the node a connection was opened by
  handler,  \* where the handler of a connection is
  chan,     \* what the orchestrator's channel for a connection buffers
  cut,      \* has the connection ended (so that r.Context() is done)?
  flow,     \* events sent over the connection and not handled
  node,     \* where a node's process is
  stream    \* the connection a node's event loop ranges over

hubVars  == <<orch, known, subs, pushes, events>>
connVars == <<owner, handler, chan, cut, flow>>
nodeVars == <<node, stream>>
vars == <<hubVars, connVars, nodeVars>>

Event == 1 .. MaxEvents

(* A push in progress.  A delta is broadcast by the goroutine of an HTTP   *)
(* handler, a seed is pushed by RunScheduledMutations.                     *)
Pushes == [event : Event, kind : {"delta", "seed"}, to : SUBSET Conns]

HandlerStates == {"serving", "closing", "closed"}
NodeStates == {"off", "registered", "running"}

Init ==
  /\ orch = "up" /\ known = {} /\ pushes = {} /\ events = 0
  /\ subs    = [n \in Nodes |-> None]
  /\ owner   = [c \in Conns |-> None]
  /\ handler = [c \in Conns |-> "closed"]
  /\ chan    = [c \in Conns |-> <<>>]
  /\ cut     = [c \in Conns |-> TRUE]
  /\ flow    = [c \in Conns |-> <<>>]
  /\ node    = [n \in Nodes |-> "off"]
  /\ stream  = [n \in Nodes |-> None]

Prefixes(s) == {SubSeq(s, 1, k) : k \in 0 .. Len(s)}

(***************************************************************************)
(* The node: Start registers, subscribes once and starts the event loop.   *)
(***************************************************************************)
Register(n) ==
  /\ node[n] = "off" /\ orch = "up"
  /\ known' = known \cup {n}
  /\ node' = [node EXCEPT ![n] = "registered"]
  /\ UNCHANGED <<orch, subs, pushes, events, connVars, stream>>

(* A connection nobody refers to any more can stand for a new one. *)
Unused(c) ==
  /\ handler[c] = "closed"
  /\ \A p \in pushes : c \notin p.to
  /\ \A n \in Nodes : stream[n] # c

(* GET /events: a fresh channel replaces whatever subs held for the node. *)
SubscribeAs(n, c) ==
  /\ node[n] = "registered" /\ orch = "up"
  /\ subs'    = [subs EXCEPT ![n] = c]
  /\ owner'   = [owner EXCEPT ![c] = n]
  /\ handler' = [handler EXCEPT ![c] = "serving"]
  /\ chan'    = [chan EXCEPT ![c] = <<>>]
  /\ cut'     = [cut EXCEPT ![c] = FALSE]
  /\ flow'    = [flow EXCEPT ![c] = <<>>]
  /\ node'    = [node EXCEPT ![n] = "running"]
  /\ stream'  = [stream EXCEPT ![n] = c]
  /\ UNCHANGED <<orch, known, pushes, events>>
Subscribe(n) == /\ \E c \in Conns : Unused(c)
                /\ SubscribeAs(n, CHOOSE c \in Conns : Unused(c))

(* Registering or subscribing fails: log.Fatalf. *)
StartFails(n) ==
  /\ node[n] = "registered" /\ orch = "down"
  /\ node' = [node EXCEPT ![n] = "off"]
  /\ UNCHANGED <<hubVars, connVars, stream>>

(* The event loop takes the next event, from a cut stream as well until it *)
(* is drained; handleEvent is Custody's.                                   *)
TakeEvent(n) ==
  /\ stream[n] # None /\ flow[stream[n]] # <<>>
  /\ flow' = [flow EXCEPT ![stream[n]] = Tail(@)]
  /\ UNCHANGED <<hubVars, owner, handler, chan, cut, nodeVars>>

(* The process dies with its channel; the orchestrator will learn that the *)
(* connection is gone.                                                     *)
NodeStops(n) ==
  /\ node[n] # "off"
  /\ node' = [node EXCEPT ![n] = "off"]
  /\ stream' = [stream EXCEPT ![n] = None]
  /\ cut'  = [c \in Conns |-> cut[c] \/ c = stream[n]]
  /\ flow' = [c \in Conns |-> IF c = stream[n] THEN <<>> ELSE flow[c]]
  /\ UNCHANGED <<hubVars, owner, handler, chan>>

(* The connection drops, or the timeout of the http.Client that opened it  *)
(* fires, which covers the response's body too.  What had not been read is *)
(* lost; nobody subscribes again.                                          *)
StreamCut(n) ==
  /\ stream[n] # None /\ ~cut[stream[n]]
  /\ cut' = [cut EXCEPT ![stream[n]] = TRUE]
  /\ \E rest \in Prefixes(flow[stream[n]]) :
       flow' = [flow EXCEPT ![stream[n]] = rest]
  /\ UNCHANGED <<hubVars, owner, handler, chan, nodeVars>>

(***************************************************************************)
(* The handler of GET /events.                                             *)
(***************************************************************************)

(* Mutant: the event is written and stays in the channel. *)
ServeTwice(c) ==
  /\ handler[c] = "serving" /\ chan[c] # <<>>
  /\ ~cut[c] /\ Len(flow[c]) < FlowCap
  /\ flow' = [flow EXCEPT ![c] = Append(@, Head(chan[c]))]
  /\ UNCHANGED <<hubVars, owner, handler, chan, cut, nodeVars>>

(* The select takes an event and writes it; nobody checks that the write   *)
(* to a connection that is gone fails.                                     *)
Serve(c) ==
  /\ handler[c] = "serving" /\ chan[c] # <<>>
  /\ cut[c] \/ Len(flow[c]) < FlowCap
  /\ chan' = [chan EXCEPT ![c] = Tail(@)]
  /\ flow' = IF cut[c] THEN flow
             ELSE [flow EXCEPT ![c] = Append(@, Head(chan[c]))]
  /\ UNCHANGED <<hubVars, owner, handler, cut, nodeVars>>

(* Mutant: the channel is closed before it is taken out of subs. *)
CloseFirst(c) ==
  /\ handler[c] = "serving" /\ cut[c]
  /\ handler' = [handler EXCEPT ![c] = "closing"]
  /\ UNCHANGED <<hubVars, owner, chan, cut, flow, nodeVars>>

(* The select takes ctx.Done and the deferred unsubscribe deletes what     *)
(* subs holds for the node, be it this connection's channel or a newer's.  *)
Unsubscribe(c) ==
  /\ handler[c] = "serving" /\ cut[c]
  /\ subs' = [subs EXCEPT ![owner[c]] = None]
  /\ handler' = [handler EXCEPT ![c] = "closing"]
  /\ UNCHANGED <<orch, known, pushes, events, owner, chan, cut, flow, nodeVars>>

(* ... and then closes the channel, outside the lock. *)
Close(c) ==
  /\ handler[c] = "closing"
  /\ handler' = [handler EXCEPT ![c] = "closed"]
  /\ owner' = [owner EXCEPT ![c] = None]
  /\ chan' = [chan EXCEPT ![c] = <<>>]
  /\ UNCHANGED <<hubVars, cut, flow, nodeVars>>

(***************************************************************************)
(* Pushing.                                                                *)
(***************************************************************************)
Subscribed == {subs[n] : n \in Nodes} \ {None}

(* broadcastDelta numbers the delta and copies the channels in one         *)
(* critical section ...                                                    *)
Broadcast ==
  /\ orch = "up" /\ events < MaxEvents
  /\ events' = events + 1
  /\ pushes' = IF Subscribed = {} THEN pushes
               ELSE pushes \cup {[event |-> events + 1, kind |-> "delta",
                                  to |-> Subscribed]}
  /\ UNCHANGED <<orch, known, subs, connVars, nodeVars>>

(* Mutant: nobody asks whether the node is subscribed. *)
PushSeedUnchecked(n) ==
  /\ orch = "up" /\ events < MaxEvents
  /\ \A p \in pushes : p.kind # "seed"
  /\ events' = events + 1
  /\ pushes' = pushes \cup {[event |-> events + 1, kind |-> "seed", to |-> {subs[n]}]}
  /\ UNCHANGED <<orch, known, subs, connVars, nodeVars>>

(* ... and so does pushSeed with the one channel of the target's node; the *)
(* scheduler pushes one seed after another.                                *)
PushSeed(n) ==
  /\ orch = "up" /\ events < MaxEvents
  /\ \A p \in pushes : p.kind # "seed"
  /\ events' = events + 1
  /\ pushes' = IF subs[n] = None THEN pushes
               ELSE pushes \cup {[event |-> events + 1, kind |-> "seed",
                                  to |-> {subs[n]}]}
  /\ UNCHANGED <<orch, known, subs, connVars, nodeVars>>

SentTo(p, c) ==
  pushes' = (pushes \ {p}) \cup
              (IF p.to = {c} THEN {} ELSE {[p EXCEPT !.to = @ \ {c}]})

(* Mutant: the pusher writes to the connection itself. *)
SendDirectly(p, c) ==
  /\ c \in p.to /\ handler[c] # "closed"
  /\ cut[c] \/ Len(flow[c]) < FlowCap
  /\ flow' = IF cut[c] THEN flow ELSE [flow EXCEPT ![c] = Append(@, p.event)]
  /\ SentTo(p, c)
  /\ UNCHANGED <<orch, known, subs, events, owner, handler, chan, cut, nodeVars>>

(* Mutant: the pusher does not count a channel it has sent to as served. *)
SendAgain(p, c) ==
  /\ c \in p.to /\ handler[c] # "closed"
  /\ chan' = IF Len(chan[c]) < ServerCap
             THEN [chan EXCEPT ![c] = Append(@, p.event)]
             ELSE chan
  /\ UNCHANGED <<hubVars, owner, handler, cut, flow, nodeVars>>

(* The send itself, outside the lock: a full channel drops the event. *)
Send(p, c) ==
  /\ c \in p.to /\ handler[c] # "closed"
  /\ chan' = IF Len(chan[c]) < ServerCap
             THEN [chan EXCEPT ![c] = Append(@, p.event)]
             ELSE chan
  /\ SentTo(p, c)
  /\ UNCHANGED <<orch, known, subs, events, owner, handler, cut, flow, nodeVars>>

(* Sending on a closed channel panics.  In an HTTP handler the server      *)
(* recovers, and the connections still to be served get nothing.           *)
SendPanics(p, c) ==
  /\ c \in p.to /\ handler[c] = "closed" /\ p.kind = "delta"
  /\ pushes' = pushes \ {p}
  /\ UNCHANGED <<orch, known, subs, events, connVars, nodeVars>>

(* The orchestrator's process ends; it keeps nothing. *)
Dies ==
  /\ orch' = "down" /\ known' = {} /\ pushes' = {}
  /\ subs'    = [n \in Nodes |-> None]
  /\ owner'   = [c \in Conns |-> None]
  /\ handler' = [c \in Conns |-> "closed"]
  /\ chan'    = [c \in Conns |-> <<>>]
  /\ cut'     = [c \in Conns |-> TRUE]
  /\ flow' \in [Conns -> UNION {Prefixes(flow[c]) : c \in Conns}]
  /\ \A c \in Conns : flow'[c] \in Prefixes(flow[c])
  /\ UNCHANGED <<events, nodeVars>>

(* In the scheduler's goroutine nobody recovers from the panic. *)
SeedPanics(p, c) ==
  /\ c \in p.to /\ handler[c] = "closed" /\ p.kind = "seed"
  /\ Dies

OrchestratorStops == orch = "up" /\ Dies

OrchestratorStarts ==
  /\ orch = "down" /\ orch' = "up"
  /\ UNCHANGED <<known, subs, pushes, events, connVars, nodeVars>>

(***************************************************************************)
(* The specification.                                                      *)
(***************************************************************************)
NodeStep(n) == Register(n) \/ Subscribe(n) \/ StartFails(n)
               \/ TakeEvent(n) \/ NodeStops(n) \/ StreamCut(n)
Handle(c) == Serve(c) \/ Unsubscribe(c) \/ Close(c)
Deliver(p) == \E c \in Conns : Send(p, c) \/ SendPanics(p, c) \/ SeedPanics(p, c)

Next ==
  \/ \E n \in Nodes : NodeStep(n)
  \/ \E c \in Conns : Handle(c)
  \/ Broadcast
  \/ \E n \in Nodes : PushSeed(n)
  \/ \E p \in pushes : Deliver(p)
  \/ OrchestratorStops
  \/ OrchestratorStarts

Spec == Init /\ [][Next]_vars

(* The orchestrator's goroutines that push keep running.  Nothing is        *)
(* assumed of the handlers, nor of the nodes, whose event loops may be     *)
(* stuck.                                                                  *)
Fairness == WF_vars(\E p \in pushes : Deliver(p))
FairSpec == Spec /\ Fairness
-----------------------------------------------------------------------------
(***************************************************************************)
(* Properties.                                                             *)
(***************************************************************************)

(* Type correctness of the model's state. *)
TypeOK ==
  /\ orch \in {"up", "down"} /\ known \subseteq Nodes
  /\ subs \in [Nodes -> Conns \cup {None}]
  /\ pushes \subseteq Pushes /\ events \in Nat
  /\ owner \in [Conns -> Nodes \cup {None}]
  /\ handler \in [Conns -> HandlerStates]
  /\ chan \in [Conns -> Seq(Event)] /\ flow \in [Conns -> Seq(Event)]
  /\ cut \in [Conns -> BOOLEAN]
  /\ node \in [Nodes -> NodeStates]
  /\ stream \in [Nodes -> Conns \cup {None}]

(* Whoever looks a channel up in subs under the lock finds one of that     *)
(* node's that is still open: a handler deletes the entry before it closes *)
(* the channel, and a newer stream's entry is never left pointing at an    *)
(* older one's channel.  What a pusher took earlier may be closed: it is   *)
(* the only way for a send to panic.                                       *)
SubscribedIsOpen ==
  \A n \in Nodes : subs[n] # None =>
    owner[subs[n]] = n /\ handler[subs[n]] = "serving"

(* No subscriber holds up the control plane, not even one that handles     *)
(* nothing any more: every push ends (orchestrator.go:182).                *)
PushesEnd ==
  \A e \in Event :
    (\E p \in pushes : p.event = e) ~> ~ \E p \in pushes : p.event = e

(* What is on its way to a node's event loop. *)
Pending(n) ==
  IF stream[n] = None THEN <<>>
  ELSE flow[stream[n]] \o (IF cut[stream[n]] THEN <<>> ELSE chan[stream[n]])

Queue(n) == INSTANCE EventQueue
            WITH queue <- Pending(n), Capacity <- ServerCap + FlowCap

(* Between the pushers and a node's event loop lies a queue that keeps the *)
(* order of the sends and never holds an event twice, across restarts and  *)
(* stale handlers.                                                         *)
QueuePerNode ==
  /\ \A n \in Nodes : Queue(n)!Init
  /\ [][\A n \in Nodes : Queue(n)!Next]_vars

Holds(s, e) == \E i \in 1 .. Len(s) : s[i] = e

(* The events so far that no push will send to a connection of n any more. *)
Spent(n) ==
  {e \in 1 .. events : \A p \in pushes, c \in Conns :
                         ~(p.event = e /\ c \in p.to /\ owner[c] = n)}

(* A node handles no event twice, however long ago it was given it, on     *)
(* whichever stream and in whichever process (broadcastDelta, pushSeed):   *)
(* an event enters its queue in the step that spends it, and what is spent *)
(* stays so.                                                               *)
HandedOutOnce ==
  [][\A n \in Nodes :
       /\ Spent(n) \subseteq Spent(n)'
       /\ \A e \in Event :
            Holds(Pending(n), e)' /\ ~Holds(Pending(n), e)
              => e \in Spent(n)' \ Spent(n)]_vars
=============================================================================
