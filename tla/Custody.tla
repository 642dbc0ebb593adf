------------------------------ MODULE Custody ------------------------------
(***************************************************************************)
(* One share in the custody of one node: how the node accepts it, how its  *)
(* goroutines mutate it (client/node.go, client/watchdog.go), what its     *)
(* SQLite table holds meanwhile (store/store.go) and what the orchestrator *)
(* comes to believe about it (orchestrator/orchestrator.go).               *)
(*                                                                         *)
(* Three kinds of goroutine can mutate the same share: the event loop      *)
(* started by Node.Start (scheduled seeds), the watchdog's polling loop    *)
(* and the command line's simulate-attack (cold mutations).  Nothing       *)
(* serialises them, so each SQL statement, each critical section and each  *)
(* HTTP exchange of a mutation is a step of its own.                       *)
(*                                                                         *)
(* A pseudo-ID is HMAC(previous pseudo-ID, seed): it is modelled by the    *)
(* sequence of seeds that led to it, so that two pseudo-IDs are equal      *)
(* exactly when they come from the same seeds.  A row's key and ciphertext *)
(* are written by one statement with its pseudo-ID and are not modelled.   *)
(***************************************************************************)
EXTENDS Integers, Sequences

CONSTANTS
  EventLoop,     \* the goroutine that handles pushed events
  Reactors,      \* the goroutines that may run Watchdog.react
  ChainLength,   \* coldChainLength: links of the cold hash chain
  ChannelCap,    \* events buffered between the orchestrator and the node
  Faults,        \* which may happen: "crash", "sql", "net", "cut", "orch"
  MaxSeeds,      \* bound: seeds the orchestrator pushes
  MaxReactions,  \* bound: reactions started
  MaxFaults      \* bound: crashes, SQL errors and orchestrator restarts

ASSUME ThreadsAssumption == EventLoop \notin Reactors
ASSUME BoundsAssumption ==
  /\ ChainLength \in Nat \ {0}
  /\ {ChannelCap, MaxSeeds, MaxReactions, MaxFaults} \subseteq Nat
  /\ Faults \subseteq {"crash", "sql", "net", "cut", "orch"}

VARIABLES
  accept,       \* how far the node is in taking custody
  announcing,   \* is the route announcement still on its way?
  rows,         \* the fragments table: pseudo-ID -> epoch
  provisioned,  \* does Node.chains hold the fragment's chain?
  next,         \* ColdChain.Next
  chan,         \* seeds pushed to the node and not handled yet
  pc,           \* where each goroutine is
  todo,         \* pids a reaction has still to mutate
  pid,          \* the pid a goroutine is mutating
  seed,         \* the seed it mutates with
  epoch,        \* the epoch of the fragment it read
  calls,        \* acks sent and not fully handled
  routes,       \* Orchestrator.routes: pseudo-ID -> entry
  anchor,       \* Orchestrator.chainAnchors, for this chain
  seeds, reactions, faults,  \* counters for the bounds
  raced         \* history: were two goroutines inside Consume at once?

custodyVars == <<accept, announcing, rows, provisioned, next>>
threadVars  == <<chan, pc, todo, pid, seed, epoch>>
orchVars    == <<calls, routes, anchor>>
history     == <<seeds, reactions, faults, raced>>
vars == <<custodyVars, threadVars, orchVars, history>>

Threads == Reactors \cup {EventLoop}

(* The first pseudo-ID: Split draws it, no seed has been applied yet. *)
FirstPID == <<>>
PIDs == Seq(Nat)

(* crypto.NextPseudoID. *)
NextPseudoID(p, s) == Append(p, s)

(* Links of the chain are numbered as BuildChain numbers them: link i is   *)
(* the hash of link i+1, and link ChainLength is the announced tip.  Seeds *)
(* drawn by the orchestrator are numbered above every link.                *)
Links == 0 .. ChainLength
ServerSeed(k) == ChainLength + 1 + k
Unknown == -1    \* chainAnchors has no entry

(* crypto.VerifyStep: is `revealed` the hash of `previouslyTrusted`? *)
VerifyStep(revealed, previouslyTrusted) == revealed = previouslyTrusted - 1

(* INSERT ... ON CONFLICT DO UPDATE, and DELETE, on a table keyed by pid. *)
Upsert(table, p, value) ==
  [q \in DOMAIN table \cup {p} |-> IF q = p THEN value ELSE table[q]]
Without(table, p) == [q \in DOMAIN table \ {p} |-> table[q]]
Empty == [q \in {} |-> 0]

(* The endpoint of an entry is the one announced by the node, or, where    *)
(* Ack finds no entry to take it from, the string ack.NodeID.              *)
Endpoints == {"endpoint", "node_id"}
RouteEntry == [endpoint : Endpoints, epoch : Nat]

Calls == [by : Threads, old : PIDs, new : PIDs, epoch : Nat, seed : Nat,
          stage : {"check", "trust", "route"},
          verdict : {"none", "unknown", "failed", "ok"}]

Newer(t) == NextPseudoID(pid[t], seed[t])

(* A pushed event names the pid to mutate and the seed. *)
Events == [pid : PIDs, seed : Nat]

(* Between the orchestrator's push and the event loop there is no more     *)
(* than this queue (EventStream has the channels and connections).         *)
Stream == INSTANCE EventQueue
          WITH queue <- chan, Event <- Events, Capacity <- ChannelCap

(* Where a goroutine can be. *)
Labels == {"idle", "pick", "consume", "index", "decrement", "get", "put",
           "delete", "ack", "wait"}

(***************************************************************************)
(* Taking custody.                                                         *)
(***************************************************************************)
Init ==
  /\ accept = "offered" /\ announcing = FALSE
  /\ rows = Empty /\ provisioned = FALSE /\ next = -1
  /\ chan = <<>>
  /\ pc    = [t \in Threads |-> "idle"]
  /\ todo  = [t \in Threads |-> {}]
  /\ pid   = [t \in Threads |-> FirstPID]
  /\ seed  = [t \in Threads |-> 0]
  /\ epoch = [t \in Threads |-> 0]
  /\ calls = {} /\ routes = Empty /\ anchor = Unknown
  /\ seeds = 0 /\ reactions = 0 /\ faults = 0 /\ raced = FALSE

(* Counted faults. *)
Fault(kind) == kind \in Faults /\ faults < MaxFaults /\ faults' = faults + 1

(* registerNewFragment: build the chain, keep it in memory, announce. *)
Provision ==
  /\ accept = "offered"
  /\ accept' = "announcing" /\ announcing' = TRUE
  /\ provisioned' = TRUE /\ next' = ChainLength - 1
  /\ UNCHANGED <<rows, threadVars, orchVars, history>>

(* Orchestrator.AnnounceRoute, in one critical section.  The node may have *)
(* given up waiting for it.                                                *)
AnnounceRoute ==
  /\ announcing
  /\ announcing' = FALSE
  /\ routes' = Upsert(routes, FirstPID, [endpoint |-> "endpoint", epoch |-> 0])
  /\ anchor' = ChainLength
  /\ accept' = IF accept = "announcing" THEN "storing" ELSE accept
  /\ UNCHANGED <<rows, provisioned, next, threadVars, calls, history>>

(* The announcement fails (refused, or timed out and perhaps still on its  *)
(* way): logged, and custody goes on.                                      *)
AnnounceFails ==
  /\ "net" \in Faults
  /\ accept = "announcing"
  /\ accept' = "storing"
  /\ announcing' \in {TRUE, FALSE}
  /\ UNCHANGED <<rows, provisioned, next, threadVars, orchVars, history>>

StoreFragment ==
  /\ accept = "storing"
  /\ accept' = "held"
  /\ rows' = Upsert(rows, FirstPID, 0)
  /\ UNCHANGED <<announcing, provisioned, next, threadVars, orchVars, history>>

(* PutFragment fails: the handler answers 500 and the sender gives up. *)
StoreFails ==
  /\ accept = "storing"
  /\ Fault("sql")
  /\ accept' = "refused"
  /\ UNCHANGED <<announcing, rows, provisioned, next, threadVars, orchVars,
                 seeds, reactions, raced>>

(***************************************************************************)
(* Reactions: Watchdog.react lists the pids and cold-mutates each of them. *)
(***************************************************************************)

(* Where a goroutine goes when applyMutation, or ColdMutate, returns: with *)
(* an error or without, the loop around it goes on.                        *)
Return(t) ==
  /\ pc'    = [pc EXCEPT ![t] = IF t = EventLoop THEN "idle" ELSE "pick"]
  /\ pid'   = [pid EXCEPT ![t] = FirstPID]
  /\ seed'  = [seed EXCEPT ![t] = 0]
  /\ epoch' = [epoch EXCEPT ![t] = 0]

Goto(t, label) == pc' = [pc EXCEPT ![t] = label]

React(t) ==
  /\ pc[t] = "idle" /\ t \in Reactors
  /\ reactions < MaxReactions /\ reactions' = reactions + 1
  /\ DOMAIN rows # {}
  /\ todo' = [todo EXCEPT ![t] = DOMAIN rows]
  /\ Goto(t, "pick")
  /\ UNCHANGED <<custodyVars, chan, pid, seed, epoch, orchVars, seeds, faults,
                 raced>>

(* ColdMutate's GetFragment and lookup in Node.chains; an error of either  *)
(* is logged and the loop continues.                                       *)
PickPID(t, p) ==
  /\ pc[t] = "pick" /\ p \in todo[t]
  /\ todo' = [todo EXCEPT ![t] = @ \ {p}]
  /\ IF p \in DOMAIN rows /\ provisioned
     THEN pid' = [pid EXCEPT ![t] = p] /\ Goto(t, "consume")
     ELSE UNCHANGED <<pid, pc>>
  /\ UNCHANGED <<custodyVars, chan, seed, epoch, orchVars, history>>

ReactionEnds(t) ==
  /\ pc[t] = "pick" /\ todo[t] = {}
  /\ Goto(t, "idle")
  /\ UNCHANGED <<custodyVars, chan, todo, pid, seed, epoch, orchVars, history>>

(* Between its check of Next and its decrement a goroutine relies on Next  *)
(* staying as it is.  Consume takes no lock (node.go:32), and the watchdog *)
(* and the command line both call it.                                      *)
InConsume(t) == pc[t] \in {"index", "decrement"}
Enter(t) ==
  /\ Goto(t, "index")
  /\ raced' = (raced \/ \E u \in Threads \ {t} : InConsume(u))

(* Mutant: Consume without its check for an exhausted chain. *)
ConsumeCheckUnchecked(t) ==
  /\ pc[t] = "consume"
  /\ seed' = [seed EXCEPT ![t] = next]
  /\ Enter(t)
  /\ UNCHANGED <<custodyVars, chan, todo, pid, epoch, orchVars, seeds,
                 reactions, faults>>

(* ColdChain.Consume runs outside Node.mu, and reads Next three times: to  *)
(* see whether a link is left ...                                          *)
ConsumeCheck(t) ==
  /\ pc[t] = "consume"
  /\ IF next < 0
     THEN Return(t) /\ UNCHANGED raced
     ELSE seed' = [seed EXCEPT ![t] = next] /\ Enter(t) /\ UNCHANGED <<pid, epoch>>
  /\ UNCHANGED <<custodyVars, chan, todo, orchVars, seeds, reactions, faults>>

(* ... to take the link, which without a lock is the one Next is at now or *)
(* the one it was at when it was checked ...                               *)
ConsumeIndex(t) ==
  /\ pc[t] = "index"
  /\ \E link \in {seed[t], next} :
       link >= 0 /\ seed' = [seed EXCEPT ![t] = link]
  /\ Goto(t, "decrement")
  /\ UNCHANGED <<custodyVars, chan, todo, pid, epoch, orchVars, history>>

(* Mutant: Consume returns the link without moving Next past it. *)
ConsumeWithoutDecrement(t) ==
  /\ pc[t] = "decrement"
  /\ Goto(t, "get")
  /\ UNCHANGED <<custodyVars, chan, todo, pid, seed, epoch, orchVars, history>>

(* ... and to decrement it: the build may store the decrement of the value *)
(* read before or of the one there.                                        *)
ConsumeDecrement(t) ==
  /\ pc[t] = "decrement"
  /\ next' \in {seed[t] - 1, next - 1}
  /\ Goto(t, "get")
  /\ UNCHANGED <<accept, announcing, rows, provisioned, chan, todo, pid, seed,
                 epoch, orchVars, history>>

(***************************************************************************)
(* Scheduled mutations.                                                    *)
(***************************************************************************)

(* RunScheduledMutations picks a live route and pushes a fresh seed, which *)
(* finds no subscriber, a full channel, or its way to the node.  (Map      *)
(* deltas and the seeds of other shares, which take up room in the same    *)
(* channels, are not modelled.)                                            *)
PushSeed(p) ==
  /\ p \in DOMAIN routes
  /\ seeds < MaxSeeds /\ seeds' = seeds + 1
  /\ \/ Stream!Push([pid |-> p, seed |-> ServerSeed(seeds)])
     \/ Stream!Drop
  /\ UNCHANGED <<custodyVars, pc, todo, pid, seed, epoch, orchVars, reactions,
                 faults, raced>>

(* The stream is cut with events under way. *)
EventsLost ==
  /\ "cut" \in Faults
  /\ Stream!Lose
  /\ UNCHANGED <<custodyVars, pc, todo, pid, seed, epoch, orchVars, history>>

(* handleEvent, up to its call of applyMutation. *)
HandleEvent ==
  /\ pc[EventLoop] = "idle" /\ Stream!Take(Head(chan))
  /\ pid' = [pid EXCEPT ![EventLoop] = Head(chan).pid]
  /\ seed' = [seed EXCEPT ![EventLoop] = Head(chan).seed]
  /\ Goto(EventLoop, "get")
  /\ UNCHANGED <<custodyVars, todo, epoch, orchVars, history>>

(***************************************************************************)
(* applyMutation: GetFragment, PutFragment, DeleteFragment, Ack.           *)
(***************************************************************************)
(* Mutant: the old row is taken out of the table when it is read. *)
GetFragmentTaking(t) ==
  /\ pc[t] = "get" /\ pid[t] \in DOMAIN rows
  /\ epoch' = [epoch EXCEPT ![t] = rows[pid[t]]]
  /\ rows' = Without(rows, pid[t])
  /\ Goto(t, "put")
  /\ UNCHANGED <<accept, announcing, provisioned, next, chan, todo, pid, seed,
                 orchVars, history>>

GetFragment(t) ==
  /\ pc[t] = "get"
  /\ IF pid[t] \in DOMAIN rows
     THEN /\ epoch' = [epoch EXCEPT ![t] = rows[pid[t]]]
          /\ Goto(t, "put")
          /\ UNCHANGED <<pid, seed>>
     ELSE Return(t)
  /\ UNCHANGED <<custodyVars, chan, todo, orchVars, history>>

(* Mutants: the fragment keeps its pid, or its epoch. *)
PutUnderOldPID(t) ==
  /\ pc[t] = "put"
  /\ rows' = Upsert(rows, pid[t], epoch[t] + 1)
  /\ Goto(t, "delete")
  /\ UNCHANGED <<accept, announcing, provisioned, next, chan, todo, pid, seed,
                 epoch, orchVars, history>>

PutWithOldEpoch(t) ==
  /\ pc[t] = "put"
  /\ rows' = Upsert(rows, Newer(t), epoch[t])
  /\ Goto(t, "delete")
  /\ UNCHANGED <<accept, announcing, provisioned, next, chan, todo, pid, seed,
                 epoch, orchVars, history>>

PutFragment(t) ==
  /\ pc[t] = "put"
  /\ rows' = Upsert(rows, Newer(t), epoch[t] + 1)
  /\ Goto(t, "delete")
  /\ UNCHANGED <<accept, announcing, provisioned, next, chan, todo, pid, seed,
                 epoch, orchVars, history>>

(* Mutant: the wrong row goes. *)
DeleteNewFragment(t) ==
  /\ pc[t] = "delete"
  /\ rows' = Without(rows, Newer(t))
  /\ Goto(t, "ack")
  /\ UNCHANGED <<accept, announcing, provisioned, next, chan, todo, pid, seed,
                 epoch, orchVars, history>>

DeleteFragment(t) ==
  /\ pc[t] = "delete"
  /\ rows' = Without(rows, pid[t])
  /\ Goto(t, "ack")
  /\ UNCHANGED <<accept, announcing, provisioned, next, chan, todo, pid, seed,
                 epoch, orchVars, history>>

(* Mutant: an error of PutFragment is ignored, and the mutation is acked. *)
SQLErrorIgnored(t) ==
  /\ pc[t] = "put"
  /\ Fault("sql")
  /\ Goto(t, "ack")
  /\ UNCHANGED <<custodyVars, chan, todo, pid, seed, epoch, orchVars, seeds,
                 reactions, raced>>

(* Any statement of applyMutation may fail; it returns at once. *)
SQLError(t) ==
  /\ pc[t] \in {"get", "put", "delete"}
  /\ Fault("sql")
  /\ Return(t)
  /\ UNCHANGED <<custodyVars, chan, todo, orchVars, seeds, reactions, raced>>

(* The ack is an HTTP exchange the goroutine waits for. *)
SendAck(t) ==
  /\ pc[t] = "ack"
  /\ calls' = calls \cup
       {[by |-> t, old |-> pid[t], new |-> Newer(t), epoch |-> epoch[t] + 1,
         seed |-> seed[t], verdict |-> "none",
         stage |-> IF t = EventLoop THEN "route" ELSE "check"]}
  /\ Goto(t, "wait")
  /\ UNCHANGED <<custodyVars, chan, todo, pid, seed, epoch, routes, anchor,
                 history>>

(* The orchestrator cannot be reached: logged, never retried. *)
AckRefused(t) ==
  /\ "net" \in Faults
  /\ pc[t] = "ack"
  /\ Return(t)
  /\ UNCHANGED <<custodyVars, chan, todo, orchVars, history>>

(* Mutant: an HTTP client without a timeout waits for the answer. *)
AckWithoutTimeout(t) ==
  /\ "net" \in Faults
  /\ pc[t] = "wait" /\ ~ \E c \in calls : c.by = t
  /\ Return(t)
  /\ UNCHANGED <<custodyVars, chan, todo, orchVars, history>>

(* The client's timeout fires; the orchestrator may still handle the ack. *)
AckTimeout(t) ==
  /\ "net" \in Faults
  /\ pc[t] = "wait"
  /\ Return(t)
  /\ UNCHANGED <<custodyVars, chan, todo, orchVars, history>>

(***************************************************************************)
(* Orchestrator.Ack takes its lock three times.                            *)
(***************************************************************************)
Moved(c, d) == calls' = (calls \ {c}) \cup {d}

(* Mutant: any link below the anchor is taken for its successor. *)
AckCheckAnyLink(c) ==
  /\ c.stage = "check"
  /\ LET verdict == IF anchor = Unknown THEN "unknown"
                    ELSE IF c.seed < anchor THEN "ok" ELSE "failed"
     IN Moved(c, [c EXCEPT !.verdict = verdict,
                           !.stage = IF verdict = "ok" THEN "trust" ELSE "route"])
  /\ UNCHANGED <<custodyVars, threadVars, routes, anchor, history>>

(* First section: read the anchor of a cold ack's chain, then verify. *)
AckCheck(c) ==
  /\ c.stage = "check"
  /\ LET verdict == IF anchor = Unknown THEN "unknown"
                    ELSE IF VerifyStep(c.seed, anchor) THEN "ok" ELSE "failed"
     IN Moved(c, [c EXCEPT !.verdict = verdict,
                           !.stage = IF verdict = "ok" THEN "trust" ELSE "route"])
  /\ UNCHANGED <<custodyVars, threadVars, routes, anchor, history>>

(* Second section: the verified link becomes the anchor. *)
AckTrust(c) ==
  /\ c.stage = "trust"
  /\ anchor' = c.seed
  /\ Moved(c, [c EXCEPT !.stage = "route"])
  /\ UNCHANGED <<custodyVars, threadVars, routes, history>>

(* Mutant: the route of the old pid stays. *)
AckRouteKeepingOld(c) ==
  /\ c.stage = "route"
  /\ LET endpoint == IF c.old \in DOMAIN routes THEN routes[c.old].endpoint
                     ELSE "node_id"
     IN routes' = Upsert(routes, c.new, [endpoint |-> endpoint, epoch |-> c.epoch])
  /\ calls' = calls \ {c}
  /\ IF pc[c.by] = "wait" /\ pid[c.by] = c.old /\ seed[c.by] = c.seed
     THEN Return(c.by)
     ELSE UNCHANGED <<pc, pid, seed, epoch>>
  /\ UNCHANGED <<custodyVars, chan, todo, anchor, history>>

(* Third section: the route moves to the new pid, and the call returns to  *)
(* the goroutine if that still waits for it.                               *)
AckRoute(c) ==
  /\ c.stage = "route"
  /\ LET endpoint == IF c.old \in DOMAIN routes THEN routes[c.old].endpoint
                     ELSE "node_id"
     IN routes' = Upsert(Without(routes, c.old), c.new,
                         [endpoint |-> endpoint, epoch |-> c.epoch])
  /\ calls' = calls \ {c}
  /\ IF pc[c.by] = "wait" /\ pid[c.by] = c.old /\ seed[c.by] = c.seed
     THEN Return(c.by)
     ELSE UNCHANGED <<pc, pid, seed, epoch>>
  /\ UNCHANGED <<custodyVars, chan, todo, anchor, history>>

(***************************************************************************)
(* Restarts.  The node keeps its database only: goroutines, buffered       *)
(* events and Node.chains are gone.  The orchestrator keeps nothing.       *)
(***************************************************************************)
ProcessEnds ==
  /\ accept' = IF accept \in {"announcing", "storing"} THEN "refused" ELSE accept
  /\ provisioned' = FALSE /\ next' = -1 /\ chan' = <<>>
  /\ pc'    = [t \in Threads |-> "idle"]
  /\ todo'  = [t \in Threads |-> {}]
  /\ pid'   = [t \in Threads |-> FirstPID]
  /\ seed'  = [t \in Threads |-> 0]
  /\ epoch' = [t \in Threads |-> 0]
  /\ UNCHANGED <<announcing, rows, orchVars, seeds, reactions, raced>>

NodeRestart == Fault("crash") /\ ProcessEnds

(* Consume takes the link of an index another goroutine has moved below    *)
(* zero since the check: the index panics, nothing recovers it, and the    *)
(* process ends.                                                           *)
ConsumePanics(t) ==
  /\ pc[t] = "index" /\ next < 0
  /\ ProcessEnds
  /\ UNCHANGED faults

OrchestratorRestart ==
  /\ Fault("orch")
  /\ calls' = {} /\ routes' = Empty /\ anchor' = Unknown
  /\ announcing' = FALSE
  /\ accept' = IF accept = "announcing" THEN "storing" ELSE accept
  /\ LET cut == {t \in Threads : pc[t] = "wait"}
     IN /\ pc'    = [t \in Threads |-> IF t \notin cut THEN pc[t]
                                       ELSE IF t = EventLoop THEN "idle" ELSE "pick"]
        /\ pid'   = [t \in Threads |-> IF t \in cut THEN FirstPID ELSE pid[t]]
        /\ seed'  = [t \in Threads |-> IF t \in cut THEN 0 ELSE seed[t]]
        /\ epoch' = [t \in Threads |-> IF t \in cut THEN 0 ELSE epoch[t]]
  /\ UNCHANGED <<rows, provisioned, next, chan, todo, seeds, reactions, raced>>

(***************************************************************************)
(* The specification.                                                      *)
(***************************************************************************)
Mutate(t) == GetFragment(t) \/ PutFragment(t) \/ DeleteFragment(t) \/ SQLError(t)
             \/ SendAck(t) \/ AckRefused(t) \/ AckTimeout(t)
Cold(t) == (\E p \in todo[t] : PickPID(t, p)) \/ ReactionEnds(t)
           \/ ConsumeCheck(t) \/ ConsumeIndex(t) \/ ConsumeDecrement(t)
Accept == Provision \/ AnnounceRoute \/ AnnounceFails \/ StoreFragment \/ StoreFails
HandleAck(c) == AckCheck(c) \/ AckTrust(c) \/ AckRoute(c)

Next ==
  \/ Accept
  \/ \E t \in Threads : React(t) \/ Cold(t) \/ ConsumePanics(t) \/ Mutate(t)
  \/ HandleEvent
  \/ \E p \in DOMAIN routes : PushSeed(p)
  \/ EventsLost
  \/ \E c \in calls : HandleAck(c)
  \/ NodeRestart
  \/ OrchestratorRestart

Spec == Init /\ [][Next]_vars

(* The node's own goroutines keep running, and its HTTP client gives up    *)
(* after ten seconds; nothing is assumed of the orchestrator.              *)
Fairness == /\ \A t \in Threads :
                 WF_vars(Cold(t) \/ ConsumePanics(t) \/ Mutate(t))
            /\ WF_vars(HandleEvent)
FairSpec == Spec /\ Fairness
-----------------------------------------------------------------------------
(***************************************************************************)
(* Properties.                                                             *)
(***************************************************************************)

(* Type correctness of the model's state. *)
TypeOK ==
  /\ accept \in {"offered", "announcing", "storing", "held", "refused"}
  /\ announcing \in BOOLEAN /\ provisioned \in BOOLEAN
  /\ DOMAIN rows \subseteq PIDs /\ rows \in [DOMAIN rows -> Nat]
  /\ next \in Int
  /\ chan \in Seq(Events)
  /\ pc \in [Threads -> Labels]
  /\ todo \in [Threads -> SUBSET PIDs]
  /\ pid \in [Threads -> PIDs] /\ seed \in [Threads -> Nat]
  /\ epoch \in [Threads -> Nat]
  /\ calls \subseteq Calls
  /\ DOMAIN routes \subseteq PIDs /\ routes \in [DOMAIN routes -> RouteEntry]
  /\ anchor \in Links \cup {Unknown}
  /\ {seeds, reactions, faults} \subseteq Nat /\ raced \in BOOLEAN

(* Once the node has accepted custody, its table holds the share at every  *)
(* moment: between the statements of concurrent mutations, after an SQL    *)
(* error and after a crash (applyMutation puts before it deletes).         *)
ShareNeverLost == accept = "held" => DOMAIN rows # {}

(* A share's identity never falls back: whatever epoch the table held      *)
(* before a step, a crash included, it holds one at least as recent after. *)
IdentityAdvances ==
  [][\A p \in DOMAIN rows : \E q \in DOMAIN rows' : rows'[q] >= rows[p]]_vars

(* Once the node has accepted custody, the orchestrator knows of no        *)
(* identity the node's disk does not: every route's epoch is matched by a  *)
(* stored row, so that a crash after the ack cannot leave the route ahead  *)
(* of the share.  (Before that it may: registerNewFragment announces the   *)
(* route, node.go:161, and only then is the share stored.)                 *)
RouteNeverAhead ==
  accept = "held" =>
    \A p \in DOMAIN routes : \E q \in DOMAIN rows : rows[q] >= routes[p].epoch

(* With no mutation under way, the node holds at most one fragment of the  *)
(* group (store/store.go:170).                                             *)
Quiet == /\ \A t \in Threads : pc[t] = "idle"
         /\ calls = {}
AtMostOneFragment == Quiet => \A p, q \in DOMAIN rows : p = q

(* A link of the announced chain passes verification (hashchain.go:19).    *)
GenuineLinksVerify == \A c \in calls : c.verdict # "failed"

(* As long as only scheduled seeds mutate the share and nothing but the    *)
(* event stream fails, the orchestrator routes to the one fragment the     *)
(* node holds, by its current pseudo-ID and with its epoch, whenever       *)
(* nothing is under way: a seed that was dropped, that was lost with the   *)
(* stream, or that came for a pseudo-ID already rotated away, leaves no    *)
(* trace in either table.                                                  *)
RoutesMatchRows ==
  Quiet /\ accept = "held" /\ reactions = 0 /\ faults = 0 /\ "net" \notin Faults =>
    \E p \in DOMAIN rows : /\ DOMAIN rows = {p} /\ DOMAIN routes = {p}
                           /\ routes[p].epoch = rows[p]

(* Unless two goroutines raced in Consume, the orchestrator trusts no link *)
(* the node has not revealed: while the node has its chain, the next link  *)
(* it will reveal is below the anchor, whichever goroutines reacted and    *)
(* whatever acks were lost, late or overtaken (ColdMutate, Ack).           *)
AnchorAheadOfChain ==
  ~raced /\ provisioned /\ anchor # Unknown => next < anchor

(* Unless two goroutines raced in Consume, the trusted anchor walks down   *)
(* the chain one link at a time although Ack verifies and stores it in     *)
(* different critical sections and serves any number of acks at once; only *)
(* an announcement or a restart of the orchestrator resets it.             *)
AnchorWalksChain ==
  [][raced' \/ anchor' \in {anchor, anchor - 1, ChainLength, Unknown}]_vars

(* A node that reacts never goes down of itself: where its process ends    *)
(* without a crash of the environment's, two goroutines raced in Consume   *)
(* and one indexed the exhausted chain.                                    *)
OnlyRacesPanic ==
  [][provisioned /\ ~provisioned' /\ faults' = faults => raced]_vars

(* Every mutation ends, even against an orchestrator that never answers.   *)
MutationsEnd == \A t \in Threads : pc[t] # "idle" ~> pc[t] = "idle"
=============================================================================
