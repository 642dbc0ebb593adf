---------------------------- MODULE RouteProofs -----------------------------
(***************************************************************************)
(* The two tables while only scheduled seeds mutate a share and nothing    *)
(* fails but the event stream: for any number of seeds, stale, dropped and *)
(* lost ones included, the row, the mutation under way and its ack follow  *)
(* each other through one pseudo-ID after another, and the route arrives   *)
(* where the row is.                                                       *)
(***************************************************************************)
EXTENDS CustodyProofs

(* Nobody has reacted, and nothing has failed but the event stream. *)
Calm == reactions = 0 /\ faults = 0 /\ "net" \notin Faults

RowIs(p, e) == DOMAIN rows = {p} /\ rows[p] = e
RouteIs(p, e) == DOMAIN routes = {p} /\ routes[p].epoch = e

(* The event loop is mutating the fragment of epoch e that p names. *)
Mutating(p, e) == pid[EventLoop] = p /\ epoch[EventLoop] = e

(* How far it has come with it. *)
Resting(p, e) == pc[EventLoop] \in {"idle", "get"} /\ RowIs(p, e) /\ calls = {}
Reading(p, e) ==
  pc[EventLoop] = "put" /\ Mutating(p, e) /\ RowIs(p, e) /\ calls = {}
Replacing(p, e) ==
  /\ pc[EventLoop] = "delete" /\ Mutating(p, e) /\ calls = {}
  /\ DOMAIN rows = {p, Newer(EventLoop)} /\ rows[Newer(EventLoop)] = e + 1
Written(p, e) ==
  /\ pc[EventLoop] = "ack" /\ Mutating(p, e) /\ calls = {}
  /\ RowIs(Newer(EventLoop), e + 1)
Acking(p, e) ==
  /\ pc[EventLoop] = "wait" /\ Mutating(p, e) /\ RowIs(Newer(EventLoop), e + 1)
  /\ \E c \in calls : /\ calls = {c} /\ c.by = EventLoop /\ c.stage = "route"
                      /\ c.old = p /\ c.new = Newer(EventLoop)
                      /\ c.epoch = e + 1 /\ c.seed = seed[EventLoop]

(* The route is the one the mutation started from until its ack arrives. *)
Step(p, e) == \/ Resting(p, e) \/ Reading(p, e) \/ Replacing(p, e)
              \/ Written(p, e) \/ Acking(p, e)
Routed == \E p \in DOMAIN routes : /\ DOMAIN routes = {p}
                                   /\ Step(p, routes[p].epoch)

(* Before the share is stored only its first pseudo-ID is known, and that  *)
(* no sooner than it is announced.                                         *)
Unannounced ==
  /\ DOMAIN rows = {} /\ DOMAIN routes = {} /\ calls = {}
  /\ chan = <<>> /\ pc[EventLoop] = "idle"
Announced ==
  /\ DOMAIN rows = {} /\ RouteIs(FirstPID, 0) /\ calls = {}
  /\ pc[EventLoop] \in {"idle", "get"}

Stage ==
  \/ accept \in {"offered", "announcing"} /\ Unannounced
  \/ accept = "storing" /\ Announced
  \/ accept = "held" /\ Routed
Idle == \A t \in Reactors : pc[t] = "idle"
Following == Idle /\ (announcing <=> accept = "announcing") /\ Stage
RouteInv == Calm => Following

LEMMA LoopType ==
  /\ EventLoop \in Threads
  /\ \A t \in Reactors : t \in Threads /\ t # EventLoop
  BY ThreadsAssumption DEF Threads

LEMMA LoopGoes ==
  ASSUME TypeOK, NEW label, Goto(EventLoop, label)
  PROVE  pc'[EventLoop] = label /\ (Idle => Idle')
  BY LoopType DEF TypeOK, Goto, Idle

LEMMA LoopReturns ==
  ASSUME TypeOK, Return(EventLoop)
  PROVE  pc'[EventLoop] = "idle" /\ (Idle => Idle')
  BY LoopType DEF TypeOK, Return, Idle

LEMMA RouteInit == Init => RouteInv
  <1> SUFFICES ASSUME Init
               PROVE  Following
    BY DEF RouteInv
  <1>1. \A t \in Threads : pc[t] = "idle"
    BY DEF Init
  <1> QED BY <1>1, LoopType DEF Init, Following, Idle, Stage, Unannounced, Empty

(* A calm step is one of the event loop's, of the orchestrator's or of the *)
(* acceptance of the share.                                                *)
CalmStep ==
  \/ Provision \/ AnnounceRoute \/ StoreFragment
  \/ GetFragment(EventLoop) \/ PutFragment(EventLoop)
  \/ DeleteFragment(EventLoop) \/ SendAck(EventLoop)
  \/ HandleEvent \/ EventsLost \/ (\E p \in DOMAIN routes : PushSeed(p))
  \/ \E c \in calls : AckRoute(c)
  \/ UNCHANGED vars

LEMMA CalmStays ==
  ASSUME TypeOK, RouteInv, [Next]_vars, Calm'
  PROVE  Following /\ CalmStep
  <1>1. /\ \A kind : ~Fault(kind) /\ \A t \in Threads : ~React(t)
        /\ "net" \notin Faults
    BY DEF Calm, TypeOK, Fault, React
  <1>2. ~StoreFails /\ ~AnnounceFails /\ ~NodeRestart /\ ~OrchestratorRestart
    BY <1>1 DEF StoreFails, AnnounceFails, NodeRestart, OrchestratorRestart
  <1>3. \A t \in Threads : ~SQLError(t) /\ ~AckRefused(t) /\ ~AckTimeout(t)
    BY <1>1 DEF SQLError, AckRefused, AckTimeout
  <1>4. reactions' = reactions /\ faults' = faults
    <2>1. CASE Accept
      BY <1>2, <2>1 DEF Accept, Provision, AnnounceRoute, StoreFragment, history
    <2>2. CASE \E t \in Threads : Cold(t) \/ ConsumePanics(t) \/ Mutate(t)
      BY <1>3, <2>2 DEF Cold, PickPID, ReactionEnds, ConsumeCheck, ConsumeIndex, ConsumePanics,
                        ProcessEnds, ConsumeDecrement, Mutate, GetFragment, PutFragment,
                        DeleteFragment, SendAck, history
    <2>3. CASE HandleEvent \/ EventsLost \/ \E p \in DOMAIN routes : PushSeed(p)
      BY <2>3 DEF HandleEvent, EventsLost, PushSeed, history
    <2>4. CASE \E c \in calls : HandleAck(c)
      BY <2>4 DEF HandleAck, AckCheck, AckTrust, AckRoute, history
    <2> QED BY <1>1, <1>2, <2>1, <2>2, <2>3, <2>4 DEF Next, vars, history
  <1>5. Calm /\ Following
    BY <1>4 DEF Calm, RouteInv
  <1>6. \A t \in Reactors : pc[t] = "idle"
    BY <1>5 DEF Following, Idle
  <1>7. pc[EventLoop] \in {"idle", "get", "put", "delete", "ack", "wait"}
    BY <1>5 DEF Following, Stage, Unannounced, Announced, Routed, Step, Resting, Reading,
                Replacing, Written, Acking
  <1>8. \A t \in Threads : ~Cold(t) /\ ~ConsumePanics(t) /\ (Mutate(t) => t = EventLoop)
    BY <1>6, <1>7, <1>3 DEF Threads, Cold, PickPID, ReactionEnds, ConsumeCheck, ConsumeIndex,
                ConsumePanics, ConsumeDecrement, Mutate, GetFragment, PutFragment,
                DeleteFragment, SendAck
  <1>9. \A c \in calls : c.stage = "route"
    BY <1>5 DEF Following, Stage, Unannounced, Announced, Routed, Step, Resting, Reading,
                Replacing, Written, Acking
  <1>10. \A c \in calls : HandleAck(c) => AckRoute(c)
    BY <1>9 DEF HandleAck, AckCheck, AckTrust
  <1> QED BY <1>1, <1>2, <1>3, <1>5, <1>8, <1>10, LoopType DEF Next, Accept, Mutate, CalmStep

LEMMA AcceptFollows ==
  ASSUME TypeOK, Following, Provision \/ AnnounceRoute \/ StoreFragment
  PROVE  Following'
  <1> USE DEF threadVars, orchVars, history
  <1>1. CASE Provision
    BY <1>1 DEF Provision, Following, Idle, Stage, Unannounced
  <1>2. CASE AnnounceRoute
    <2>1. accept = "announcing" /\ accept' = "storing" /\ ~announcing' /\ Unannounced
      BY <1>2 DEF AnnounceRoute, Following, Stage
    <2>2. DOMAIN routes' = {FirstPID} /\ routes'[FirstPID].epoch = 0
      BY <1>2, <2>1 DEF AnnounceRoute, Unannounced, Upsert
    <2>3. UNCHANGED <<rows, pc, calls>>
      BY <1>2 DEF AnnounceRoute
    <2> QED BY <2>1, <2>2, <2>3 DEF Following, Idle, Stage, Unannounced, Announced, RouteIs
  <1>3. CASE StoreFragment
    <2>1. accept' = "held" /\ ~announcing' /\ Announced
      BY <1>3 DEF StoreFragment, Following, Stage
    <2>2. DOMAIN rows' = {FirstPID} /\ rows'[FirstPID] = 0
      BY <1>3, <2>1 DEF StoreFragment, Announced, Upsert
    <2>3. UNCHANGED <<routes, pc, calls>>
      BY <1>3 DEF StoreFragment
    <2>4. Routed'
      BY <2>1, <2>2, <2>3 DEF Announced, RouteIs, Routed, Step, Resting, RowIs
    <2> QED BY <2>1, <2>3, <2>4 DEF Following, Idle, Stage
  <1> QED BY <1>1, <1>2, <1>3

(* Where the event loop may be while the share is not held, or is. *)
LEMMA Placed ==
  ASSUME TypeOK, Following, pc[EventLoop] # "idle"
  PROVE  \/ accept = "storing" /\ Announced /\ pc[EventLoop] = "get"
         \/ accept = "held" /\ Routed
  BY DEF Following, Stage, Unannounced, Announced

LEMMA RoutedStays ==
  ASSUME Following, accept = "held", Idle', UNCHANGED <<accept, announcing>>, Routed'
  PROVE  Following'
  BY DEF Following, Stage

LEMMA LoopFollows ==
  ASSUME TypeOK, Following,
         \/ GetFragment(EventLoop) \/ PutFragment(EventLoop)
         \/ DeleteFragment(EventLoop) \/ SendAck(EventLoop)
  PROVE  Following'
  <1> USE LoopType DEF custodyVars, orchVars, history
  <1> DEFINE L == EventLoop
  <1>0. Idle
    BY DEF Following
  <1>1. CASE GetFragment(L)
    <2>1. /\ UNCHANGED <<accept, announcing, rows, routes, calls, chan>>
          /\ pc[L] = "get"
      BY <1>1 DEF GetFragment
    <2>2. CASE pid[L] \notin DOMAIN rows
      <3>1. pc'[L] = "idle" /\ Idle'
        BY <1>0, <1>1, <2>2, LoopReturns DEF GetFragment
      <3>2. CASE accept = "storing" /\ Announced
        BY <2>1, <3>1, <3>2 DEF Following, Stage, Announced, RouteIs
      <3>3. CASE accept = "held" /\ Routed
        <4>1. PICK p \in DOMAIN routes : DOMAIN routes = {p} /\ Step(p, routes[p].epoch)
          BY <3>3 DEF Routed
        <4>2. Resting(p, routes[p].epoch)
          BY <2>1, <4>1 DEF Step, Resting, Reading, Replacing, Written, Acking
        <4>3. Resting(p, routes[p].epoch)'
          BY <2>1, <3>1, <4>2 DEF Resting, RowIs
        <4> QED BY <2>1, <3>1, <3>3, <4>1, <4>3, RoutedStays DEF Routed, Step
      <3> QED BY <2>1, <3>2, <3>3, Placed
    <2>3. CASE pid[L] \in DOMAIN rows
      <3>1. pc'[L] = "put" /\ Idle' /\ pid' = pid /\ epoch'[L] = rows[pid[L]]
        BY <1>0, <1>1, <2>3, LoopGoes DEF GetFragment, TypeOK
      <3>2. accept = "held" /\ Routed
        BY <2>1, <2>3, Placed DEF Announced
      <3>3. PICK p \in DOMAIN routes : DOMAIN routes = {p} /\ Step(p, routes[p].epoch)
        BY <3>2 DEF Routed
      <3>4. Resting(p, routes[p].epoch)
        BY <2>1, <3>3 DEF Step, Resting, Reading, Replacing, Written, Acking
      <3>5. Reading(p, routes[p].epoch)'
        BY <2>1, <2>3, <3>1, <3>4 DEF Resting, Reading, Mutating, RowIs
      <3> QED BY <2>1, <3>1, <3>2, <3>3, <3>5, RoutedStays DEF Routed, Step
    <2> QED BY <2>2, <2>3
  <1>2. CASE PutFragment(L)
    <2>1. /\ UNCHANGED <<accept, announcing, routes, calls, pid, seed, epoch>>
          /\ pc[L] = "put" /\ rows' = Upsert(rows, Newer(L), epoch[L] + 1)
      BY <1>2 DEF PutFragment
    <2>2. pc'[L] = "delete" /\ Idle'
      BY <1>0, <1>2, LoopGoes DEF PutFragment
    <2>3. accept = "held" /\ Routed
      BY <2>1, Placed
    <2>4. PICK p \in DOMAIN routes : DOMAIN routes = {p} /\ Step(p, routes[p].epoch)
      BY <2>3 DEF Routed
    <2>5. Reading(p, routes[p].epoch)
      BY <2>1, <2>4 DEF Step, Resting, Reading, Replacing, Written, Acking
    <2>6. Newer(L)' = Newer(L)
      BY <2>1 DEF Newer
    <2>7. DOMAIN rows' = {p, Newer(L)} /\ rows'[Newer(L)] = epoch[L] + 1
      BY <2>1, <2>5 DEF Upsert, Reading, RowIs
    <2>8. Replacing(p, routes[p].epoch)'
      BY <2>1, <2>2, <2>5, <2>6, <2>7 DEF Reading, Replacing, Mutating
    <2> QED BY <2>1, <2>2, <2>3, <2>4, <2>8, RoutedStays DEF Routed, Step
  <1>3. CASE DeleteFragment(L)
    <2>1. /\ UNCHANGED <<accept, announcing, routes, calls, pid, seed, epoch>>
          /\ pc[L] = "delete" /\ rows' = Without(rows, pid[L])
      BY <1>3 DEF DeleteFragment
    <2>2. pc'[L] = "ack" /\ Idle'
      BY <1>0, <1>3, LoopGoes DEF DeleteFragment
    <2>3. accept = "held" /\ Routed
      BY <2>1, Placed
    <2>4. PICK p \in DOMAIN routes : DOMAIN routes = {p} /\ Step(p, routes[p].epoch)
      BY <2>3 DEF Routed
    <2>5. Replacing(p, routes[p].epoch)
      BY <2>1, <2>4 DEF Step, Resting, Reading, Replacing, Written, Acking
    <2>6. Newer(L)' = Newer(L) /\ Newer(L) # pid[L]
      BY <2>1, NewerType, LenType, PIDsType DEF Newer
    <2>7. DOMAIN rows' = {Newer(L)} /\ rows'[Newer(L)] = rows[Newer(L)]
      BY <2>1, <2>5, <2>6 DEF Without, Replacing, Mutating
    <2>8. Written(p, routes[p].epoch)'
      BY <2>1, <2>2, <2>5, <2>6, <2>7 DEF Replacing, Written, Mutating, RowIs
    <2> QED BY <2>1, <2>2, <2>3, <2>4, <2>8, RoutedStays DEF Routed, Step
  <1>4. CASE SendAck(L)
    <2>1. UNCHANGED <<accept, announcing, rows, routes, pid, seed, epoch>> /\ pc[L] = "ack"
      BY <1>4 DEF SendAck
    <2>2. pc'[L] = "wait" /\ Idle'
      BY <1>0, <1>4, LoopGoes DEF SendAck
    <2>3. accept = "held" /\ Routed
      BY <2>1, Placed
    <2>4. PICK p \in DOMAIN routes : DOMAIN routes = {p} /\ Step(p, routes[p].epoch)
      BY <2>3 DEF Routed
    <2>5. Written(p, routes[p].epoch)
      BY <2>1, <2>4 DEF Step, Resting, Reading, Replacing, Written, Acking
    <2>6. Newer(L)' = Newer(L)
      BY <2>1 DEF Newer
    <2> DEFINE c == [by |-> L, old |-> pid[L], new |-> Newer(L), epoch |-> epoch[L] + 1,
                     seed |-> seed[L], verdict |-> "none", stage |-> "route"]
    <2>7. /\ calls' = calls \cup {c} /\ c.by = L /\ c.stage = "route"
          /\ c.old = pid[L] /\ c.new = Newer(L)
          /\ c.epoch = epoch[L] + 1 /\ c.seed = seed[L]
      BY <1>4 DEF SendAck
    <2> HIDE DEF c
    <2>8. Acking(p, routes[p].epoch)'
      BY <2>1, <2>2, <2>5, <2>6, <2>7 DEF Written, Acking, Mutating, RowIs
    <2> QED BY <2>1, <2>2, <2>3, <2>4, <2>8, RoutedStays DEF Routed, Step
  <1> QED BY <1>1, <1>2, <1>3, <1>4

LEMMA EventFollows ==
  ASSUME TypeOK, Following, HandleEvent
  PROVE  Following'
  <1>1. /\ UNCHANGED <<accept, announcing, rows, routes, calls>>
        /\ pc[EventLoop] = "idle" /\ chan # <<>>
    BY DEF HandleEvent, Stream!Take, custodyVars, orchVars
  <1>2. pc'[EventLoop] = "get" /\ Idle'
    BY LoopGoes DEF HandleEvent, Following
  <1>3. CASE accept = "storing" /\ Announced
    BY <1>1, <1>2, <1>3 DEF Following, Stage, Announced, RouteIs
  <1>4. CASE accept = "held" /\ Routed
    <2>1. PICK p \in DOMAIN routes : DOMAIN routes = {p} /\ Step(p, routes[p].epoch)
      BY <1>4 DEF Routed
    <2>2. Resting(p, routes[p].epoch)
      BY <1>1, <2>1 DEF Step, Resting, Reading, Replacing, Written, Acking
    <2>3. Resting(p, routes[p].epoch)'
      BY <1>1, <1>2, <2>2 DEF Resting, RowIs
    <2> QED BY <1>1, <1>2, <1>4, <2>1, <2>3, RoutedStays DEF Routed, Step
  <1> QED BY <1>1, <1>3, <1>4 DEF Following, Stage, Unannounced

(* A seed is pushed for a route, so that the share has been announced. *)
LEMMA PushFollows ==
  ASSUME TypeOK, Following, NEW p \in DOMAIN routes, PushSeed(p)
  PROVE  Following'
  <1>1. UNCHANGED <<accept, announcing, rows, routes, calls, pc, pid, seed, epoch>>
    BY DEF PushSeed, custodyVars, orchVars
  <1>2. ~Unannounced
    BY DEF Unannounced
  <1>3. Idle'
    BY <1>1 DEF Following, Idle
  <1>4. CASE accept = "storing" /\ Announced
    BY <1>1, <1>3, <1>4 DEF Following, Stage, Announced, RouteIs
  <1>5. CASE accept = "held" /\ Routed
    <2>1. Routed'
      BY <1>1, <1>5 DEF Routed, Step, Resting, Reading, Replacing, Written, Acking, Mutating,
                        RowIs, Newer
    <2> QED BY <1>1, <1>3, <1>5, <2>1, RoutedStays
  <1> QED BY <1>2, <1>4, <1>5 DEF Following, Stage

(* What the stream loses was never more than a seed to come. *)
LEMMA LossFollows ==
  ASSUME TypeOK, Following, EventsLost
  PROVE  Following'
  <1>1. /\ UNCHANGED <<accept, announcing, rows, routes, calls, pc, pid, seed, epoch>>
        /\ chan = <<>> => chan' = <<>>
    BY DEF EventsLost, Stream!Lose, custodyVars, orchVars
  <1> QED BY <1>1 DEF Following, Idle, Stage, Unannounced, Announced, Routed, Step, Resting,
                      Reading, Replacing, Written, Acking, Mutating, RowIs, RouteIs, Newer

(* The ack moves the one route to the row's pseudo-ID and returns. *)
LEMMA AckFollows ==
  ASSUME TypeOK, Following, NEW c \in calls, AckRoute(c)
  PROVE  Following'
  <1> DEFINE L == EventLoop
  <1>1. UNCHANGED <<accept, announcing, rows>> /\ calls' = calls \ {c}
    BY DEF AckRoute, custodyVars
  <1>2. accept = "held" /\ Routed
    BY DEF Following, Stage, Unannounced, Announced
  <1>3. PICK p \in DOMAIN routes : DOMAIN routes = {p} /\ Step(p, routes[p].epoch)
    BY <1>2 DEF Routed
  <1>4. Acking(p, routes[p].epoch)
    BY <1>3 DEF Step, Resting, Reading, Replacing, Written, Acking
  <1>5. /\ calls = {c} /\ c.by = L /\ c.old = p /\ c.new = Newer(L)
        /\ c.epoch = routes[p].epoch + 1 /\ c.seed = seed[L]
        /\ pc[L] = "wait" /\ pid[L] = p /\ RowIs(Newer(L), routes[p].epoch + 1)
    BY <1>4 DEF Acking, Mutating
  <1>6. Return(L)
    BY <1>5 DEF AckRoute
  <1>7. pc'[L] = "idle" /\ Idle'
    BY <1>6, LoopReturns DEF Following
  <1>8. PICK endpoint : routes' = Upsert(Without(routes, p), Newer(L),
                                         [endpoint |-> endpoint, epoch |-> c.epoch])
    BY <1>5 DEF AckRoute
  <1> DEFINE n == Newer(L)
  <1>9. DOMAIN routes' = {n} /\ routes'[n].epoch = c.epoch
    BY <1>3, <1>8 DEF Upsert, Without
  <1>10. DOMAIN rows' = {n} /\ rows'[n] = c.epoch /\ calls' = {}
    BY <1>1, <1>5 DEF RowIs
  <1> HIDE DEF n
  <1>11. Routed'
    BY <1>7, <1>9, <1>10 DEF Routed, Step, Resting, RowIs
  <1> QED BY <1>1, <1>2, <1>7, <1>11, RoutedStays

LEMMA RouteStep == TypeOK /\ RouteInv /\ [Next]_vars => RouteInv'
  <1> SUFFICES ASSUME TypeOK, RouteInv, [Next]_vars, Calm'
               PROVE  Following'
    BY DEF RouteInv
  <1>1. Following /\ CalmStep
    BY CalmStays
  <1>2. CASE UNCHANGED vars
    <2>1. Following' <=> Following
      BY <1>2 DEF vars, custodyVars, threadVars, orchVars, Following, Idle, Stage, Unannounced,
                  Announced, Routed, Step, Resting, Reading, Replacing, Written, Acking, Mutating,
                  RowIs, RouteIs, Newer
    <2> QED BY <1>1, <2>1
  <1> QED BY <1>1, <1>2, AcceptFollows, LoopFollows, EventFollows, PushFollows, LossFollows,
          AckFollows DEF CalmStep

LEMMA RouteInvariance == Spec => []RouteInv
  <1>1. TypeOK /\ RouteInv /\ [Next]_vars => RouteInv'
    BY RouteStep
  <1> QED BY <1>1, RouteInit, TypeCorrect, PTL DEF Spec

(* As long as only scheduled seeds mutate the share and nothing but the    *)
(* event stream fails, the orchestrator routes to the one fragment there   *)
(* is, by its pseudo-ID and with its epoch, whatever seeds came late or    *)
(* were lost.                                                              *)
THEOREM RoutesMatchRowsAlways == Spec => []RoutesMatchRows
  <1>1. RouteInv => RoutesMatchRows
    <2> SUFFICES ASSUME RouteInv, Quiet, accept = "held", Calm
                 PROVE  \E p \in DOMAIN rows : /\ DOMAIN rows = {p} /\ DOMAIN routes = {p}
                                               /\ routes[p].epoch = rows[p]
      BY DEF RoutesMatchRows, Calm
    <2>1. Routed /\ pc[EventLoop] = "idle"
      BY LoopType DEF RouteInv, Following, Stage, Quiet
    <2>2. PICK p \in DOMAIN routes : DOMAIN routes = {p} /\ Step(p, routes[p].epoch)
      BY <2>1 DEF Routed
    <2>3. Resting(p, routes[p].epoch)
      BY <2>1, <2>2 DEF Step, Resting, Reading, Replacing, Written, Acking
    <2> QED BY <2>2, <2>3 DEF Resting, RowIs
  <1> QED BY <1>1, RouteInvariance, PTL
=============================================================================
