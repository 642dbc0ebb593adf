--------------------------- MODULE CustodyProofs ----------------------------
(***************************************************************************)
(* What Custody guarantees for every set of goroutines, every chain length *)
(* and every number of seeds, reactions and faults.                        *)
(***************************************************************************)
EXTENDS Custody, TLAPS

(* A link waiting to be trusted is a link of the chain. *)
TrustedLinks == \A c \in calls : c.stage = "trust" => c.seed \in Links

(* Type correctness, with the one fact about calls it depends on. *)
TypeInv == TypeOK /\ TrustedLinks

(***************************************************************************)
(* The two tables under INSERT and DELETE.                                 *)
(***************************************************************************)
LEMMA RowsUpsert ==
  ASSUME TypeOK, NEW p \in PIDs, NEW e \in Nat, rows' = Upsert(rows, p, e)
  PROVE  /\ DOMAIN rows' = DOMAIN rows \cup {p}
         /\ DOMAIN rows' \subseteq PIDs
         /\ rows' \in [DOMAIN rows' -> Nat]
         /\ rows'[p] = e
         /\ \A q \in DOMAIN rows : q # p => rows'[q] = rows[q]
  BY DEF TypeOK, Upsert

LEMMA RowsWithout ==
  ASSUME TypeOK, NEW p, rows' = Without(rows, p)
  PROVE  /\ DOMAIN rows' = DOMAIN rows \ {p}
         /\ DOMAIN rows' \subseteq PIDs
         /\ rows' \in [DOMAIN rows' -> Nat]
         /\ \A q \in DOMAIN rows' : rows'[q] = rows[q]
  BY DEF TypeOK, Without

LEMMA RoutesUpsert ==
  ASSUME TypeOK, NEW p \in PIDs, NEW v \in RouteEntry, NEW old,
         \/ routes' = Upsert(routes, p, v)
         \/ routes' = Upsert(Without(routes, old), p, v)
  PROVE  /\ DOMAIN routes' \subseteq DOMAIN routes \cup {p}
         /\ DOMAIN routes' \subseteq PIDs
         /\ routes' \in [DOMAIN routes' -> RouteEntry]
         /\ routes'[p] = v
         /\ \A q \in DOMAIN routes' : q # p => routes'[q] = routes[q]
  BY DEF TypeOK, Upsert, Without

LEMMA NewerType ==
  ASSUME TypeOK, NEW t \in Threads
  PROVE  Newer(t) \in PIDs /\ Len(Newer(t)) = Len(pid[t]) + 1
  BY DEF TypeOK, Newer, NextPseudoID, PIDs

LEMMA FirstPIDType == FirstPID \in PIDs /\ Len(FirstPID) = 0
  BY DEF FirstPID, PIDs

LEMMA LenType ==
  ASSUME NEW p \in PIDs
  PROVE  Len(p) \in Nat
  BY DEF PIDs

LEMMA PIDsType ==
  ASSUME TypeOK
  PROVE  /\ DOMAIN rows \subseteq PIDs /\ DOMAIN routes \subseteq PIDs
         /\ \A t \in Threads : pid[t] \in PIDs
  BY DEF TypeOK

(* A goroutine that returns, or moves on, is left with well-typed locals. *)
LEMMA ReturnType ==
  ASSUME TypeOK, NEW t \in Threads, Return(t)
  PROVE  /\ pc' \in [Threads -> Labels]
         /\ pid' \in [Threads -> PIDs]
         /\ seed' \in [Threads -> Nat]
         /\ epoch' \in [Threads -> Nat]
  BY FirstPIDType DEF TypeOK, Return, Labels

LEMMA GotoType ==
  ASSUME TypeOK, NEW t \in Threads, NEW label \in Labels, Goto(t, label)
  PROVE  pc' \in [Threads -> Labels]
  BY DEF TypeOK, Goto

(***************************************************************************)
(* Type correctness.                                                       *)
(***************************************************************************)
LEMMA InitType == Init => TypeInv
<1> SUFFICES ASSUME Init PROVE TypeInv
  OBVIOUS
<1>1. /\ calls \subseteq Calls /\ anchor \in Links \cup {Unknown}
      /\ {seeds, reactions, faults} \subseteq Nat /\ next \in Int
      /\ TrustedLinks
  BY DEF Init, TrustedLinks
<1>2. chan \in Seq(Events)
  BY DEF Init
<1>3. /\ pc \in [Threads -> Labels] /\ todo \in [Threads -> SUBSET PIDs]
      /\ pid \in [Threads -> PIDs] /\ seed \in [Threads -> Nat]
      /\ epoch \in [Threads -> Nat]
  BY FirstPIDType DEF Init, Labels
<1>4. /\ DOMAIN rows \subseteq PIDs /\ rows \in [DOMAIN rows -> Nat]
      /\ DOMAIN routes \subseteq PIDs /\ routes \in [DOMAIN routes -> RouteEntry]
  BY DEF Init, Empty
<1> QED
  BY <1>1, <1>2, <1>3, <1>4 DEF Init, TypeInv, TypeOK

LEMMA AcceptType == TypeInv /\ Accept => TypeInv'
<1> SUFFICES ASSUME TypeInv, Accept PROVE TypeInv'
  OBVIOUS
<1> USE DEF TypeInv
<1>1. CASE Provision
  BY <1>1, BoundsAssumption
     DEF Provision, TypeOK, TrustedLinks, threadVars, orchVars, history
<1>2. CASE AnnounceRoute
  <2>1. [endpoint |-> "endpoint", epoch |-> 0] \in RouteEntry
    BY DEF RouteEntry, Endpoints
  <2>2. DOMAIN routes' \subseteq PIDs /\ routes' \in [DOMAIN routes' -> RouteEntry]
    BY <1>2, <2>1, FirstPIDType, RoutesUpsert DEF AnnounceRoute
  <2>3. anchor' \in Links \cup {Unknown}
    BY <1>2, BoundsAssumption DEF AnnounceRoute, Links
  <2> QED
    BY <1>2, <2>2, <2>3
       DEF AnnounceRoute, TypeOK, TrustedLinks, threadVars, history
<1>3. CASE AnnounceFails
  BY <1>3 DEF AnnounceFails, TypeOK, TrustedLinks, threadVars, orchVars, history
<1>4. CASE StoreFragment
  <2>1. DOMAIN rows' \subseteq PIDs /\ rows' \in [DOMAIN rows' -> Nat]
    <3>1. PICK e \in Nat : e = 0
      OBVIOUS
    <3>2. rows' = Upsert(rows, FirstPID, e)
      BY <1>4, <3>1 DEF StoreFragment
    <3> QED
      BY <3>2, FirstPIDType, RowsUpsert
  <2> QED
    BY <1>4, <2>1
       DEF StoreFragment, TypeOK, TrustedLinks, threadVars, orchVars, history
<1>5. CASE StoreFails
  BY <1>5 DEF StoreFails, Fault, TypeOK, TrustedLinks, threadVars, orchVars
<1> QED
  BY <1>1, <1>2, <1>3, <1>4, <1>5 DEF Accept

LEMMA ReactType ==
  ASSUME TypeInv, NEW t \in Threads, React(t)
  PROVE  TypeInv'
<1> USE DEF TypeInv
<1>1. pc' \in [Threads -> Labels]
  BY GotoType DEF React, Labels
<1>2. todo' \in [Threads -> SUBSET PIDs]
  BY DEF React, TypeOK
<1> QED
  BY <1>1, <1>2
     DEF React, TypeOK, TrustedLinks, custodyVars, orchVars

LEMMA ColdType ==
  ASSUME TypeInv, NEW t \in Threads, Cold(t)
  PROVE  TypeInv'
<1> USE DEF TypeInv
<1>1. ASSUME NEW p \in todo[t], PickPID(t, p) PROVE TypeInv'
  <2>1. p \in PIDs
    BY DEF TypeOK
  <2>2. todo' \in [Threads -> SUBSET PIDs]
    BY <1>1 DEF PickPID, TypeOK
  <2>3. pid' \in [Threads -> PIDs] /\ pc' \in [Threads -> Labels]
    BY <1>1, <2>1, GotoType DEF PickPID, TypeOK, Labels
  <2> QED
    BY <1>1, <2>2, <2>3
       DEF PickPID, TypeOK, TrustedLinks, custodyVars, orchVars, history
<1>2. CASE ReactionEnds(t)
  <2>1. pc' \in [Threads -> Labels]
    BY <1>2, GotoType DEF ReactionEnds, Labels
  <2> QED
    BY <1>2, <2>1
       DEF ReactionEnds, TypeOK, TrustedLinks, custodyVars, orchVars, history
<1>3. CASE ConsumeCheck(t)
  <2>1. CASE next < 0
    <3>1. /\ pc' \in [Threads -> Labels] /\ pid' \in [Threads -> PIDs]
          /\ seed' \in [Threads -> Nat] /\ epoch' \in [Threads -> Nat]
      BY <1>3, <2>1, ReturnType DEF ConsumeCheck
    <3>2. UNCHANGED <<custodyVars, chan, todo, orchVars, history>>
      BY <1>3, <2>1 DEF ConsumeCheck, history
    <3> QED
      BY <3>1, <3>2 DEF TypeOK, TrustedLinks, custodyVars, orchVars, history
  <2>2. CASE ~(next < 0)
    <3>1. next \in Nat
      BY <2>2 DEF TypeOK
    <3>2. seed' \in [Threads -> Nat] /\ pc' \in [Threads -> Labels]
      BY <1>3, <2>2, <3>1, GotoType DEF ConsumeCheck, Enter, TypeOK, Labels
    <3>3. raced' \in BOOLEAN
      BY <1>3, <2>2 DEF ConsumeCheck, Enter
    <3>4. UNCHANGED <<custodyVars, chan, todo, pid, epoch, orchVars, seeds, reactions, faults>>
      BY <1>3, <2>2 DEF ConsumeCheck
    <3> QED
      BY <3>2, <3>3, <3>4 DEF TypeOK, TrustedLinks, custodyVars, orchVars
  <2> QED
    BY <2>1, <2>2
<1>4. CASE ConsumeIndex(t)
  <2>1. PICK link \in {seed[t], next} : link >= 0 /\ seed' = [seed EXCEPT ![t] = link]
    BY <1>4 DEF ConsumeIndex
  <2>2. link \in Nat
    BY <2>1 DEF TypeOK
  <2>3. seed' \in [Threads -> Nat] /\ pc' \in [Threads -> Labels]
    BY <1>4, <2>1, <2>2, GotoType DEF ConsumeIndex, TypeOK, Labels
  <2> QED
    BY <1>4, <2>3
       DEF ConsumeIndex, TypeOK, TrustedLinks, custodyVars, orchVars, history
<1>5. CASE ConsumeDecrement(t)
  <2>1. pc' \in [Threads -> Labels] /\ next' \in Int
    BY <1>5, GotoType DEF ConsumeDecrement, TypeOK, Labels
  <2> QED
    BY <1>5, <2>1
       DEF ConsumeDecrement, TypeOK, TrustedLinks, orchVars, history
<1> QED
  BY <1>1, <1>2, <1>3, <1>4, <1>5 DEF Cold

LEMMA MutateType ==
  ASSUME TypeInv, NEW t \in Threads, Mutate(t)
  PROVE  TypeInv'
<1> USE DEF TypeInv
<1>1. CASE GetFragment(t)
  <2>1. CASE pid[t] \in DOMAIN rows
    <3>1. epoch' \in [Threads -> Nat] /\ pc' \in [Threads -> Labels]
      BY <1>1, <2>1, GotoType DEF GetFragment, TypeOK, Labels
    <3> QED
      BY <1>1, <2>1, <3>1
         DEF GetFragment, TypeOK, TrustedLinks, custodyVars, orchVars, history
  <2>2. CASE pid[t] \notin DOMAIN rows
    BY <1>1, <2>2, ReturnType
       DEF GetFragment, TypeOK, TrustedLinks, custodyVars, orchVars, history
  <2> QED
    BY <2>1, <2>2
<1>2. CASE PutFragment(t)
  <2>1. DOMAIN rows' \subseteq PIDs /\ rows' \in [DOMAIN rows' -> Nat]
    <3>1. epoch[t] + 1 \in Nat
      BY DEF TypeOK
    <3> QED
      BY <1>2, <3>1, NewerType, RowsUpsert DEF PutFragment
  <2>2. pc' \in [Threads -> Labels]
    BY <1>2, GotoType DEF PutFragment, Labels
  <2> QED
    BY <1>2, <2>1, <2>2
       DEF PutFragment, TypeOK, TrustedLinks, orchVars, history
<1>3. CASE DeleteFragment(t)
  <2>1. DOMAIN rows' \subseteq PIDs /\ rows' \in [DOMAIN rows' -> Nat]
    BY <1>3, RowsWithout DEF DeleteFragment
  <2>2. pc' \in [Threads -> Labels]
    BY <1>3, GotoType DEF DeleteFragment, Labels
  <2> QED
    BY <1>3, <2>1, <2>2
       DEF DeleteFragment, TypeOK, TrustedLinks, orchVars, history
<1>4. CASE SQLError(t)
  <2>1. /\ pc' \in [Threads -> Labels] /\ pid' \in [Threads -> PIDs]
        /\ seed' \in [Threads -> Nat] /\ epoch' \in [Threads -> Nat]
    BY <1>4, ReturnType DEF SQLError
  <2>2. faults' \in Nat
    BY <1>4 DEF SQLError, Fault, TypeOK
  <2>3. UNCHANGED <<custodyVars, chan, todo, orchVars, seeds, reactions, raced>>
    BY <1>4 DEF SQLError
  <2> QED
    BY <2>1, <2>2, <2>3 DEF TypeOK, TrustedLinks, custodyVars, orchVars
<1>5. CASE SendAck(t)
  <2>1. pc' \in [Threads -> Labels]
    BY <1>5, GotoType DEF SendAck, Labels
  <2> DEFINE c == [by |-> t, old |-> pid[t], new |-> Newer(t), epoch |-> epoch[t] + 1,
                   seed |-> seed[t], verdict |-> "none",
                   stage |-> IF t = EventLoop THEN "route" ELSE "check"]
  <2>2. c \in Calls /\ c.stage # "trust"
    BY NewerType DEF Calls, TypeOK
  <2>3. calls' = calls \cup {c}
    BY <1>5 DEF SendAck
  <2> HIDE DEF c
  <2> QED
    BY <1>5, <2>1, <2>2, <2>3
       DEF SendAck, TypeOK, TrustedLinks, custodyVars, history
<1>6. CASE AckRefused(t)
  BY <1>6, ReturnType
     DEF AckRefused, TypeOK, TrustedLinks, custodyVars, orchVars, history
<1>7. CASE AckTimeout(t)
  BY <1>7, ReturnType
     DEF AckTimeout, TypeOK, TrustedLinks, custodyVars, orchVars, history
<1> QED
  BY <1>1, <1>2, <1>3, <1>4, <1>5, <1>6, <1>7 DEF Mutate

LEMMA HandleAckType ==
  ASSUME TypeInv, NEW c \in calls, HandleAck(c)
  PROVE  TypeInv'
<1> USE DEF TypeInv
<1>0. c \in Calls
  BY DEF TypeOK
<1>1. CASE AckCheck(c)
  <2> DEFINE verdict == IF anchor = Unknown THEN "unknown"
                        ELSE IF VerifyStep(c.seed, anchor) THEN "ok" ELSE "failed"
             d == [c EXCEPT !.verdict = verdict,
                            !.stage = IF verdict = "ok" THEN "trust" ELSE "route"]
  <2>1. d \in Calls
    BY <1>0 DEF Calls
  <2>2. d.stage = "trust" => d.seed \in Links
    <3> SUFFICES ASSUME d.stage = "trust" PROVE d.seed \in Links
      OBVIOUS
    <3>1. verdict = "ok" /\ d.seed = c.seed
      BY <1>0 DEF Calls
    <3>2. anchor # Unknown /\ c.seed = anchor - 1
      BY <3>1 DEF VerifyStep
    <3>3. anchor \in 0 .. ChainLength /\ c.seed \in Nat /\ ChainLength \in Nat
      BY <1>0, <3>2, BoundsAssumption DEF TypeOK, Links, Calls
    <3> QED
      BY <3>1, <3>2, <3>3 DEF Links
  <2>3. calls' = (calls \ {c}) \cup {d}
    BY <1>1 DEF AckCheck, Moved
  <2> HIDE DEF d, verdict
  <2> QED
    BY <1>1, <2>1, <2>2, <2>3
       DEF AckCheck, TypeOK, TrustedLinks, custodyVars, threadVars, history
<1>2. CASE AckTrust(c)
  <2> DEFINE d == [c EXCEPT !.stage = "route"]
  <2>1. d \in Calls /\ d.stage # "trust"
    BY <1>0 DEF Calls
  <2>2. calls' = (calls \ {c}) \cup {d}
    BY <1>2 DEF AckTrust, Moved
  <2>3. anchor' \in Links \cup {Unknown}
    BY <1>2 DEF AckTrust, TrustedLinks
  <2> HIDE DEF d
  <2> QED
    BY <1>2, <2>1, <2>2, <2>3
       DEF AckTrust, TypeOK, TrustedLinks, custodyVars, threadVars, history
<1>3. CASE AckRoute(c)
  <2>1. c.new \in PIDs /\ c.epoch \in Nat /\ c.by \in Threads
    BY <1>0 DEF Calls
  <2> DEFINE endpoint == IF c.old \in DOMAIN routes THEN routes[c.old].endpoint
                         ELSE "node_id"
             entry == [endpoint |-> endpoint, epoch |-> c.epoch]
  <2>2. entry \in RouteEntry
    BY <2>1 DEF RouteEntry, Endpoints, TypeOK
  <2>3. routes' = Upsert(Without(routes, c.old), c.new, entry)
    BY <1>3 DEF AckRoute
  <2> HIDE DEF entry, endpoint
  <2>4. DOMAIN routes' \subseteq PIDs /\ routes' \in [DOMAIN routes' -> RouteEntry]
    BY <2>1, <2>2, <2>3, RoutesUpsert
  <2>5. /\ pc' \in [Threads -> Labels] /\ pid' \in [Threads -> PIDs]
        /\ seed' \in [Threads -> Nat] /\ epoch' \in [Threads -> Nat]
    <3>1. CASE pc[c.by] = "wait" /\ pid[c.by] = c.old /\ seed[c.by] = c.seed
      BY <1>3, <2>1, <3>1, ReturnType DEF AckRoute
    <3>2. CASE ~(pc[c.by] = "wait" /\ pid[c.by] = c.old /\ seed[c.by] = c.seed)
      BY <1>3, <3>2 DEF AckRoute, TypeOK
    <3> QED
      BY <3>1, <3>2
  <2> QED
    BY <1>3, <2>4, <2>5 DEF AckRoute, TypeOK, TrustedLinks, custodyVars, history
<1> QED
  BY <1>1, <1>2, <1>3 DEF HandleAck

LEMMA EventType ==
  ASSUME TypeInv, HandleEvent
  PROVE  TypeInv'
<1> USE DEF TypeInv
<1>1. EventLoop \in Threads
  BY DEF Threads
<1>2. Head(chan) \in Events /\ chan' \in Seq(Events)
  BY DEF HandleEvent, Stream!Take, TypeOK
<1>3. pid' \in [Threads -> PIDs] /\ seed' \in [Threads -> Nat]
  BY <1>1, <1>2 DEF HandleEvent, TypeOK, Events
<1>4. pc' \in [Threads -> Labels]
  BY <1>1, GotoType DEF HandleEvent, Labels
<1> QED
  BY <1>2, <1>3, <1>4
     DEF HandleEvent, TypeOK, TrustedLinks, custodyVars, orchVars, history

LEMMA PushType ==
  ASSUME TypeInv, NEW p \in DOMAIN routes, PushSeed(p)
  PROVE  TypeInv'
<1> USE DEF TypeInv
<1>1. ServerSeed(seeds) \in Nat /\ p \in PIDs
  BY BoundsAssumption DEF ServerSeed, TypeOK
<1>2. chan' \in Seq(Events)
  <2> DEFINE event == [pid |-> p, seed |-> ServerSeed(seeds)]
  <2>1. event \in Events
    BY <1>1 DEF Events
  <2>2. chan' \in {Append(chan, event), chan}
    BY DEF PushSeed, Stream!Push, Stream!Drop
  <2> HIDE DEF event
  <2>3. CASE chan' = chan
    BY <2>3 DEF TypeOK
  <2>4. CASE chan' = Append(chan, event)
    BY <2>1, <2>4 DEF TypeOK
  <2> QED
    BY <2>2, <2>3, <2>4
<1> QED
  BY <1>2 DEF PushSeed, TypeOK, TrustedLinks, custodyVars, orchVars

LEMMA LossType ==
  ASSUME TypeInv, EventsLost
  PROVE  TypeInv'
<1> USE DEF TypeInv
<1>1. chan' \in Seq(Events)
  <2>1. PICK k \in 0 .. Len(chan) : chan' = SubSeq(chan, 1, k)
    BY DEF EventsLost, Stream!Lose
  <2>2. chan \in Seq(Events)
    BY DEF TypeOK
  <2> QED
    BY <2>1, <2>2
<1> QED
  BY <1>1 DEF EventsLost, TypeOK, TrustedLinks, custodyVars, orchVars, history

LEMMA RestartType ==
  ASSUME TypeInv,
         NodeRestart \/ OrchestratorRestart \/ \E t \in Threads : ConsumePanics(t)
  PROVE  TypeInv'
<1> USE DEF TypeInv
<1>1. CASE NodeRestart \/ \E t \in Threads : ConsumePanics(t)
  <2>0. ProcessEnds
    BY <1>1 DEF NodeRestart, ConsumePanics
  <2>1. /\ pc' \in [Threads -> Labels] /\ todo' \in [Threads -> SUBSET PIDs]
        /\ pid' \in [Threads -> PIDs] /\ seed' \in [Threads -> Nat]
        /\ epoch' \in [Threads -> Nat]
    BY <2>0, FirstPIDType DEF ProcessEnds, Labels
  <2>2. chan' \in Seq(Events) /\ next' \in Int
    BY <2>0 DEF ProcessEnds
  <2>3. {seeds, reactions, faults}' \subseteq Nat
    BY <1>1, <2>0 DEF NodeRestart, ConsumePanics, ProcessEnds, Fault, TypeOK
  <2> QED
    BY <2>0, <2>1, <2>2, <2>3 DEF ProcessEnds, TypeOK, TrustedLinks, orchVars
<1>2. CASE OrchestratorRestart
  <2>1. /\ pc' \in [Threads -> Labels] /\ pid' \in [Threads -> PIDs]
        /\ seed' \in [Threads -> Nat] /\ epoch' \in [Threads -> Nat]
    BY <1>2, FirstPIDType DEF OrchestratorRestart, TypeOK, Labels
  <2>2. DOMAIN routes' \subseteq PIDs /\ routes' \in [DOMAIN routes' -> RouteEntry]
    BY <1>2 DEF OrchestratorRestart, Empty
  <2>3. calls' \subseteq Calls /\ anchor' \in Links \cup {Unknown} /\ TrustedLinks'
    BY <1>2 DEF OrchestratorRestart, TrustedLinks
  <2>4. {seeds, reactions, faults}' \subseteq Nat
    BY <1>2 DEF OrchestratorRestart, Fault, TypeOK
  <2> QED
    BY <1>2, <2>1, <2>2, <2>3, <2>4 DEF OrchestratorRestart, TypeOK
<1> QED
  BY <1>1, <1>2

LEMMA StepType == TypeInv /\ [Next]_vars => TypeInv'
<1> SUFFICES ASSUME TypeInv, [Next]_vars PROVE TypeInv'
  OBVIOUS
<1>1. CASE Next
  BY <1>1, AcceptType, ReactType, ColdType, MutateType, EventType, PushType, LossType,
     HandleAckType, RestartType
     DEF Next
<1>2. CASE UNCHANGED vars
  BY <1>2 DEF vars, custodyVars, threadVars, orchVars, history, TypeInv, TypeOK,
     TrustedLinks
<1> QED
  BY <1>1, <1>2

(* The state stays well typed, however many goroutines run Consume at      *)
(* once: an index another of them has moved below zero panics, and what a  *)
(* goroutine leaves Consume with is a link.                                *)
THEOREM TypeCorrect == Spec => []TypeOK
<1>1. Spec => []TypeInv
  BY InitType, StepType, PTL DEF Spec
<1>2. TypeInv => TypeOK
  BY DEF TypeInv
<1> QED
  BY <1>1, <1>2, PTL

(***************************************************************************)
(* The inductive invariant.  An epoch counts the mutations of a            *)
(* pseudo-ID, so "at least as recent" is a comparison of lengths; every    *)
(* identity anyone may still write down - a route, an ack under way, the   *)
(* result of a mutation past its PutFragment - is matched by a stored row. *)
(* That is what makes a DeleteFragment harmless whatever the other         *)
(* goroutines did since: the row it removes is older than the identity its *)
(* own PutFragment stored, and that one is matched.                        *)
(***************************************************************************)
Writing == {"put", "delete", "ack", "wait"}
Stored  == {"delete", "ack", "wait"}

EpochsCount ==
  /\ \A p \in DOMAIN rows : rows[p] = Len(p)
  /\ \A p \in DOMAIN routes : routes[p].epoch = Len(p)
  /\ \A c \in calls : c.epoch = Len(c.new)
  /\ \A t \in Threads : pc[t] \in Writing => epoch[t] = Len(pid[t])

(* Some stored row is at least as recent as q. *)
NotBehind(q) == \E p \in DOMAIN rows : Len(q) <= Len(p)

Untouched ==
  accept # "held" => /\ DOMAIN rows = {} /\ calls = {}
                     /\ DOMAIN routes \subseteq {FirstPID}
                     /\ \A t \in Threads : pc[t] \notin Writing
Durable ==
  accept = "held" => /\ NotBehind(FirstPID)
                     /\ \A p \in DOMAIN routes : NotBehind(p)
                     /\ \A c \in calls : NotBehind(c.new)
                     /\ \A t \in Threads : pc[t] \in Stored => NotBehind(Newer(t))

IInv == TypeInv /\ EpochsCount /\ Untouched /\ Durable

LEMMA IInvInit == Init => IInv
<1> SUFFICES ASSUME Init PROVE IInv
  OBVIOUS
<1>1. TypeInv
  BY InitType
<1>2. DOMAIN rows = {} /\ DOMAIN routes = {} /\ calls = {}
  BY DEF Init, Empty
<1>3. \A t \in Threads : pc[t] \notin Writing
  BY DEF Init, Writing
<1> QED
  BY <1>1, <1>2, <1>3 DEF Init, IInv, EpochsCount, Untouched, Durable

(***************************************************************************)
(* What a step can do to each part of the state.                           *)
(***************************************************************************)
LEMMA RowsWriters ==
  ASSUME [Next]_vars
  PROVE  \/ UNCHANGED rows
         \/ StoreFragment
         \/ \E t \in Threads : PutFragment(t) \/ DeleteFragment(t)
<1>1. CASE Accept
  BY <1>1 DEF Accept, Provision, AnnounceRoute, AnnounceFails, StoreFails
<1>2. ASSUME NEW t \in Threads, React(t) \/ Cold(t)
      PROVE  UNCHANGED rows
  BY <1>2 DEF React, Cold, PickPID, ReactionEnds, ConsumeCheck, ConsumeIndex, ConsumeDecrement,
     custodyVars
<1>3. ASSUME NEW t \in Threads, Mutate(t)
      PROVE  UNCHANGED rows \/ PutFragment(t) \/ DeleteFragment(t)
  BY <1>3 DEF Mutate, GetFragment, SQLError, SendAck, AckRefused, AckTimeout,
     custodyVars
<1>4. CASE HandleEvent \/ EventsLost
  BY <1>4 DEF HandleEvent, EventsLost, custodyVars
<1>5. ASSUME NEW p \in DOMAIN routes, PushSeed(p)
      PROVE  UNCHANGED rows
  BY <1>5 DEF PushSeed, custodyVars
<1>6. ASSUME NEW c \in calls, HandleAck(c)
      PROVE  UNCHANGED rows
  BY <1>6 DEF HandleAck, AckCheck, AckTrust, AckRoute, custodyVars
<1>7. CASE NodeRestart \/ OrchestratorRestart \/ \E u \in Threads : ConsumePanics(u)
  BY <1>7 DEF NodeRestart, ConsumePanics, ProcessEnds, OrchestratorRestart
<1>8. CASE UNCHANGED vars
  BY <1>8 DEF vars, custodyVars
<1> QED
  BY <1>1, <1>2, <1>3, <1>4, <1>5, <1>6, <1>7, <1>8 DEF Next

LEMMA RowsStep ==
  ASSUME IInv, [Next]_vars
  PROVE  /\ \A p \in DOMAIN rows' :
              \/ p \in DOMAIN rows /\ rows'[p] = rows[p]
              \/ p = FirstPID /\ rows'[p] = 0
              \/ \E t \in Threads : /\ pc[t] = "put" /\ p = Newer(t)
                                    /\ rows'[p] = epoch[t] + 1
         /\ \/ DOMAIN rows \subseteq DOMAIN rows'
            \/ \E t \in Threads : /\ pc[t] = "delete"
                                  /\ DOMAIN rows' = DOMAIN rows \ {pid[t]}
<1>0. TypeOK
  BY DEF IInv, TypeInv
<1>1. CASE UNCHANGED rows
  BY <1>1
<1>2. CASE StoreFragment
  <2>1. PICK e \in Nat : e = 0
    OBVIOUS
  <2>2. rows' = Upsert(rows, FirstPID, e)
    BY <1>2, <2>1 DEF StoreFragment
  <2>3. /\ DOMAIN rows' = DOMAIN rows \cup {FirstPID} /\ rows'[FirstPID] = e
        /\ \A q \in DOMAIN rows : q # FirstPID => rows'[q] = rows[q]
    BY <1>0, <2>2, RowsUpsert, FirstPIDType
  <2> QED
    BY <2>1, <2>3
<1>3. ASSUME NEW t \in Threads, PutFragment(t)
      PROVE  /\ pc[t] = "put"
             /\ DOMAIN rows \subseteq DOMAIN rows'
             /\ \A p \in DOMAIN rows' :
                  \/ p \in DOMAIN rows /\ rows'[p] = rows[p]
                  \/ p = Newer(t) /\ rows'[p] = epoch[t] + 1
  <2>1. PICK e \in Nat : e = epoch[t] + 1
    BY <1>0 DEF TypeOK
  <2>2. rows' = Upsert(rows, Newer(t), e) /\ pc[t] = "put"
    BY <1>3, <2>1 DEF PutFragment
  <2>3. /\ DOMAIN rows' = DOMAIN rows \cup {Newer(t)} /\ rows'[Newer(t)] = e
        /\ \A q \in DOMAIN rows : q # Newer(t) => rows'[q] = rows[q]
    BY <1>0, <2>2, RowsUpsert, NewerType
  <2>4. rows'[Newer(t)] = epoch[t] + 1
    BY <2>1, <2>3
  <2> QED
    BY <2>2, <2>3, <2>4
<1>4. ASSUME NEW t \in Threads, DeleteFragment(t)
      PROVE  /\ pc[t] = "delete"
             /\ DOMAIN rows' = DOMAIN rows \ {pid[t]}
             /\ \A p \in DOMAIN rows' : p \in DOMAIN rows /\ rows'[p] = rows[p]
  BY <1>0, <1>4, RowsWithout DEF DeleteFragment
<1> QED
  BY <1>1, <1>2, <1>3, <1>4, RowsWriters

(* Acks under way say what a goroutine past its DeleteFragment knew. *)
LEMMA CallsStep ==
  ASSUME IInv, [Next]_vars, NEW c \in calls'
  PROVE  \/ \E d \in calls : c.new = d.new /\ c.epoch = d.epoch
         \/ \E t \in Threads : /\ pc[t] = "ack" /\ c.new = Newer(t)
                               /\ c.epoch = epoch[t] + 1
<1>0. calls \subseteq Calls
  BY DEF IInv, TypeInv, TypeOK
<1>1. CASE calls' \subseteq calls
  BY <1>1
<1>2. ASSUME NEW t \in Threads, SendAck(t)
      PROVE  c \in calls \/ (/\ pc[t] = "ack" /\ c.new = Newer(t)
                             /\ c.epoch = epoch[t] + 1)
  BY <1>2 DEF SendAck
<1>3. ASSUME NEW e \in calls, HandleAck(e)
      PROVE  \E d \in calls : c.new = d.new /\ c.epoch = d.epoch
  <2>1. CASE c \in calls
    BY <2>1
  <2>2. CASE c \notin calls
    <3>1. e \in Calls
      BY <1>0
    <3>2. \A v, s : LET d == [e EXCEPT !.verdict = v, !.stage = s]
                   IN d.new = e.new /\ d.epoch = e.epoch
      BY <3>1 DEF Calls
    <3>3. \A s : LET d == [e EXCEPT !.stage = s]
                IN d.new = e.new /\ d.epoch = e.epoch
      BY <3>1 DEF Calls
    <3>4. CASE AckCheck(e)
      <4> DEFINE v == IF anchor = Unknown THEN "unknown"
                      ELSE IF VerifyStep(e.seed, anchor) THEN "ok" ELSE "failed"
                 s == IF v = "ok" THEN "trust" ELSE "route"
      <4>1. calls' = (calls \ {e}) \cup {[e EXCEPT !.verdict = v, !.stage = s]}
        BY <3>4 DEF AckCheck, Moved
      <4> HIDE DEF v, s
      <4>2. c = [e EXCEPT !.verdict = v, !.stage = s]
        BY <2>2, <4>1
      <4> QED
        BY <3>2, <4>2
    <3>5. CASE AckTrust(e)
      BY <2>2, <3>3, <3>5 DEF AckTrust, Moved
    <3>6. CASE AckRoute(e)
      BY <2>2, <3>6 DEF AckRoute
    <3> QED
      BY <1>3, <3>4, <3>5, <3>6 DEF HandleAck
  <2> QED
    BY <2>1, <2>2
<1>4. \/ calls' \subseteq calls
      \/ \E t \in Threads : SendAck(t)
      \/ \E e \in calls : HandleAck(e)
  <2>1. CASE Accept
    BY <2>1 DEF Accept, Provision, AnnounceRoute, AnnounceFails, StoreFragment,
       StoreFails, orchVars
  <2>2. ASSUME NEW t \in Threads, React(t) \/ Cold(t)
        PROVE  UNCHANGED calls
    BY <2>2 DEF React, Cold, PickPID, ReactionEnds, ConsumeCheck, ConsumeIndex,
       ConsumeDecrement, orchVars
  <2>3. ASSUME NEW t \in Threads, Mutate(t)
        PROVE  UNCHANGED calls \/ SendAck(t)
    BY <2>3 DEF Mutate, GetFragment, PutFragment, DeleteFragment, SQLError,
       AckRefused, AckTimeout, orchVars
  <2>4. CASE HandleEvent \/ EventsLost
    BY <2>4 DEF HandleEvent, EventsLost, orchVars
  <2>5. ASSUME NEW p \in DOMAIN routes, PushSeed(p)
        PROVE  UNCHANGED calls
    BY <2>5 DEF PushSeed, orchVars
  <2>6. CASE NodeRestart \/ OrchestratorRestart \/ \E u \in Threads : ConsumePanics(u)
    BY <2>6 DEF NodeRestart, ConsumePanics, ProcessEnds, OrchestratorRestart, orchVars
  <2>7. CASE UNCHANGED vars
    BY <2>7 DEF vars, orchVars
  <2> QED
    BY <2>1, <2>2, <2>3, <2>4, <2>5, <2>6, <2>7 DEF Next
<1> QED
  BY <1>1, <1>2, <1>3, <1>4

LEMMA RoutesStep ==
  ASSUME IInv, [Next]_vars, NEW p \in DOMAIN routes'
  PROVE  \/ p \in DOMAIN routes /\ routes'[p].epoch = routes[p].epoch
         \/ p = FirstPID /\ routes'[p].epoch = 0
         \/ \E c \in calls : p = c.new /\ routes'[p].epoch = c.epoch
<1>0. TypeOK
  BY DEF IInv, TypeInv
<1>1. CASE UNCHANGED routes
  BY <1>1
<1>2. CASE AnnounceRoute
  <2> DEFINE entry == [endpoint |-> "endpoint", epoch |-> 0]
  <2>1. entry \in RouteEntry /\ entry.epoch = 0
    BY DEF RouteEntry, Endpoints
  <2>2. routes' = Upsert(routes, FirstPID, entry)
    BY <1>2 DEF AnnounceRoute
  <2> HIDE DEF entry
  <2>3. CASE p = FirstPID
    BY <1>0, <2>1, <2>2, <2>3, RoutesUpsert, FirstPIDType
  <2>4. CASE p # FirstPID
    BY <1>0, <2>1, <2>2, <2>4, RoutesUpsert, FirstPIDType
  <2> QED
    BY <2>3, <2>4
<1>3. ASSUME NEW c \in calls, AckRoute(c)
      PROVE  \/ p \in DOMAIN routes /\ routes'[p].epoch = routes[p].epoch
             \/ p = c.new /\ routes'[p].epoch = c.epoch
  <2>1. c \in Calls /\ c.new \in PIDs /\ c.epoch \in Nat
    BY <1>0 DEF TypeOK, Calls
  <2> DEFINE entry == [endpoint |-> IF c.old \in DOMAIN routes
                                    THEN routes[c.old].endpoint ELSE "node_id",
                       epoch |-> c.epoch]
  <2>2. entry \in RouteEntry
    BY <1>0, <2>1 DEF RouteEntry, Endpoints, TypeOK
  <2>3. entry.epoch = c.epoch
    OBVIOUS
  <2>4. routes' = Upsert(Without(routes, c.old), c.new, entry)
    BY <1>3 DEF AckRoute
  <2> HIDE DEF entry
  <2>5. CASE p = c.new
    BY <1>0, <2>1, <2>2, <2>3, <2>4, <2>5, RoutesUpsert
  <2>6. CASE p # c.new
    BY <1>0, <2>1, <2>2, <2>4, <2>6, RoutesUpsert
  <2> QED
    BY <2>5, <2>6
<1>4. CASE OrchestratorRestart
  BY <1>4 DEF OrchestratorRestart, Empty
<1>5. \/ UNCHANGED routes \/ AnnounceRoute \/ OrchestratorRestart
      \/ \E c \in calls : AckRoute(c)
  <2>1. CASE Accept
    BY <2>1 DEF Accept, Provision, AnnounceFails, StoreFragment, StoreFails, orchVars
  <2>2. ASSUME NEW t \in Threads, React(t) \/ Cold(t)
        PROVE  UNCHANGED routes
    BY <2>2 DEF React, Cold, PickPID, ReactionEnds, ConsumeCheck, ConsumeIndex,
       ConsumeDecrement, orchVars
  <2>3. ASSUME NEW t \in Threads, Mutate(t)
        PROVE  UNCHANGED routes
    BY <2>3 DEF Mutate, GetFragment, PutFragment, DeleteFragment, SQLError,
       SendAck, AckRefused, AckTimeout, orchVars
  <2>4. CASE HandleEvent \/ EventsLost
    BY <2>4 DEF HandleEvent, EventsLost, orchVars
  <2>5. ASSUME NEW q \in DOMAIN routes, PushSeed(q)
        PROVE  UNCHANGED routes
    BY <2>5 DEF PushSeed, orchVars
  <2>6. ASSUME NEW c \in calls, HandleAck(c)
        PROVE  UNCHANGED routes \/ AckRoute(c)
    BY <2>6 DEF HandleAck, AckCheck, AckTrust
  <2>7. CASE NodeRestart \/ \E u \in Threads : ConsumePanics(u)
    BY <2>7 DEF NodeRestart, ConsumePanics, ProcessEnds, orchVars
  <2>8. CASE UNCHANGED vars
    BY <2>8 DEF vars, orchVars
  <2> QED
    BY <2>1, <2>2, <2>3, <2>4, <2>5, <2>6, <2>7, <2>8 DEF Next
<1> QED
  BY <1>1, <1>2, <1>3, <1>4, <1>5

(* A goroutine in a mutation past its GetFragment got there from that      *)
(* statement, or was in the mutation already; its PutFragment stores the   *)
(* identity it goes on with.                                               *)
LEMMA ThreadsStep ==
  ASSUME IInv, [Next]_vars, NEW t \in Threads, pc'[t] \in Writing
  PROVE  /\ pid'[t] = pid[t] /\ seed'[t] = seed[t]
         /\ \/ /\ pc'[t] = "put" /\ pid[t] \in DOMAIN rows
               /\ epoch'[t] = rows[pid[t]]
            \/ pc[t] \in Writing /\ epoch'[t] = epoch[t]
         /\ pc'[t] \in Stored => pc[t] \in Stored \/ Newer(t) \in DOMAIN rows'
<1> DEFINE P == /\ pid'[t] = pid[t] /\ seed'[t] = seed[t]
                /\ \/ /\ pc'[t] = "put" /\ pid[t] \in DOMAIN rows
                      /\ epoch'[t] = rows[pid[t]]
                   \/ pc[t] \in Writing /\ epoch'[t] = epoch[t]
                /\ pc'[t] \in Stored => pc[t] \in Stored \/ Newer(t) \in DOMAIN rows'
<1>0. TypeOK
  BY DEF IInv, TypeInv
<1>1. pc'[t] \notin {"idle", "pick", "consume", "index", "decrement", "get"}
  BY DEF Writing
<1>2. CASE UNCHANGED <<pc, pid, seed, epoch>>
  BY <1>2 DEF Writing, Stored
<1>3. ASSUME NEW u \in Threads, Return(u), UNCHANGED rows
      PROVE  P
  <2>1. pc'[u] \in {"idle", "pick"} /\ u # t
    BY <1>0, <1>1, <1>3 DEF Return, TypeOK
  <2>2. /\ pc'[t] = pc[t] /\ pid'[t] = pid[t] /\ seed'[t] = seed[t]
        /\ epoch'[t] = epoch[t]
    BY <1>0, <1>3, <2>1 DEF Return, TypeOK
  <2> QED
    BY <2>2
<1>4. CASE Accept
  BY <1>2, <1>4 DEF Accept, Provision, AnnounceRoute, AnnounceFails,
     StoreFragment, StoreFails, threadVars
<1>5. ASSUME NEW u \in Threads, React(u) \/ Cold(u)
      PROVE  P
  <2>1. CASE u = t /\ ~Return(t)
    BY <1>0, <1>1, <1>2, <1>5, <2>1
       DEF React, Cold, PickPID, ReactionEnds, ConsumeCheck, Enter, ConsumeIndex, ConsumeDecrement,
           Goto, TypeOK
  <2>2. CASE u # t
    <3>1. /\ pc'[t] = pc[t] /\ pid'[t] = pid[t] /\ seed'[t] = seed[t]
          /\ epoch'[t] = epoch[t]
      BY <1>0, <1>5, <2>2
         DEF React, Cold, PickPID, ReactionEnds, ConsumeCheck, Enter, ConsumeIndex, ConsumeDecrement,
             Goto, Return, TypeOK
    <3> QED
      BY <3>1
  <2>3. CASE u = t /\ Return(t)
    BY <1>0, <1>1, <2>3 DEF Return, TypeOK
  <2> QED
    BY <2>1, <2>2, <2>3
<1>6. ASSUME NEW u \in Threads, Mutate(u)
      PROVE  P
  <2>1. CASE u # t
    <3>1. /\ pc'[t] = pc[t] /\ pid'[t] = pid[t] /\ seed'[t] = seed[t]
          /\ epoch'[t] = epoch[t]
      BY <1>0, <1>6, <2>1
         DEF Mutate, GetFragment, PutFragment, DeleteFragment, SQLError,
             SendAck, AckRefused, AckTimeout, Goto, Return, TypeOK
    <3> QED
      BY <3>1
  <2>2. CASE u = t /\ Return(t)
    BY <1>0, <1>1, <2>2 DEF Return, TypeOK
  <2>3. CASE u = t /\ ~Return(t)
    <3>1. CASE GetFragment(t)
      BY <1>0, <2>3, <3>1 DEF GetFragment, Goto, TypeOK, Stored
    <3>2. CASE PutFragment(t)
      <4>1. Newer(t) \in DOMAIN rows'
        BY <3>2 DEF PutFragment, Upsert
      <4> QED
        BY <1>0, <3>2, <4>1 DEF PutFragment, Goto, TypeOK, Writing
    <3>3. CASE DeleteFragment(t) \/ SendAck(t)
      BY <1>0, <3>3 DEF DeleteFragment, SendAck, Goto, TypeOK, Writing, Stored
    <3> QED
      BY <1>6, <2>3, <3>1, <3>2, <3>3
         DEF Mutate, SQLError, AckRefused, AckTimeout
  <2> QED
    BY <2>1, <2>2, <2>3
<1>7. CASE HandleEvent
  <2>1. t # EventLoop
    BY <1>0, <1>1, <1>7 DEF HandleEvent, Goto, TypeOK
  <2>2. /\ pc'[t] = pc[t] /\ pid'[t] = pid[t] /\ seed'[t] = seed[t]
        /\ epoch'[t] = epoch[t]
    BY <1>0, <1>7, <2>1 DEF HandleEvent, Goto, TypeOK
  <2> QED
    BY <2>2
<1>8. ASSUME \/ \E p \in DOMAIN routes : PushSeed(p)
             \/ EventsLost
      PROVE  P
  BY <1>2, <1>8 DEF PushSeed, EventsLost
<1>9. ASSUME NEW c \in calls, HandleAck(c)
      PROVE  P
  <2>1. UNCHANGED rows /\ c.by \in Threads
    BY <1>0, <1>9 DEF HandleAck, AckCheck, AckTrust, AckRoute, custodyVars,
       TypeOK, Calls
  <2> QED
    BY <1>2, <1>3, <1>9, <2>1
       DEF HandleAck, AckCheck, AckTrust, AckRoute, threadVars
<1>10. CASE NodeRestart \/ \E u \in Threads : ConsumePanics(u)
  BY <1>1, <1>10 DEF NodeRestart, ConsumePanics, ProcessEnds
<1>11. CASE OrchestratorRestart
  <2>1. /\ pc'[t] = pc[t] /\ pid'[t] = pid[t] /\ seed'[t] = seed[t]
        /\ epoch'[t] = epoch[t]
    BY <1>0, <1>1, <1>11 DEF OrchestratorRestart, TypeOK
  <2> QED
    BY <2>1
<1>12. CASE UNCHANGED vars
  BY <1>2, <1>12 DEF vars, threadVars
<1> QED
  BY <1>4, <1>5, <1>6, <1>7, <1>8, <1>9, <1>10, <1>11, <1>12 DEF Next

(* Custody is taken by storing the fragment and never given up. *)
LEMMA AcceptStep ==
  ASSUME IInv, [Next]_vars
  PROVE  /\ accept = "held" => accept' = "held"
         /\ accept' = "held" => accept = "held" \/ StoreFragment
<1>1. CASE Accept
  BY <1>1 DEF Accept, Provision, AnnounceRoute, AnnounceFails, StoreFragment,
     StoreFails
<1>2. ASSUME NEW t \in Threads, React(t) \/ Cold(t) \/ Mutate(t)
      PROVE  UNCHANGED accept
  <2>1. CASE React(t) \/ Cold(t)
    BY <2>1 DEF React, Cold, PickPID, ReactionEnds, ConsumeCheck, ConsumeIndex,
       ConsumeDecrement, custodyVars
  <2>2. CASE Mutate(t)
    BY <2>2 DEF Mutate, GetFragment, PutFragment, DeleteFragment, SQLError,
       SendAck, AckRefused, AckTimeout, custodyVars
  <2> QED
    BY <1>2, <2>1, <2>2
<1>3. CASE HandleEvent \/ EventsLost
  BY <1>3 DEF HandleEvent, EventsLost, custodyVars
<1>4. ASSUME NEW p \in DOMAIN routes, PushSeed(p)
      PROVE  UNCHANGED accept
  BY <1>4 DEF PushSeed, custodyVars
<1>5. ASSUME NEW c \in calls, HandleAck(c)
      PROVE  UNCHANGED accept
  BY <1>5 DEF HandleAck, AckCheck, AckTrust, AckRoute, custodyVars
<1>6. CASE NodeRestart \/ OrchestratorRestart \/ \E u \in Threads : ConsumePanics(u)
  BY <1>6 DEF NodeRestart, ConsumePanics, ProcessEnds, OrchestratorRestart
<1>7. CASE UNCHANGED vars
  BY <1>7 DEF vars, custodyVars
<1> QED
  BY <1>1, <1>2, <1>3, <1>4, <1>5, <1>6, <1>7 DEF Next

(***************************************************************************)
(* The heart of the argument: no step leaves the table behind an identity  *)
(* it was not behind before.                                               *)
(***************************************************************************)
LEMMA Kept ==
  ASSUME IInv, [Next]_vars, NEW q \in PIDs, NotBehind(q)
  PROVE  NotBehind(q)'
<1>0. TypeOK
  BY DEF IInv, TypeInv
<1>1. CASE DOMAIN rows \subseteq DOMAIN rows'
  BY <1>1 DEF NotBehind
<1>2. ASSUME NEW t \in Threads, pc[t] = "delete",
             DOMAIN rows' = DOMAIN rows \ {pid[t]}
      PROVE  NotBehind(q)'
  <2>1. NotBehind(Newer(t))
    BY <1>2 DEF IInv, Untouched, Durable, Writing, Stored
  <2>2. PICK n \in DOMAIN rows : Len(Newer(t)) <= Len(n)
    BY <2>1 DEF NotBehind
  <2>3. PICK p \in DOMAIN rows : Len(q) <= Len(p)
    BY DEF NotBehind
  <2>4. /\ Len(pid[t]) \in Nat /\ Len(p) \in Nat /\ Len(n) \in Nat
        /\ Len(q) \in Nat /\ Len(Newer(t)) = Len(pid[t]) + 1
    <3>1. pid[t] \in PIDs /\ p \in PIDs /\ n \in PIDs
      BY <1>0, PIDsType
    <3> QED
      BY <1>0, <3>1, NewerType, LenType
  <2>5. n # pid[t] /\ n \in DOMAIN rows'
    BY <1>2, <2>2, <2>4
  <2>6. CASE p = pid[t]
    <3>1. Len(q) <= Len(n)
      BY <2>2, <2>3, <2>4, <2>6
    <3> QED
      BY <2>5, <3>1 DEF NotBehind
  <2>7. CASE p # pid[t]
    BY <1>2, <2>3, <2>7 DEF NotBehind
  <2> QED
    BY <2>6, <2>7
<1> QED
  BY <1>1, <1>2, RowsStep

LEMMA EpochsStep ==
  ASSUME IInv, [Next]_vars
  PROVE  EpochsCount'
<1>0. TypeOK
  BY DEF IInv, TypeInv
<1>1. \A t \in Threads : /\ pid[t] \in PIDs /\ Newer(t) \in PIDs
                         /\ Len(Newer(t)) = Len(pid[t]) + 1
  BY <1>0, NewerType DEF TypeOK
<1>2. \A t \in Threads : pc[t] \in {"put", "ack"} => epoch[t] + 1 = Len(Newer(t))
  BY <1>1 DEF IInv, EpochsCount, Writing
<1>3. ASSUME NEW p \in DOMAIN rows' PROVE rows'[p] = Len(p)
  BY <1>2, RowsStep, FirstPIDType DEF IInv, EpochsCount
<1>4. ASSUME NEW c \in calls' PROVE c.epoch = Len(c.new)
  BY <1>2, CallsStep DEF IInv, EpochsCount
<1>5. ASSUME NEW p \in DOMAIN routes' PROVE routes'[p].epoch = Len(p)
  BY RoutesStep, FirstPIDType DEF IInv, EpochsCount
<1>6. ASSUME NEW t \in Threads, pc'[t] \in Writing PROVE epoch'[t] = Len(pid'[t])
  BY <1>6, ThreadsStep DEF IInv, EpochsCount
<1> QED
  BY <1>3, <1>4, <1>5, <1>6 DEF EpochsCount

LEMMA UntouchedStep ==
  ASSUME IInv, [Next]_vars
  PROVE  Untouched'
<1> SUFFICES ASSUME accept' # "held"
             PROVE  /\ DOMAIN rows' = {} /\ calls' = {}
                    /\ DOMAIN routes' \subseteq {FirstPID}
                    /\ \A t \in Threads : pc'[t] \notin Writing
  BY DEF Untouched
<1>1. accept # "held"
  BY AcceptStep
<1>2. /\ DOMAIN rows = {} /\ calls = {} /\ DOMAIN routes \subseteq {FirstPID}
      /\ \A t \in Threads : pc[t] \notin Writing
  BY <1>1 DEF IInv, Untouched
<1>3. UNCHANGED rows
  BY <1>2, RowsWriters DEF StoreFragment, PutFragment, DeleteFragment, Writing
<1>4. calls' = {}
  BY <1>2, CallsStep DEF Writing
<1>5. DOMAIN routes' \subseteq {FirstPID}
  BY <1>2, RoutesStep
<1>6. \A t \in Threads : pc'[t] \notin Writing
  BY <1>2, ThreadsStep
<1> QED
  BY <1>2, <1>3, <1>4, <1>5, <1>6

LEMMA DurableStep ==
  ASSUME IInv, [Next]_vars
  PROVE  Durable'
<1> SUFFICES ASSUME accept' = "held"
             PROVE  /\ NotBehind(FirstPID)'
                    /\ \A p \in DOMAIN routes' : NotBehind(p)'
                    /\ \A c \in calls' : NotBehind(c.new)'
                    /\ \A t \in Threads : pc'[t] \in Stored => NotBehind(Newer(t))'
  BY DEF Durable
<1>0. TypeOK /\ TypeOK'
  BY StepType DEF IInv, TypeInv
<1>1. CASE accept = "held"
  <2>0. /\ NotBehind(FirstPID)
        /\ \A p \in DOMAIN routes : NotBehind(p)
        /\ \A c \in calls : NotBehind(c.new)
        /\ \A t \in Threads : pc[t] \in Stored => NotBehind(Newer(t))
    BY <1>1 DEF IInv, Durable
  <2>1. NotBehind(FirstPID)'
    BY <2>0, Kept, FirstPIDType
  <2>2. ASSUME NEW p \in DOMAIN routes' PROVE NotBehind(p)'
    <3>1. NotBehind(p)
      <4>1. CASE p \in DOMAIN routes
        BY <2>0, <4>1
      <4>2. CASE p = FirstPID
        BY <2>0, <4>2
      <4>3. CASE \E c \in calls : p = c.new
        BY <2>0, <4>3
      <4> QED
        BY <4>1, <4>2, <4>3, RoutesStep
    <3>2. p \in PIDs
      <4>1. DOMAIN routes' \subseteq PIDs
        BY <1>0 DEF TypeOK
      <4> QED
        BY <4>1
    <3> QED
      BY <3>1, <3>2, Kept
  <2>3. ASSUME NEW c \in calls' PROVE NotBehind(c.new)'
    <3>1. NotBehind(c.new)
      BY <2>0, CallsStep DEF Stored
    <3>2. c.new \in PIDs
      <4>1. calls' \subseteq Calls
        BY <1>0 DEF TypeOK
      <4> QED
        BY <4>1 DEF Calls
    <3> QED
      BY <3>1, <3>2, Kept
  <2>4. ASSUME NEW t \in Threads, pc'[t] \in Stored PROVE NotBehind(Newer(t))'
    <3>0. Newer(t) \in PIDs /\ Len(Newer(t)) \in Nat
      BY <1>0, NewerType, LenType
    <3>1. Newer(t)' = Newer(t)
      BY <2>4, ThreadsStep DEF Newer, Writing, Stored
    <3>2. CASE pc[t] \in Stored
      <4>1. NotBehind(Newer(t))
        BY <2>0, <3>2
      <4>2. \E p \in DOMAIN rows' : Len(Newer(t)) <= Len(p)
        BY <3>0, <4>1, Kept DEF NotBehind
      <4> QED
        BY <3>1, <4>2 DEF NotBehind
    <3>3. CASE Newer(t) \in DOMAIN rows'
      BY <3>0, <3>1, <3>3 DEF NotBehind
    <3> QED
      BY <2>4, <3>2, <3>3, ThreadsStep DEF Writing, Stored
  <2> QED
    BY <2>1, <2>2, <2>3, <2>4
<1>2. CASE accept # "held"
  <2>1. StoreFragment
    BY <1>2, AcceptStep
  <2>2. FirstPID \in DOMAIN rows'
    BY <2>1 DEF StoreFragment, Upsert
  <2>3. NotBehind(FirstPID)'
    BY <2>2, FirstPIDType DEF NotBehind
  <2>4. /\ calls = {} /\ DOMAIN routes \subseteq {FirstPID}
        /\ \A t \in Threads : pc[t] \notin Writing
    BY <1>2 DEF IInv, Untouched
  <2>5. calls' = {} /\ DOMAIN routes' \subseteq {FirstPID}
    BY <2>1, <2>4 DEF StoreFragment, orchVars
  <2>6. \A t \in Threads : pc'[t] \notin Stored
    BY <2>1, <2>4 DEF StoreFragment, threadVars, Writing, Stored
  <2> QED
    BY <2>3, <2>5, <2>6
<1> QED
  BY <1>1, <1>2

LEMMA InductiveStep == IInv /\ [Next]_vars => IInv'
<1> SUFFICES ASSUME IInv, [Next]_vars PROVE IInv'
  OBVIOUS
<1>1. TypeInv'
  BY StepType DEF IInv
<1> QED
  BY <1>1, EpochsStep, UntouchedStep, DurableStep DEF IInv

LEMMA Inductive == Spec => []IInv
<1> QED
  BY InductiveStep, IInvInit, PTL DEF Spec

(***************************************************************************)
(* The theorems.                                                           *)
(***************************************************************************)

(* Once custody is accepted the fragments table is never empty, whatever   *)
(* goroutines mutate the share at once and wherever SQL errors and crashes *)
(* cut them short (applyMutation).                                         *)
THEOREM ShareNeverLostAlways == Spec => []ShareNeverLost
<1>1. IInv => ShareNeverLost
  BY DEF IInv, Durable, NotBehind, ShareNeverLost
<1> QED
  BY <1>1, Inductive, PTL

(* No route the orchestrator holds is ahead of the node's disk, although   *)
(* acks may be handled long after the node gave up waiting for them.       *)
THEOREM RouteNeverAheadAlways == Spec => []RouteNeverAhead
<1>1. IInv => RouteNeverAhead
  <2> SUFFICES ASSUME IInv, accept = "held", NEW p \in DOMAIN routes
               PROVE  \E q \in DOMAIN rows : rows[q] >= routes[p].epoch
    BY DEF RouteNeverAhead
  <2>1. PICK q \in DOMAIN rows : Len(p) <= Len(q)
    BY DEF IInv, Durable, NotBehind
  <2>2. rows[q] = Len(q) /\ routes[p].epoch = Len(p)
    BY DEF IInv, EpochsCount
  <2>3. Len(p) \in Nat /\ Len(q) \in Nat
    BY DEF IInv, TypeInv, TypeOK, PIDs
  <2> QED
    BY <2>1, <2>2, <2>3
<1> QED
  BY <1>1, Inductive, PTL

(* The share's identity never falls back, not even by an overlapping       *)
(* mutation that deletes what another one has just stored.                 *)
THEOREM IdentityAdvancesAlways == Spec => IdentityAdvances
<1> DEFINE Step == \A p \in DOMAIN rows : \E q \in DOMAIN rows' : rows'[q] >= rows[p]
<1>1. IInv /\ IInv' /\ [Next]_vars => Step
  <2> SUFFICES ASSUME IInv, IInv', [Next]_vars, NEW p \in DOMAIN rows
               PROVE  \E q \in DOMAIN rows' : rows'[q] >= rows[p]
    OBVIOUS
  <2>1. p \in PIDs /\ Len(p) \in Nat
    BY DEF IInv, TypeInv, TypeOK, PIDs
  <2>2. NotBehind(p)'
    BY <2>1, Kept DEF NotBehind
  <2>3. PICK q \in DOMAIN rows' : Len(p) <= Len(q)
    BY <2>2 DEF NotBehind
  <2>4. Len(q) \in Nat
    BY DEF IInv, TypeInv, TypeOK, PIDs
  <2>5. rows[p] = Len(p) /\ rows'[q] = Len(q)
    BY DEF IInv, EpochsCount
  <2> QED
    BY <2>1, <2>3, <2>4, <2>5
<1>2. IInv /\ IInv' /\ [Next]_vars => [Step]_vars
  BY <1>1
<1> QED
  BY <1>2, Inductive, PTL DEF Spec, IdentityAdvances
=============================================================================
