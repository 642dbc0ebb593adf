--------------------------- MODULE SessionProofs ----------------------------
(***************************************************************************)
(* The control channel between the orchestrator and any number of nodes,   *)
(* with any number of connections and buffers of any size: its types, what *)
(* a pusher finds under the lock, the queue it implements for every node,  *)
(* and the root every session of a node comes up with.                     *)
(***************************************************************************)
EXTENDS NodeSession, SequenceTheorems, TLAPS

(***************************************************************************)
(* Sequences: two queues in a row are one queue.                           *)
(***************************************************************************)

(* The older queue's prefixes are prefixes of the whole. *)
LEMMA PrefixOfConcat ==
  ASSUME NEW S, NEW s \in Seq(S), NEW t \in Seq(S), NEW k \in 0 .. Len(s)
  PROVE  k \in 0 .. Len(s \o t) /\ SubSeq(s, 1, k) = SubSeq(s \o t, 1, k)
  <1>1. k \in 0 .. Len(s \o t)
    BY ConcatProperties
  <1>2. CASE k = 0
    BY <1>2, SubSeqEmpty
  <1>3. CASE k # 0
    BY <1>3, SubSeqOfConcat1
  <1> QED BY <1>1, <1>2, <1>3

(* What is taken from the whole is taken from the older queue. *)
LEMMA TakeFromConcat ==
  ASSUME NEW S, NEW s \in Seq(S), NEW t \in Seq(S), s # <<>>
  PROVE  s \o t # <<>> /\ Head(s \o t) = Head(s) /\ Tail(s \o t) = Tail(s) \o t
  <1>1. /\ s \o t \in Seq(S) /\ Len(s \o t) = Len(s) + Len(t)
        /\ Len(s) \in Nat \ {0} /\ Len(t) \in Nat
        /\ \A i \in 1 .. Len(s) + Len(t) :
             (s \o t)[i] = IF i <= Len(s) THEN s[i] ELSE t[i - Len(s)]
    BY ConcatProperties, EmptySeq, LenProperties
  <1>2. s \o t # <<>>
    BY <1>1, EmptySeq
  <1>3. /\ Tail(s) \in Seq(S) /\ Len(Tail(s)) = Len(s) - 1
        /\ \A i \in 1 .. Len(s) - 1 : Tail(s)[i] = s[i + 1]
    BY HeadTailProperties
  <1>4. /\ Tail(s \o t) \in Seq(S) /\ Len(Tail(s \o t)) = Len(s) + Len(t) - 1
        /\ \A i \in 1 .. Len(s) + Len(t) - 1 : Tail(s \o t)[i] = (s \o t)[i + 1]
    BY <1>1, <1>2, HeadTailProperties
  <1>5. /\ Tail(s) \o t \in Seq(S) /\ Len(Tail(s) \o t) = Len(s) + Len(t) - 1
        /\ \A i \in 1 .. Len(s) + Len(t) - 1 :
             (Tail(s) \o t)[i] = IF i <= Len(s) - 1 THEN Tail(s)[i] ELSE t[i - (Len(s) - 1)]
    BY <1>1, <1>3, ConcatProperties
  <1>6. \A i \in 1 .. Len(s) + Len(t) - 1 : Tail(s \o t)[i] = (Tail(s) \o t)[i]
    BY <1>1, <1>3, <1>4, <1>5
  <1>7. Tail(s \o t) = Tail(s) \o t
    BY <1>4, <1>5, <1>6, SeqEqual
  <1>8. Head(s \o t) = Head(s)
    BY <1>1, <1>2
  <1> QED BY <1>2, <1>7, <1>8

(* What is appended to the newer queue is appended to the whole. *)
LEMMA AppendToConcat ==
  ASSUME NEW S, NEW s \in Seq(S), NEW t \in Seq(S), NEW e \in S
  PROVE  s \o Append(t, e) = Append(s \o t, e)
  <1>1. <<e>> \in Seq(S) /\ s \o t \in Seq(S)
    BY ConcatProperties
  <1>2. Append(t, e) = t \o <<e>> /\ Append(s \o t, e) = (s \o t) \o <<e>>
    BY <1>1, AppendIsConcat
  <1> QED BY <1>1, <1>2, ConcatAssociative

(* An element neither queue holds is not in the whole. *)
LEMMA NotInConcat ==
  ASSUME NEW S, NEW s \in Seq(S), NEW t \in Seq(S), NEW e, ~Holds(s, e), ~Holds(t, e)
  PROVE  ~Holds(s \o t, e)
  <1>1. Len(s) \in Nat /\ Len(t) \in Nat
    BY LenProperties
  <1>2. ASSUME NEW i \in 1 .. Len(s) + Len(t)
        PROVE  (s \o t)[i] # e
    <2>1. (s \o t)[i] = IF i <= Len(s) THEN s[i] ELSE t[i - Len(s)]
      BY ConcatProperties
    <2>2. i <= Len(s) => i \in 1 .. Len(s)
      BY <1>1
    <2>3. ~(i <= Len(s)) => i - Len(s) \in 1 .. Len(t)
      BY <1>1
    <2> QED BY <2>1, <2>2, <2>3 DEF Holds
  <1>3. Len(s \o t) = Len(s) + Len(t)
    BY ConcatProperties
  <1> QED BY <1>2, <1>3 DEF Holds

(* Moving the oldest element of the newer queue to the older one moves     *)
(* nothing in the whole.                                                   *)
LEMMA MoveInConcat ==
  ASSUME NEW S, NEW s \in Seq(S), NEW t \in Seq(S), t # <<>>
  PROVE  Append(s, Head(t)) \o Tail(t) = s \o t
  <1> DEFINE e == Head(t)
             r == Tail(t)
  <1>1. e \in S /\ r \in Seq(S) /\ <<e>> \in Seq(S)
    BY HeadTailProperties
  <1>2. t = <<e>> \o r
    <2>1. Len(t) \in Nat \ {0}
      BY EmptySeq
    <2>2. SubSeq(t, 1, Len(t)) = <<t[1]>> \o SubSeq(t, 2, Len(t))
      BY <2>1, SubSeqRecursiveFirst
    <2> QED BY <2>1, <2>2, SubSeqFull, TailIsSubSeq
  <1>3. Append(s, e) = s \o <<e>>
    BY <1>1, AppendIsConcat
  <1> HIDE DEF e, r
  <1>4. (s \o <<e>>) \o r = s \o (<<e>> \o r)
    BY <1>1, ConcatAssociative
  <1> QED BY <1>2, <1>3, <1>4 DEF e, r

(***************************************************************************)
(* The inductive invariant.                                                *)
(***************************************************************************)

(* A channel in subs is its node's and open; a handler that has left its   *)
(* select has seen its connection end.                                     *)
Open == SubscribedIsOpen /\ \A c \in Conns : handler[c] # "serving" => cut[c]

(* Buffers stay within their capacities. *)
Bounded ==
  /\ events <= MaxEvents
  /\ \A c \in Conns : Len(chan[c]) <= ServerCap /\ Len(flow[c]) <= FlowCap

(* A push has been sent to none of the connections it has still to be sent *)
(* to, and no two pushes are of one event.                                 *)
Carries(c, e) == Holds(flow[c], e) \/ Holds(chan[c], e)
Fresh ==
  /\ \A p \in pushes : p.event <= events /\ \A c \in p.to : ~Carries(c, p.event)
  /\ \A p, q \in pushes : p.event = q.event => p = q
  /\ \A c \in Conns, e \in Event : Carries(c, e) => e <= events

IInv == TypeOK /\ Open /\ Bounded /\ Fresh

LEMMA HoldsFacts ==
  ASSUME NEW S, NEW s \in Seq(S), NEW e
  PROVE  /\ ~Holds(<<>>, e)
         /\ s # <<>> => Holds(s, Head(s)) /\ (Holds(Tail(s), e) => Holds(s, e))
         /\ \A k \in 0 .. Len(s) : Holds(SubSeq(s, 1, k), e) => Holds(s, e)
         /\ \A x \in S : Holds(Append(s, x), e) => Holds(s, e) \/ e = x
  <1>1. ~Holds(<<>>, e)
    BY DEF Holds
  <1>2. ASSUME s # <<>>
        PROVE  Holds(s, Head(s)) /\ (Holds(Tail(s), e) => Holds(s, e))
    <2>1. Len(s) \in Nat \ {0} /\ Head(s) = s[1]
      BY <1>2, EmptySeq
    <2>2. Len(Tail(s)) = Len(s) - 1 /\ \A i \in 1 .. Len(s) - 1 : Tail(s)[i] = s[i + 1]
      BY <1>2, HeadTailProperties
    <2>3. \A i \in 1 .. Len(s) - 1 : i + 1 \in 1 .. Len(s)
      BY <2>1
    <2> QED BY <2>1, <2>2, <2>3 DEF Holds
  <1>3. ASSUME NEW k \in 0 .. Len(s)
        PROVE  Holds(SubSeq(s, 1, k), e) => Holds(s, e)
    <2>1. Len(s) \in Nat /\ \A i \in 1 .. k : s[i] \in S
      BY LenProperties, ElementOfSeq
    <2>2. Len(SubSeq(s, 1, k)) = k /\ \A i \in 1 .. k : SubSeq(s, 1, k)[i] = s[i]
      BY <2>1, SubSeqProperties
    <2>3. 1 .. k \subseteq 1 .. Len(s)
      BY <2>1
    <2> QED BY <2>2, <2>3 DEF Holds
  <1>4. ASSUME NEW x \in S
        PROVE  Holds(Append(s, x), e) => Holds(s, e) \/ e = x
    BY AppendProperties, LenProperties DEF Holds
  <1> QED BY <1>1, <1>2, <1>3, <1>4

LEMMA PrefixFacts ==
  ASSUME NEW S, NEW s \in Seq(S), NEW rest \in Prefixes(s)
  PROVE  /\ rest \in Seq(S) /\ Len(rest) <= Len(s)
         /\ \A e : Holds(rest, e) => Holds(s, e)
         /\ \E k \in 0 .. Len(s) : rest = SubSeq(s, 1, k)
  <1>1. PICK k \in 0 .. Len(s) : rest = SubSeq(s, 1, k)
    BY DEF Prefixes
  <1>2. Len(s) \in Nat /\ \A i \in 1 .. k : s[i] \in S
    BY LenProperties, ElementOfSeq
  <1>3. rest \in Seq(S) /\ Len(rest) = k
    BY <1>1, <1>2, SubSeqProperties
  <1> QED BY <1>1, <1>2, <1>3, HoldsFacts

LEMMA InitIInv == Init => IInv
  <1> SUFFICES ASSUME Init
               PROVE  IInv
    OBVIOUS
  <1>1. /\ pushes = {} /\ events = 0 /\ <<>> \in Seq(Event) /\ Len(<<>>) = 0
        /\ \A n \in Nodes : subs[n] = None
        /\ \A c \in Conns : chan[c] = <<>> /\ flow[c] = <<>> /\ cut[c]
    BY EmptySeq DEF Init
  <1>2. TypeOK
    <2>1. chan \in [Conns -> Seq(Event)] /\ flow \in [Conns -> Seq(Event)]
      BY <1>1 DEF Init
    <2>2. cut \in [Conns -> BOOLEAN]
      BY DEF Init
    <2> QED BY <1>1, <2>1, <2>2 DEF Init, TypeOK, HandlerStates, NodeStates
  <1>3. Open /\ Fresh
    BY <1>1 DEF Open, SubscribedIsOpen, Fresh, Carries, Holds
  <1>4. Bounded
    BY <1>1, CapAssumption DEF Bounded
  <1> QED BY <1>2, <1>3, <1>4 DEF IInv

(***************************************************************************)
(* Types.                                                                  *)
(***************************************************************************)
LEMMA NodeTypes == ASSUME NEW n \in Nodes, TypeOK, NodeStep(n) PROVE TypeOK'
  <1> USE DEF TypeOK, NodeStates, HandlerStates, hubVars, connVars, nodeVars
  <1>1. CASE Register(n)
    BY <1>1 DEF Register
  <1>2. CASE Subscribe(n)
    <2>1. PICK c \in Conns : SubscribeAs(n, c)
      BY <1>2 DEF Subscribe
    <2>2. <<>> \in Seq(Event)
      BY EmptySeq
    <2> QED BY <2>1, <2>2 DEF SubscribeAs
  <1>3. CASE StartFails(n)
    BY <1>3 DEF StartFails
  <1>4. CASE TakeEvent(n)
    <2>1. stream[n] \in Conns /\ Tail(flow[stream[n]]) \in Seq(Event)
      BY <1>4, HeadTailProperties DEF TakeEvent
    <2> QED BY <1>4, <2>1 DEF TakeEvent
  <1>5. CASE NodeStops(n)
    <2>1. <<>> \in Seq(Event)
      BY EmptySeq
    <2>2. flow' \in [Conns -> Seq(Event)]
      BY <1>5, <2>1 DEF NodeStops
    <2>3. cut' \in [Conns -> BOOLEAN]
      BY <1>5 DEF NodeStops
    <2>4. node' \in [Nodes -> NodeStates] /\ stream' \in [Nodes -> Conns \cup {None}]
      BY <1>5 DEF NodeStops
    <2> QED BY <1>5, <2>2, <2>3, <2>4 DEF NodeStops
  <1>6. CASE StreamCut(n)
    <2>1. stream[n] \in Conns
      BY <1>6 DEF StreamCut
    <2>2. PICK rest \in Prefixes(flow[stream[n]]) : flow' = [flow EXCEPT ![stream[n]] = rest]
      BY <1>6 DEF StreamCut
    <2>3. rest \in Seq(Event)
      BY <2>1, PrefixFacts
    <2> QED BY <1>6, <2>1, <2>2, <2>3 DEF StreamCut
  <1> QED BY <1>1, <1>2, <1>3, <1>4, <1>5, <1>6 DEF NodeStep

LEMMA HandleTypes == ASSUME NEW c \in Conns, TypeOK, Handle(c) PROVE TypeOK'
  <1> USE DEF TypeOK, HandlerStates, hubVars, connVars, nodeVars
  <1>1. CASE Serve(c)
    <2>1. Tail(chan[c]) \in Seq(Event) /\ Head(chan[c]) \in Event
      BY <1>1, HeadTailProperties DEF Serve
    <2>2. Append(flow[c], Head(chan[c])) \in Seq(Event)
      BY <2>1, AppendProperties
    <2>3. chan' \in [Conns -> Seq(Event)] /\ flow' \in [Conns -> Seq(Event)]
      BY <1>1, <2>1, <2>2 DEF Serve
    <2> QED BY <1>1, <2>3 DEF Serve
  <1>2. CASE Unsubscribe(c)
    BY <1>2 DEF Unsubscribe
  <1>3. CASE Close(c)
    <2>1. <<>> \in Seq(Event)
      BY EmptySeq
    <2> QED BY <1>3, <2>1 DEF Close
  <1> QED BY <1>1, <1>2, <1>3 DEF Handle

LEMMA PushTypes ==
  ASSUME TypeOK, Bounded, Broadcast \/ \E n \in Nodes : PushSeed(n)
  PROVE  TypeOK' /\ events' = events + 1 /\ events' \in Event
  <1>1. events' = events + 1 /\ events' \in Event
    BY CapAssumption DEF TypeOK, Broadcast, PushSeed, Event
  <1>2. pushes' \subseteq Pushes
    <2>1. CASE Broadcast
      <3>1. Subscribed \subseteq Conns
        BY DEF Subscribed, TypeOK
      <3>2. [event |-> events + 1, kind |-> "delta", to |-> Subscribed] \in Pushes
        BY <1>1, <3>1 DEF Pushes
      <3> QED BY <2>1, <3>2 DEF Broadcast, TypeOK
    <2>2. ASSUME NEW n \in Nodes, PushSeed(n)
          PROVE  pushes' \subseteq Pushes
      BY <1>1, <2>2 DEF PushSeed, TypeOK, Pushes
    <2> QED BY <2>1, <2>2
  <1> QED BY <1>1, <1>2 DEF Broadcast, PushSeed, TypeOK, connVars, nodeVars, Event

LEMMA DiesTypes == TypeOK /\ Dies => TypeOK'
  <1> SUFFICES ASSUME TypeOK, Dies
               PROVE  TypeOK'
    OBVIOUS
  <1>1. <<>> \in Seq(Event)
    BY EmptySeq
  <1>2. flow' \in [Conns -> Seq(Event)]
    <2>1. \A c \in Conns : flow'[c] \in Seq(Event)
      BY PrefixFacts DEF Dies, TypeOK
    <2>2. DOMAIN flow' = Conns /\ flow' = [c \in DOMAIN flow' |-> flow'[c]]
      BY DEF Dies
    <2> QED BY <2>1, <2>2
  <1>3. cut' \in [Conns -> BOOLEAN]
    BY DEF Dies
  <1>4. chan' \in [Conns -> Seq(Event)]
    BY <1>1 DEF Dies
  <1> QED BY <1>2, <1>3, <1>4 DEF Dies, TypeOK, HandlerStates, nodeVars

LEMMA DeliverTypes == ASSUME NEW p \in pushes, TypeOK, Deliver(p) PROVE TypeOK'
  <1>1. PICK c \in Conns : Send(p, c) \/ SendPanics(p, c) \/ SeedPanics(p, c)
    BY DEF Deliver
  <1>2. p \in Pushes /\ p.event \in Event
    BY DEF TypeOK, Pushes
  <1>3. CASE Send(p, c)
    <2>1. [p EXCEPT !.to = @ \ {c}] \in Pushes
      BY <1>2 DEF Pushes
    <2>2. pushes' \subseteq Pushes
      BY <1>3, <2>1 DEF Send, SentTo, TypeOK
    <2>3. chan' \in [Conns -> Seq(Event)]
      <3>1. Append(chan[c], p.event) \in Seq(Event)
        BY <1>2, AppendProperties DEF TypeOK
      <3> QED BY <1>3, <3>1 DEF Send, TypeOK
    <2> QED BY <1>3, <2>2, <2>3 DEF Send, TypeOK, nodeVars
  <1>4. CASE SendPanics(p, c)
    BY <1>4 DEF SendPanics, TypeOK, connVars, nodeVars
  <1>5. CASE SeedPanics(p, c)
    BY <1>5, DiesTypes DEF SeedPanics
  <1> QED BY <1>1, <1>3, <1>4, <1>5

LEMMA NextTypes == IInv /\ [Next]_vars => TypeOK'
  <1> SUFFICES ASSUME IInv, [Next]_vars
               PROVE  TypeOK'
    OBVIOUS
  <1>0. TypeOK /\ Bounded
    BY DEF IInv
  <1>1. CASE OrchestratorStarts
    BY <1>0, <1>1 DEF OrchestratorStarts, TypeOK, connVars, nodeVars
  <1>2. CASE OrchestratorStops
    BY <1>0, <1>2, DiesTypes DEF OrchestratorStops
  <1>3. CASE UNCHANGED vars
    BY <1>0, <1>3 DEF vars, hubVars, connVars, nodeVars, TypeOK
  <1> QED BY <1>0, <1>1, <1>2, <1>3, NodeTypes, HandleTypes, PushTypes, DeliverTypes DEF Next

(***************************************************************************)
(* What subs holds is open.                                                *)
(***************************************************************************)
LEMMA OpenStep == IInv /\ [Next]_vars => Open'
  <1> SUFFICES ASSUME IInv, [Next]_vars
               PROVE  Open'
    OBVIOUS
  <1> USE DEF Open, SubscribedIsOpen, hubVars, connVars, nodeVars
  <1>0. TypeOK /\ Open
    BY DEF IInv
  <1>1. ASSUME NEW n \in Nodes, NodeStep(n)
        PROVE  Open'
    <2>1. CASE Subscribe(n)
      <3>1. PICK c \in Conns : Unused(c) /\ SubscribeAs(n, c)
        BY <2>1 DEF Subscribe
      <3>2. \A m \in Nodes : subs[m] # c
        BY <1>0, <3>1, NoneAssumption DEF Unused
      <3>3. \A m \in Nodes : subs'[m] = IF m = n THEN c ELSE subs[m]
        BY <1>0, <3>1 DEF SubscribeAs, TypeOK
      <3>4. /\ owner'[c] = n /\ handler'[c] = "serving"
            /\ \A d \in Conns \ {c} : owner'[d] = owner[d] /\ handler'[d] = handler[d] /\ cut'[d] = cut[d]
        BY <1>0, <3>1 DEF SubscribeAs, TypeOK
      <3>5. ASSUME NEW m \in Nodes, subs'[m] # None
            PROVE  owner'[subs'[m]] = m /\ handler'[subs'[m]] = "serving"
        <4>1. CASE m = n
          BY <3>3, <3>4, <4>1
        <4>2. CASE m # n
          <5>1. subs'[m] = subs[m] /\ subs[m] \in Conns \ {c}
            BY <1>0, <3>2, <3>3, <3>5, <4>2 DEF TypeOK
          <5> QED BY <1>0, <3>4, <3>5, <5>1
        <4> QED BY <4>1, <4>2
      <3>6. \A d \in Conns : handler'[d] # "serving" => cut'[d]
        BY <1>0, <3>4
      <3> QED BY <3>5, <3>6
    <2>2. CASE ~Subscribe(n)
      <3>1. UNCHANGED <<subs, owner, handler>>
        BY <1>1, <2>2 DEF NodeStep, Register, StartFails, TakeEvent, NodeStops, StreamCut
      <3>2. \A c \in Conns : cut[c] => cut'[c]
        BY <1>0, <1>1, <2>2 DEF NodeStep, Register, StartFails, TakeEvent, NodeStops, StreamCut, TypeOK
      <3> QED BY <1>0, <3>1, <3>2
    <2> QED BY <2>1, <2>2
  <1>2. ASSUME NEW c \in Conns, Handle(c)
        PROVE  Open'
    <2>1. CASE Serve(c)
      BY <1>0, <2>1 DEF Serve
    <2>2. CASE Unsubscribe(c)
      <3>1. \A m \in Nodes : subs'[m] = IF m = owner[c] THEN None ELSE subs[m]
        BY <1>0, <2>2 DEF Unsubscribe, TypeOK
      <3>2. \A d \in Conns : handler'[d] = IF d = c THEN "closing" ELSE handler[d]
        BY <1>0, <2>2 DEF Unsubscribe, TypeOK
      <3> QED BY <1>0, <2>2, <3>1, <3>2 DEF Unsubscribe, TypeOK
    <2>3. CASE Close(c)
      <3>1. \A d \in Conns \ {c} : handler'[d] = handler[d] /\ owner'[d] = owner[d]
        BY <1>0, <2>3 DEF Close, TypeOK
      <3>2. handler[c] = "closing" /\ UNCHANGED <<subs, cut>>
        BY <2>3 DEF Close
      <3> QED BY <1>0, <3>1, <3>2 DEF TypeOK
    <2> QED BY <1>2, <2>1, <2>2, <2>3 DEF Handle
  <1>3. CASE Dies
    BY <1>3 DEF Dies
  <1>4. CASE UNCHANGED <<subs, owner, handler, cut>>
    BY <1>0, <1>4
  <1> QED BY <1>1, <1>2, <1>3, <1>4
          DEF Next, vars, Broadcast, PushSeed, Deliver, Send, SendPanics, SeedPanics,
              OrchestratorStops, OrchestratorStarts

(***************************************************************************)
(* The buffers.                                                            *)
(***************************************************************************)
LEMMA BoundedStep == IInv /\ [Next]_vars => Bounded'
  <1> SUFFICES ASSUME IInv, [Next]_vars
               PROVE  Bounded'
    OBVIOUS
  <1> USE DEF hubVars, connVars, nodeVars
  <1>0. /\ TypeOK /\ Bounded
        /\ {ServerCap, FlowCap, MaxEvents} \subseteq Nat \ {0}
        /\ Len(<<>>) = 0 /\ <<>> \in Seq(Event)
        /\ \A c \in Conns : Len(chan[c]) \in Nat /\ Len(flow[c]) \in Nat
    BY CapAssumption, EmptySeq, LenProperties DEF IInv, TypeOK
  <1>1. ASSUME NEW n \in Nodes, NodeStep(n)
        PROVE  Bounded'
    <2>0. events' = events /\ (UNCHANGED chan \/ Subscribe(n))
      BY <1>1 DEF NodeStep, Register, Subscribe, SubscribeAs, StartFails, TakeEvent, NodeStops, StreamCut
    <2>1. CASE Subscribe(n)
      <3>1. PICK c \in Conns : chan' = [chan EXCEPT ![c] = <<>>] /\ flow' = [flow EXCEPT ![c] = <<>>]
        BY <2>1 DEF Subscribe, SubscribeAs
      <3> QED BY <1>0, <2>0, <3>1 DEF Bounded, TypeOK
    <2>2. CASE TakeEvent(n)
      <3>1. stream[n] \in Conns /\ flow[stream[n]] # <<>> /\ flow' = [flow EXCEPT ![stream[n]] = Tail(@)]
        BY <1>0, <2>2 DEF TakeEvent, TypeOK
      <3>2. Len(Tail(flow[stream[n]])) = Len(flow[stream[n]]) - 1
        BY <1>0, <3>1, HeadTailProperties DEF TypeOK
      <3>3. UNCHANGED chan
        BY <2>2 DEF TakeEvent
      <3> QED BY <1>0, <2>0, <3>1, <3>2, <3>3 DEF Bounded, TypeOK
    <2>3. CASE NodeStops(n)
      <3>1. UNCHANGED chan /\ \A c \in Conns : flow'[c] \in {<<>>, flow[c]}
        BY <2>3 DEF NodeStops
      <3> QED BY <1>0, <2>0, <3>1 DEF Bounded
    <2>4. CASE StreamCut(n)
      <3>1. PICK rest \in Prefixes(flow[stream[n]]) : flow' = [flow EXCEPT ![stream[n]] = rest]
        BY <2>4 DEF StreamCut
      <3>2. stream[n] \in Conns /\ UNCHANGED chan
        BY <1>0, <2>4 DEF StreamCut, TypeOK
      <3>3. Len(rest) <= Len(flow[stream[n]]) /\ Len(rest) \in Nat
        BY <1>0, <3>1, <3>2, PrefixFacts, LenProperties DEF TypeOK
      <3> QED BY <1>0, <2>0, <3>1, <3>2, <3>3 DEF Bounded, TypeOK
    <2>5. CASE UNCHANGED <<chan, flow>>
      BY <1>0, <2>0, <2>5 DEF Bounded
    <2> QED BY <1>1, <2>1, <2>2, <2>3, <2>4, <2>5 DEF NodeStep, Register, StartFails
  <1>2. ASSUME NEW c \in Conns, Handle(c)
        PROVE  Bounded'
    <2>1. CASE Serve(c)
      <3>1. /\ chan[c] # <<>> /\ chan' = [chan EXCEPT ![c] = Tail(@)]
            /\ \/ flow' = flow
               \/ Len(flow[c]) < FlowCap /\ flow' = [flow EXCEPT ![c] = Append(@, Head(chan[c]))]
            /\ events' = events
        BY <2>1 DEF Serve
      <3>2. Len(Tail(chan[c])) = Len(chan[c]) - 1 /\ Head(chan[c]) \in Event
        BY <1>0, <3>1, HeadTailProperties DEF TypeOK
      <3>3. Len(Append(flow[c], Head(chan[c]))) = Len(flow[c]) + 1
        BY <1>0, <3>2, AppendProperties DEF TypeOK
      <3> QED BY <1>0, <3>1, <3>2, <3>3 DEF Bounded, TypeOK
    <2>2. CASE Unsubscribe(c)
      BY <1>0, <2>2 DEF Unsubscribe, Bounded
    <2>3. CASE Close(c)
      BY <1>0, <2>3 DEF Close, Bounded, TypeOK
    <2> QED BY <1>2, <2>1, <2>2, <2>3 DEF Handle
  <1>3. CASE Broadcast \/ \E n \in Nodes : PushSeed(n)
    BY <1>0, <1>3 DEF Broadcast, PushSeed, Bounded, TypeOK
  <1>4. CASE Dies
    <2>1. \A c \in Conns : Len(flow'[c]) <= Len(flow[c]) /\ Len(flow'[c]) \in Nat
      BY <1>0, <1>4, PrefixFacts, LenProperties DEF Dies, TypeOK
    <2>2. events' = events /\ \A c \in Conns : chan'[c] = <<>>
      BY <1>4 DEF Dies
    <2>3. events' <= MaxEvents
      BY <1>0, <2>2 DEF Bounded
    <2>4. \A c \in Conns : Len(chan'[c]) <= ServerCap
      BY <1>0, <2>2
    <2>5. \A c \in Conns : Len(flow'[c]) <= FlowCap
      BY <1>0, <2>1 DEF Bounded
    <2> QED BY <2>3, <2>4, <2>5 DEF Bounded
  <1>5. ASSUME NEW p \in pushes, NEW c \in Conns, Send(p, c)
        PROVE  Bounded'
    <2>1. p.event \in Event
      BY <1>0 DEF TypeOK, Pushes
    <2>2. Len(Append(chan[c], p.event)) = Len(chan[c]) + 1
      BY <1>0, <2>1, AppendProperties DEF TypeOK
    <2> QED BY <1>0, <1>5, <2>2 DEF Send, Bounded, TypeOK
  <1>6. CASE UNCHANGED <<events, chan, flow>>
    BY <1>0, <1>6 DEF Bounded
  <1> QED BY <1>1, <1>2, <1>3, <1>4, <1>5, <1>6
          DEF Next, vars, Deliver, SendPanics, SeedPanics, OrchestratorStops, OrchestratorStarts

(***************************************************************************)
(* No event is sent to a connection twice.                                 *)
(***************************************************************************)

(* Nothing new is carried, and no push is begun or enlarged. *)
LEMMA NothingNew ==
  ASSUME IInv, events' = events, pushes' \subseteq pushes,
         \A c \in Conns, e \in Event : Carries(c, e)' => Carries(c, e)
  PROVE  Fresh'
  <1>1. \A p \in pushes : p.event \in Event /\ p.to \subseteq Conns
    BY DEF IInv, TypeOK, Pushes
  <1> QED BY <1>1 DEF IInv, Fresh

LEMMA FreshStep == IInv /\ [Next]_vars => Fresh'
  <1> SUFFICES ASSUME IInv, [Next]_vars
               PROVE  Fresh'
    OBVIOUS
  <1> USE DEF hubVars, connVars, nodeVars
  <1>0. /\ TypeOK /\ Bounded /\ Fresh /\ MaxEvents \in Nat
        /\ \A c \in Conns : chan[c] \in Seq(Event) /\ flow[c] \in Seq(Event)
        /\ \A e : ~Holds(<<>>, e)
    BY CapAssumption DEF IInv, TypeOK, Holds
  <1>1. ASSUME NEW n \in Nodes, NodeStep(n)
        PROVE  Fresh'
    <2>0. events' = events /\ pushes' = pushes
      BY <1>1 DEF NodeStep, Register, Subscribe, SubscribeAs, StartFails, TakeEvent, NodeStops, StreamCut
    <2>1. \A c \in Conns, e \in Event :
            (Holds(flow'[c], e) => Holds(flow[c], e)) /\ (Holds(chan'[c], e) => Holds(chan[c], e))
      <3>1. CASE Subscribe(n)
        <4>1. PICK c \in Conns : chan' = [chan EXCEPT ![c] = <<>>] /\ flow' = [flow EXCEPT ![c] = <<>>]
          BY <3>1 DEF Subscribe, SubscribeAs
        <4>2. \A d \in Conns : chan'[d] \in {<<>>, chan[d]} /\ flow'[d] \in {<<>>, flow[d]}
          BY <1>0, <4>1 DEF TypeOK
        <4> QED BY <1>0, <4>2
      <3>2. CASE TakeEvent(n)
        <4>1. stream[n] \in Conns /\ flow[stream[n]] # <<>> /\ chan' = chan
          BY <1>0, <3>2 DEF TakeEvent, TypeOK
        <4>2. \A d \in Conns : flow'[d] = IF d = stream[n] THEN Tail(flow[d]) ELSE flow[d]
          BY <1>0, <3>2 DEF TakeEvent, TypeOK
        <4> QED BY <1>0, <4>1, <4>2, HoldsFacts
      <3>3. CASE NodeStops(n)
        <4>1. chan' = chan /\ \A c \in Conns : flow'[c] \in {<<>>, flow[c]}
          BY <3>3 DEF NodeStops
        <4> QED BY <1>0, <4>1
      <3>4. CASE StreamCut(n)
        <4>1. PICK rest \in Prefixes(flow[stream[n]]) : flow' = [flow EXCEPT ![stream[n]] = rest]
          BY <3>4 DEF StreamCut
        <4>2. stream[n] \in Conns /\ chan' = chan
          BY <1>0, <3>4 DEF StreamCut, TypeOK
        <4>3. \A e : Holds(rest, e) => Holds(flow[stream[n]], e)
          BY <1>0, <4>1, <4>2, PrefixFacts
        <4>4. \A d \in Conns : flow'[d] = IF d = stream[n] THEN rest ELSE flow[d]
          BY <1>0, <4>1 DEF TypeOK
        <4> QED BY <4>2, <4>3, <4>4
      <3>5. CASE UNCHANGED <<chan, flow>>
        BY <3>5
      <3> QED BY <1>1, <3>1, <3>2, <3>3, <3>4, <3>5 DEF NodeStep, Register, StartFails
    <2> QED BY <2>0, <2>1, NothingNew DEF Carries
  <1>2. ASSUME NEW c \in Conns, Handle(c)
        PROVE  Fresh'
    <2>0. events' = events /\ pushes' = pushes
      BY <1>2 DEF Handle, Serve, Unsubscribe, Close
    <2>1. CASE Serve(c)
      <3>1. chan[c] # <<>> /\ Head(chan[c]) \in Event
        BY <1>0, <2>1, HeadTailProperties DEF Serve
      <3>2. \A d \in Conns : chan'[d] = IF d = c THEN Tail(chan[d]) ELSE chan[d]
        BY <1>0, <2>1 DEF Serve, TypeOK
      <3>3. \A d \in Conns : flow'[d] = flow[d] \/ (d = c /\ flow'[d] = Append(flow[d], Head(chan[d])))
        BY <1>0, <2>1 DEF Serve, TypeOK
      <3>4. \A e \in Event : Holds(chan'[c], e) => Holds(chan[c], e)
        BY <1>0, <3>1, <3>2, HoldsFacts
      <3>5. \A e \in Event : Holds(flow'[c], e) => Holds(flow[c], e) \/ Holds(chan[c], e)
        <4>1. Holds(chan[c], Head(chan[c]))
          BY <1>0, <3>1, HoldsFacts
        <4>2. \A e : Holds(Append(flow[c], Head(chan[c])), e) => Holds(flow[c], e) \/ e = Head(chan[c])
          BY <1>0, <3>1, HoldsFacts
        <4> QED BY <3>3, <4>1, <4>2
      <3>6. \A d \in Conns, e \in Event : Carries(d, e)' => Carries(d, e)
        BY <3>2, <3>3, <3>4, <3>5 DEF Carries
      <3> QED BY <2>0, <3>6, NothingNew
    <2>2. CASE Unsubscribe(c)
      BY <2>0, <2>2, NothingNew DEF Unsubscribe, Carries
    <2>3. CASE Close(c)
      <3>1. flow' = flow /\ \A d \in Conns : chan'[d] \in {<<>>, chan[d]}
        BY <1>0, <2>3 DEF Close, TypeOK
      <3> QED BY <1>0, <2>0, <3>1, NothingNew DEF Carries
    <2> QED BY <1>2, <2>1, <2>2, <2>3 DEF Handle
  <1>3. CASE Broadcast \/ \E n \in Nodes : PushSeed(n)
    <2>1. events \in Nat /\ events' = events + 1 /\ UNCHANGED <<chan, flow>>
      BY <1>0, <1>3 DEF Broadcast, PushSeed, TypeOK
    <2>2. \A p \in pushes' : p \in pushes \/ (p.event = events + 1 /\ p.to \subseteq Conns)
      <3>1. Subscribed \subseteq Conns /\ \A n \in Nodes : subs[n] # None => subs[n] \in Conns
        BY <1>0 DEF Subscribed, TypeOK
      <3> QED BY <1>3, <3>1 DEF Broadcast, PushSeed
    <2>3. \A p, q \in pushes' : p.event = events + 1 /\ q.event = events + 1
                                  /\ p \notin pushes /\ q \notin pushes => p = q
      BY <1>3 DEF Broadcast, PushSeed
    <2>4. \A c \in Conns, e \in Event : Carries(c, e)' <=> Carries(c, e)
      BY <2>1 DEF Carries
    <2>5. \A p \in pushes : p.event \in Event /\ p.event <= events /\ p.event # events + 1 /\ p.to \subseteq Conns
      BY <1>0, <2>1 DEF Fresh, TypeOK, Pushes, Event
    <2>6. events + 1 \in Event /\ \A c \in Conns : ~Carries(c, events + 1)
      BY <1>0, <1>3, <2>1, PushTypes DEF Fresh, Event
    <2>7. ASSUME NEW p \in pushes'
          PROVE  p.event <= events' /\ \A c \in p.to : ~Carries(c, p.event)'
      <3>1. CASE p \in pushes
        <4>1. p.event \in Event /\ p.event <= events /\ p.to \subseteq Conns
          BY <2>5, <3>1
        <4>2. \A c \in p.to : ~Carries(c, p.event)
          BY <1>0, <3>1 DEF Fresh
        <4> QED BY <2>1, <2>4, <4>1, <4>2 DEF Event
      <3>2. CASE p \notin pushes
        <4>1. p.event = events + 1 /\ p.to \subseteq Conns
          BY <2>2, <3>2
        <4> QED BY <2>1, <2>4, <2>6, <4>1
      <3> QED BY <3>1, <3>2
    <2>8. \A p, q \in pushes' : p.event = q.event => p = q
      BY <1>0, <2>2, <2>3, <2>5 DEF Fresh
    <2>9. \A c \in Conns, e \in Event : Carries(c, e)' => e <= events'
      BY <1>0, <2>1, <2>4 DEF Fresh, Event
    <2> QED BY <2>7, <2>8, <2>9 DEF Fresh
  <1>4. CASE Dies
    <2>1. events' = events /\ pushes' = {} /\ \A c \in Conns : chan'[c] = <<>>
      BY <1>4 DEF Dies
    <2>2. \A c \in Conns, e \in Event : Holds(flow'[c], e) => Holds(flow[c], e)
      <3>1. \A c \in Conns : flow'[c] \in Prefixes(flow[c])
        BY <1>4 DEF Dies
      <3> QED BY <1>0, <3>1, PrefixFacts
    <2> QED BY <1>0, <2>1, <2>2, NothingNew DEF Carries
  <1>5. ASSUME NEW p \in pushes, NEW c \in Conns, Send(p, c)
        PROVE  Fresh'
    <2>1. p.event \in Event /\ p.to \subseteq Conns /\ events' = events /\ flow' = flow /\ c \in p.to
      BY <1>0, <1>5 DEF TypeOK, Pushes, Send
    <2>2. \A d \in Conns : chan'[d] = chan[d] \/ (d = c /\ chan'[d] = Append(chan[d], p.event))
      BY <1>0, <1>5 DEF Send, TypeOK
    <2>3. \A d \in Conns, e \in Event : Carries(d, e)' => Carries(d, e) \/ (d = c /\ e = p.event)
      <3>1. \A e : Holds(Append(chan[c], p.event), e) => Holds(chan[c], e) \/ e = p.event
        BY <1>0, <2>1, HoldsFacts
      <3> QED BY <2>1, <2>2, <3>1 DEF Carries
    <2>4. \A q \in pushes' : \/ q \in pushes \ {p}
                             \/ q = [p EXCEPT !.to = @ \ {c}]
      BY <1>5 DEF Send, SentTo
    <2>5. [p EXCEPT !.to = @ \ {c}].event = p.event /\ [p EXCEPT !.to = @ \ {c}].to = p.to \ {c}
      BY <1>0 DEF TypeOK, Pushes
    <2>6. \A q \in pushes : q.event \in Event /\ q.to \subseteq Conns /\ (q # p => q.event # p.event)
      BY <1>0 DEF TypeOK, Pushes, Fresh
    <2>7. \A q \in pushes' : q.event <= events' /\ \A d \in q.to : ~Carries(d, q.event)'
      BY <1>0, <2>1, <2>3, <2>4, <2>5, <2>6 DEF Fresh
    <2>8. \A q, r \in pushes' : q.event = r.event => q = r
      BY <1>0, <2>4, <2>5, <2>6 DEF Fresh
    <2>9. \A d \in Conns, e \in Event : Carries(d, e)' => e <= events'
      BY <1>0, <2>1, <2>3 DEF Fresh
    <2> QED BY <2>7, <2>8, <2>9 DEF Fresh
  <1>6. CASE UNCHANGED <<events, chan, flow>> /\ pushes' \subseteq pushes
    BY <1>6, NothingNew DEF Carries
  <1> QED BY <1>1, <1>2, <1>3, <1>4, <1>5, <1>6
          DEF Next, vars, Deliver, SendPanics, SeedPanics, OrchestratorStops, OrchestratorStarts

LEMMA NextIInv == IInv /\ [Next]_vars => IInv'
  BY NextTypes, OpenStep, BoundedStep, FreshStep DEF IInv

(***************************************************************************)
(* Every node's queue.                                                     *)
(***************************************************************************)

(* A step that puts nothing into n's queue. *)
Ebbs(n) ==
  \/ Pending(n)' = Pending(n)
  \/ \E k \in 0 .. Len(Pending(n)) : Pending(n)' = SubSeq(Pending(n), 1, k)
  \/ Pending(n) # <<>> /\ Head(Pending(n)) \in Event /\ Pending(n)' = Tail(Pending(n))

(* One that puts e into it. *)
Gains(n, e) ==
  /\ Len(Pending(n)) < ServerCap + FlowCap /\ ~Holds(Pending(n), e)
  /\ Pending(n)' = Append(Pending(n), e)

LEMMA Moves ==
  ASSUME NEW n \in Nodes, Ebbs(n) \/ \E e \in Event : Gains(n, e)
  PROVE  Queue(n)!Next
  BY DEF Queue!Next, Queue!Drop, Queue!Lose, Queue!Push, Queue!Take, Holds, Ebbs, Gains

(* What a connection still brings its reader. *)
Coming(c) == flow[c] \o (IF cut[c] THEN <<>> ELSE chan[c])

LEMMA PendingFacts ==
  ASSUME TypeOK, NEW n \in Nodes
  PROVE  /\ stream[n] = None => Pending(n) = <<>>
         /\ stream[n] # None => stream[n] \in Conns /\ Pending(n) = Coming(stream[n])
         /\ Pending(n) \in Seq(Event)
  <1>1. stream[n] # None => stream[n] \in Conns /\ Coming(stream[n]) \in Seq(Event)
    BY ConcatProperties, EmptySeq DEF TypeOK, Coming
  <1> QED BY <1>1, EmptySeq DEF Pending, Coming

(* A node that goes on reading the connection it reads sees what happens   *)
(* to that connection.                                                     *)
LEMMA StepOfConnection ==
  ASSUME IInv, IInv', NEW n \in Nodes, stream'[n] = stream[n],
         \A c \in Conns : stream[n] = c =>
           \/ Coming(c)' = Coming(c)
           \/ \E k \in 0 .. Len(Coming(c)) : Coming(c)' = SubSeq(Coming(c), 1, k)
           \/ Coming(c) # <<>> /\ Head(Coming(c)) \in Event /\ Coming(c)' = Tail(Coming(c))
  PROVE  Ebbs(n)
  <1>0. TypeOK /\ TypeOK'
    BY DEF IInv
  <1>1. CASE stream[n] = None
    BY <1>0, <1>1, PendingFacts DEF Pending, Ebbs
  <1>2. CASE stream[n] # None
    <2>1. PICK c \in Conns : stream[n] = c /\ stream'[n] = c
      BY <1>0, <1>2, PendingFacts
    <2>2. c # None
      BY NoneAssumption
    <2>3. Pending(n) = Coming(c) /\ Pending(n)' = Coming(c)'
      BY <2>1, <2>2 DEF Pending, Coming
    <2> QED BY <2>1, <2>3 DEF Ebbs
  <1> QED BY <1>1, <1>2

LEMMA StreamNew ==
  ASSUME TypeOK, NEW n \in Nodes, Pending(n)' = <<>>
  PROVE  Ebbs(n)
  <1>1. Pending(n) \in Seq(Event)
    BY PendingFacts
  <1>2. 0 \in 0 .. Len(Pending(n)) /\ SubSeq(Pending(n), 1, 0) = <<>>
    BY <1>1, LenProperties, SubSeqEmpty
  <1> QED BY <1>2 DEF Ebbs

(* The bytes that are left after a cut, and what the channel held is lost. *)
LEMMA CutLoses ==
  ASSUME TypeOK, NEW c \in Conns, flow'[c] \in Prefixes(flow[c]), cut'[c]
  PROVE  \E k \in 0 .. Len(Coming(c)) : Coming(c)' = SubSeq(Coming(c), 1, k)
  <1>1. flow[c] \in Seq(Event) /\ (IF cut[c] THEN <<>> ELSE chan[c]) \in Seq(Event)
    BY EmptySeq DEF TypeOK
  <1>2. PICK k \in 0 .. Len(flow[c]) : flow'[c] = SubSeq(flow[c], 1, k)
    BY DEF Prefixes
  <1>3. flow'[c] \in Seq(Event)
    BY <1>1, PrefixFacts
  <1>4. Coming(c)' = flow'[c]
    BY <1>3, ConcatEmptySeq DEF Coming
  <1>5. k \in 0 .. Len(Coming(c)) /\ SubSeq(flow[c], 1, k) = SubSeq(Coming(c), 1, k)
    BY <1>1, PrefixOfConcat DEF Coming
  <1> QED BY <1>2, <1>4, <1>5

LEMMA FullPrefix ==
  ASSUME NEW s \in Seq(Event)
  PROVE  s \in Prefixes(s) /\ <<>> \in Prefixes(s)
  <1>1. Len(s) \in 0 .. Len(s) /\ SubSeq(s, 1, Len(s)) = s /\ 0 \in 0 .. Len(s) /\ SubSeq(s, 1, 0) = <<>>
    BY LenProperties, SubSeqFull, SubSeqEmpty
  <1> QED BY <1>1 DEF Prefixes

LEMMA NodeQueues ==
  ASSUME IInv, IInv', NEW m \in Nodes, NodeStep(m), NEW n \in Nodes
  PROVE  Ebbs(n)
  <1> USE DEF hubVars, connVars, nodeVars
  <1>0. TypeOK /\ TypeOK'
    BY DEF IInv
  <1>1. CASE UNCHANGED <<stream, flow, cut, chan>>
    BY <1>1, StepOfConnection DEF Coming
  <1>2. CASE Subscribe(m)
    <2>1. PICK c \in Conns : Unused(c) /\ SubscribeAs(m, c)
      BY <1>2 DEF Subscribe
    <2>2. CASE n = m
      <3>1. stream'[n] = c /\ flow'[c] = <<>> /\ chan'[c] = <<>> /\ c # None
        BY <1>0, <2>1, <2>2, NoneAssumption DEF SubscribeAs, TypeOK
      <3>2. Pending(n)' = <<>>
        BY <3>1, EmptySeq, ConcatEmptySeq DEF Pending
      <3> QED BY <1>0, <3>2, StreamNew
    <2>3. CASE n # m
      <3>1. stream'[n] = stream[n] /\ stream[n] # c
        BY <1>0, <2>1, <2>3 DEF SubscribeAs, TypeOK, Unused
      <3>2. \A d \in Conns \ {c} : flow'[d] = flow[d] /\ cut'[d] = cut[d] /\ chan'[d] = chan[d]
        BY <1>0, <2>1 DEF SubscribeAs, TypeOK
      <3> QED BY <3>1, <3>2, StepOfConnection DEF Coming
    <2> QED BY <2>2, <2>3
  <1>3. CASE TakeEvent(m)
    <2>1. PICK c \in Conns : stream[m] = c /\ flow[c] # <<>>
      BY <1>0, <1>3 DEF TakeEvent, TypeOK
    <2>2. /\ \A d \in Conns : flow'[d] = IF d = c THEN Tail(flow[d]) ELSE flow[d]
          /\ UNCHANGED <<stream, cut, chan>>
      BY <1>0, <1>3, <2>1 DEF TakeEvent, TypeOK
    <2>3. /\ flow[c] \in Seq(Event) /\ (IF cut[c] THEN <<>> ELSE chan[c]) \in Seq(Event)
          /\ Head(flow[c]) \in Event
      BY <1>0, <2>1, EmptySeq, HeadTailProperties DEF TypeOK
    <2>4. Coming(c) # <<>> /\ Head(Coming(c)) \in Event /\ Coming(c)' = Tail(Coming(c))
      <3> DEFINE s == flow[c]
                 t == IF cut[c] THEN <<>> ELSE chan[c]
      <3>1. s \in Seq(Event) /\ t \in Seq(Event) /\ Head(s) \in Event /\ s # <<>>
        BY <2>1, <2>3
      <3>2. Coming(c) = s \o t /\ Coming(c)' = Tail(s) \o t
        BY <2>2 DEF Coming
      <3> HIDE DEF s, t
      <3>3. s \o t # <<>> /\ Head(s \o t) = Head(s) /\ Tail(s \o t) = Tail(s) \o t
        BY <3>1, TakeFromConcat
      <3> QED BY <3>1, <3>2, <3>3
    <2>5. \A d \in Conns \ {c} : Coming(d)' = Coming(d)
      BY <2>2 DEF Coming
    <2> QED BY <2>2, <2>4, <2>5, StepOfConnection
  <1>4. CASE NodeStops(m)
    <2>1. CASE n = m
      <3>1. stream'[n] = None
        BY <1>0, <1>4, <2>1 DEF NodeStops, TypeOK
      <3> QED BY <1>0, <3>1, StreamNew DEF Pending
    <2>2. CASE n # m
      <3>1. stream'[n] = stream[n] /\ chan' = chan
        BY <1>0, <1>4, <2>2 DEF NodeStops, TypeOK
      <3>2. ASSUME NEW c \in Conns
            PROVE  Coming(c)' = Coming(c) \/ (flow'[c] = <<>> /\ cut'[c])
        BY <1>4, <3>1 DEF NodeStops, Coming
      <3>3. \A c \in Conns : flow'[c] = <<>> => flow'[c] \in Prefixes(flow[c])
        BY <1>0, FullPrefix DEF TypeOK
      <3> QED BY <1>0, <3>1, <3>2, <3>3, CutLoses, StepOfConnection
    <2> QED BY <2>1, <2>2
  <1>5. CASE StreamCut(m)
    <2>1. PICK c \in Conns : stream[m] = c
      BY <1>0, <1>5 DEF StreamCut, TypeOK
    <2>2. PICK rest \in Prefixes(flow[c]) : flow' = [flow EXCEPT ![c] = rest]
      BY <1>5, <2>1 DEF StreamCut
    <2>3. UNCHANGED <<stream, chan>> /\ cut' = [cut EXCEPT ![c] = TRUE]
      BY <1>5, <2>1 DEF StreamCut
    <2>4. flow'[c] \in Prefixes(flow[c]) /\ cut'[c]
      BY <1>0, <2>2, <2>3 DEF TypeOK
    <2>5. \A d \in Conns \ {c} : Coming(d)' = Coming(d)
      BY <1>0, <2>2, <2>3 DEF TypeOK, Coming
    <2> QED BY <1>0, <2>3, <2>4, <2>5, CutLoses, StepOfConnection
  <1> QED BY <1>1, <1>2, <1>3, <1>4, <1>5 DEF NodeStep, Register, StartFails

LEMMA HandleQueues ==
  ASSUME IInv, IInv', NEW c \in Conns, Handle(c), NEW n \in Nodes
  PROVE  Ebbs(n)
  <1> USE DEF hubVars, connVars, nodeVars
  <1>0. TypeOK /\ Open /\ TypeOK'
    BY DEF IInv
  <1>1. CASE Serve(c)
    <2>1. chan[c] # <<>> /\ UNCHANGED <<stream, cut>> /\ cut[c] \in BOOLEAN
      BY <1>0, <1>1 DEF Serve, TypeOK
    <2>2. /\ \A d \in Conns \ {c} : flow'[d] = flow[d] /\ chan'[d] = chan[d]
          /\ chan'[c] = Tail(chan[c])
          /\ flow'[c] = IF cut[c] THEN flow[c] ELSE Append(flow[c], Head(chan[c]))
      BY <1>0, <1>1 DEF Serve, TypeOK
    <2>3. Append(flow[c], Head(chan[c])) \o Tail(chan[c]) = flow[c] \o chan[c]
      BY <1>0, <2>1, MoveInConcat DEF TypeOK
    <2>4. \A d \in Conns : Coming(d)' = Coming(d)
      BY <2>1, <2>2, <2>3 DEF Coming
    <2> QED BY <2>1, <2>4, StepOfConnection
  <1>2. CASE Unsubscribe(c)
    BY <1>2, StepOfConnection DEF Unsubscribe, Coming
  <1>3. CASE Close(c)
    <2>1. cut[c] /\ UNCHANGED <<stream, cut, flow>>
      BY <1>0, <1>3 DEF Close, Open
    <2>2. \A d \in Conns \ {c} : chan'[d] = chan[d]
      BY <1>0, <1>3 DEF Close, TypeOK
    <2>3. \A d \in Conns : Coming(d)' = Coming(d)
      BY <2>1, <2>2 DEF Coming
    <2> QED BY <2>1, <2>3, StepOfConnection
  <1> QED BY <1>1, <1>2, <1>3 DEF Handle

LEMMA DiesQueues ==
  ASSUME IInv, IInv', Dies, NEW n \in Nodes
  PROVE  Ebbs(n)
  <1>1. stream' = stream /\ \A c \in Conns : cut'[c] /\ flow'[c] \in Prefixes(flow[c])
    BY DEF Dies, nodeVars
  <1> QED BY <1>1, CutLoses, StepOfConnection DEF IInv

LEMMA SendQueues ==
  ASSUME IInv, IInv', NEW p \in pushes, NEW c \in Conns, Send(p, c), NEW n \in Nodes
  PROVE  Ebbs(n) \/ (stream[n] = c /\ ~cut[c] /\ p.event \in Event /\ Gains(n, p.event))
  <1> USE DEF nodeVars
  <1>0. TypeOK /\ Bounded /\ Fresh /\ TypeOK' /\ p.event \in Event /\ p.to \subseteq Conns
        /\ {ServerCap, FlowCap} \subseteq Nat
    BY CapAssumption DEF IInv, TypeOK, Pushes
  <1>1. UNCHANGED <<stream, flow, cut>> /\ c \in p.to
    BY DEF Send
  <1>2. \A d \in Conns \ {c} : chan'[d] = chan[d]
    BY <1>0 DEF Send, TypeOK
  <1>3. \A d \in Conns \ {c} : Coming(d)' = Coming(d)
    BY <1>1, <1>2 DEF Coming
  <1>4. CASE cut[c] \/ chan'[c] = chan[c]
    BY <1>1, <1>3, <1>4, StepOfConnection DEF Coming
  <1>5. CASE ~cut[c] /\ chan'[c] # chan[c]
    <2>1. Len(chan[c]) < ServerCap /\ chan'[c] = Append(chan[c], p.event)
      BY <1>0, <1>5 DEF Send, TypeOK
    <2>2. chan[c] \in Seq(Event) /\ flow[c] \in Seq(Event)
      BY <1>0 DEF TypeOK
    <2>3. Coming(c) = flow[c] \o chan[c] /\ Coming(c)' = flow[c] \o Append(chan[c], p.event)
      BY <1>1, <1>5, <2>1 DEF Coming
    <2> DEFINE s == flow[c]
               t == chan[c]
               e == p.event
    <2>4. s \in Seq(Event) /\ t \in Seq(Event) /\ e \in Event
      BY <1>0, <2>2
    <2>5. Len(s) <= FlowCap /\ Len(t) < ServerCap /\ ~Holds(s, e) /\ ~Holds(t, e)
      BY <1>0, <1>1, <2>1 DEF Bounded, Fresh, Carries
    <2>6. Coming(c) = s \o t /\ Coming(c)' = s \o Append(t, e)
      BY <2>3
    <2> HIDE DEF s, t, e
    <2>7. Len(s) \in Nat /\ Len(t) \in Nat
      BY <2>4, LenProperties
    <2>8. Len(s \o t) < ServerCap + FlowCap
      <3>1. Len(s \o t) = Len(s) + Len(t)
        BY <2>4, ConcatProperties
      <3> QED BY <1>0, <2>5, <2>7, <3>1
    <2>9. s \o Append(t, e) = Append(s \o t, e)
      BY <2>4, AppendToConcat
    <2>10. ~Holds(s \o t, e)
      BY <2>4, <2>5, NotInConcat
    <2>11. /\ Len(Coming(c)) < ServerCap + FlowCap /\ ~Holds(Coming(c), e)
           /\ Coming(c)' = Append(Coming(c), e)
      BY <2>6, <2>8, <2>9, <2>10
    <2>12. CASE stream[n] = c
      <3>1. Pending(n) = Coming(c) /\ Pending(n)' = Coming(c)'
        BY <1>1, <2>12, NoneAssumption DEF Pending, Coming
      <3> QED BY <1>5, <2>4, <2>11, <2>12, <3>1 DEF e, Gains
    <2>13. CASE stream[n] # c
      BY <1>1, <1>3, <2>13, StepOfConnection
    <2> QED BY <2>12, <2>13
  <1> QED BY <1>4, <1>5

LEMMA QueueSteps ==
  ASSUME IInv, IInv', [Next]_vars, NEW n \in Nodes
  PROVE  \/ Ebbs(n)
         \/ \E p \in pushes, c \in Conns :
              /\ Send(p, c) /\ stream[n] = c /\ ~cut[c]
              /\ p.event \in Event /\ Gains(n, p.event)
  <1>1. CASE UNCHANGED <<stream, flow, cut, chan>>
    BY <1>1, StepOfConnection DEF Coming
  <1> QED BY <1>1, NodeQueues, HandleQueues, SendQueues, DiesQueues
          DEF Next, vars, connVars, nodeVars, Broadcast, PushSeed, Deliver, SendPanics, SeedPanics,
              OrchestratorStops, OrchestratorStarts

LEMMA QueueStep ==
  ASSUME IInv, IInv', [Next]_vars, NEW n \in Nodes
  PROVE  Queue(n)!Next
  BY QueueSteps, Moves

(***************************************************************************)
(* No node is handed an event twice.                                       *)
(***************************************************************************)

(* A node's stream was opened by it, unless it has ended, and a push has a *)
(* single connection of each node.                                         *)
Own == \A n \in Nodes, c \in Conns : stream[n] = c /\ ~cut[c] => owner[c] = n
Apart ==
  \A p \in pushes, n \in Nodes :
    \A c, d \in p.to : owner[c] = n /\ owner[d] = n => c = d
OnceInv == Own /\ Apart

LEMMA OnceInit == Init => OnceInv
  BY DEF Init, OnceInv, Own, Apart

LEMMA OwnStep == IInv /\ Own /\ [Next]_vars => Own'
  <1> SUFFICES ASSUME IInv, Own, [Next]_vars
               PROVE  Own'
    OBVIOUS
  <1> USE DEF Own, hubVars, connVars, nodeVars
  <1>0. TypeOK /\ Open
    BY DEF IInv
  <1>1. ASSUME NEW m \in Nodes, NodeStep(m)
        PROVE  Own'
    <2>1. CASE Subscribe(m)
      <3>1. PICK c \in Conns : Unused(c) /\ SubscribeAs(m, c)
        BY <2>1 DEF Subscribe
      <3>2. /\ \A n \in Nodes : stream[n] # c /\ stream'[n] = IF n = m THEN c ELSE stream[n]
            /\ owner'[c] = m
            /\ \A d \in Conns \ {c} : owner'[d] = owner[d] /\ cut'[d] = cut[d]
        BY <1>0, <3>1 DEF SubscribeAs, Unused, TypeOK
      <3> QED BY <3>2
    <2>2. CASE ~Subscribe(m)
      <3>1. owner' = owner /\ \A n \in Nodes : stream'[n] \in {None, stream[n]}
        BY <1>0, <1>1, <2>2 DEF NodeStep, Register, StartFails, TakeEvent, NodeStops, StreamCut, TypeOK
      <3>2. \A c \in Conns : cut[c] => cut'[c]
        BY <1>0, <1>1, <2>2 DEF NodeStep, Register, StartFails, TakeEvent, NodeStops, StreamCut, TypeOK
      <3> QED BY <3>1, <3>2, NoneAssumption
    <2> QED BY <2>1, <2>2
  <1>2. ASSUME NEW c \in Conns, Handle(c)
        PROVE  Own'
    <2>1. UNCHANGED <<stream, cut>>
      BY <1>2 DEF Handle, Serve, Unsubscribe, Close
    <2>2. CASE Close(c)
      <3>1. cut[c] /\ \A d \in Conns \ {c} : owner'[d] = owner[d]
        BY <1>0, <2>2 DEF Close, Open, TypeOK
      <3> QED BY <2>1, <3>1
    <2>3. CASE ~Close(c)
      <3>1. owner' = owner
        BY <1>2, <2>3 DEF Handle, Serve, Unsubscribe
      <3> QED BY <2>1, <3>1
    <2> QED BY <2>2, <2>3
  <1>3. CASE Dies
    BY <1>3 DEF Dies
  <1>4. CASE UNCHANGED <<stream, owner, cut>>
    BY <1>4
  <1> QED BY <1>1, <1>2, <1>3, <1>4
          DEF Next, vars, Broadcast, PushSeed, Deliver, Send, SendPanics, SeedPanics,
              OrchestratorStops, OrchestratorStarts

(* Every push was there before, with at least the same connections, or is  *)
(* of a new event and to connections in subs.                              *)
LEMMA PushesOf ==
  ASSUME IInv, [Next]_vars, NEW q \in pushes'
  PROVE  \/ \E p \in pushes : q.event = p.event /\ q.to \subseteq p.to
         \/ /\ q.event = events + 1 /\ q.to \subseteq Subscribed
            /\ Broadcast \/ \E n \in Nodes : PushSeed(n)
  <1> USE DEF hubVars
  <1>1. CASE pushes' \subseteq pushes
    BY <1>1
  <1>2. CASE Broadcast \/ \E n \in Nodes : PushSeed(n)
    BY <1>2 DEF Broadcast, PushSeed, Subscribed
  <1>3. ASSUME NEW p \in pushes, NEW c \in Conns, Send(p, c)
        PROVE  \E r \in pushes : q.event = r.event /\ q.to \subseteq r.to
    <2>1. q \in pushes \/ q = [p EXCEPT !.to = @ \ {c}]
      BY <1>3 DEF Send, SentTo
    <2>2. [p EXCEPT !.to = @ \ {c}].event = p.event /\ [p EXCEPT !.to = @ \ {c}].to \subseteq p.to
      BY DEF IInv, TypeOK, Pushes
    <2> QED BY <2>1, <2>2
  <1>4. CASE Dies
    BY <1>4 DEF Dies
  <1> QED BY <1>1, <1>2, <1>3, <1>4
          DEF Next, vars, NodeStep, Register, Subscribe, SubscribeAs, StartFails, TakeEvent, NodeStops,
              StreamCut, Handle, Serve, Unsubscribe, Close, Deliver, SendPanics, SeedPanics,
              OrchestratorStops, OrchestratorStarts

(* A connection some push refers to changes hands only by losing its owner. *)
LEMMA OwnersStay ==
  ASSUME IInv, [Next]_vars, NEW p \in pushes, NEW c \in p.to, NEW n \in Nodes, owner'[c] = n, pushes' # {}
  PROVE  owner[c] = n
  <1> USE DEF hubVars, connVars
  <1>0. TypeOK /\ c \in Conns
    BY DEF IInv, TypeOK, Pushes
  <1>1. ASSUME NEW m \in Nodes, Subscribe(m)
        PROVE  owner[c] = n
    <2>1. PICK d \in Conns : Unused(d) /\ SubscribeAs(m, d)
      BY <1>1 DEF Subscribe
    <2>2. c # d
      BY <2>1 DEF Unused
    <2> QED BY <1>0, <2>1, <2>2 DEF SubscribeAs, TypeOK
  <1>2. ASSUME NEW d \in Conns, Close(d)
        PROVE  owner[c] = n
    <2>1. owner'[c] = IF c = d THEN None ELSE owner[c]
      BY <1>0, <1>2 DEF Close, TypeOK
    <2> QED BY <2>1, NoneAssumption
  <1>3. CASE owner' = owner
    BY <1>3
  <1>4. CASE Dies
    BY <1>4 DEF Dies
  <1> QED BY <1>1, <1>2, <1>3, <1>4
          DEF Next, vars, NodeStep, Register, StartFails, TakeEvent, NodeStops, StreamCut, Handle, Serve,
              Unsubscribe, Broadcast, PushSeed, Deliver, Send, SendPanics, SeedPanics,
              OrchestratorStops, OrchestratorStarts

LEMMA ApartStep == IInv /\ Apart /\ [Next]_vars => Apart'
  <1> SUFFICES ASSUME IInv, Apart, [Next]_vars, NEW q \in pushes', NEW n \in Nodes,
                      NEW c \in q.to, NEW d \in q.to, owner'[c] = n, owner'[d] = n
               PROVE  c = d
    BY DEF Apart
  <1>1. ASSUME NEW p \in pushes, q.to \subseteq p.to
        PROVE  c = d
    BY <1>1, OwnersStay DEF Apart
  <1>2. CASE q.to \subseteq Subscribed /\ (Broadcast \/ \E m \in Nodes : PushSeed(m))
    <2>1. owner' = owner
      BY <1>2 DEF Broadcast, PushSeed, connVars
    <2> QED BY <1>2, <2>1 DEF Subscribed, IInv, Open, SubscribedIsOpen
  <1> QED BY <1>1, <1>2, PushesOf

(* What no push will send to a node again stays so. *)
LEMMA SpentStays ==
  ASSUME IInv, [Next]_vars, NEW n \in Nodes
  PROVE  Spent(n) \subseteq Spent(n)'
  <1> SUFFICES ASSUME NEW e \in Spent(n), e \notin Spent(n)'
               PROVE  FALSE
    OBVIOUS
  <1>1. events \in Nat /\ e \in 1 .. events /\ events' \in {events, events + 1}
    BY DEF IInv, TypeOK, Spent, Next, vars, hubVars, NodeStep, Register, Subscribe, SubscribeAs, StartFails,
           TakeEvent, NodeStops, StreamCut, Handle, Serve, Unsubscribe, Close, Broadcast, PushSeed, Deliver,
           Send, SendPanics, SeedPanics, OrchestratorStops, OrchestratorStarts, Dies
  <1>2. PICK q \in pushes', c \in Conns : q.event = e /\ c \in q.to /\ owner'[c] = n
    BY <1>1 DEF Spent
  <1>3. PICK p \in pushes : q.event = p.event /\ q.to \subseteq p.to
    BY <1>1, <1>2, PushesOf
  <1>4. owner[c] = n
    BY <1>2, <1>3, OwnersStay
  <1> QED BY <1>2, <1>3, <1>4 DEF Spent

LEMMA EbbBringsNothing ==
  ASSUME TypeOK, NEW n \in Nodes, Ebbs(n), NEW e, Holds(Pending(n), e)'
  PROVE  Holds(Pending(n), e)
  <1>1. Pending(n) \in Seq(Event)
    BY PendingFacts
  <1> QED BY <1>1, HoldsFacts DEF Ebbs, Holds

(* The step that brings a node an event is the one that spends it. *)
LEMMA GainSpends ==
  ASSUME IInv, IInv', OnceInv, NEW n \in Nodes, NEW p \in pushes, NEW c \in Conns,
         Send(p, c), stream[n] = c, ~cut[c], NEW e \in Event, Gains(n, p.event),
         Holds(Pending(n), e)', ~Holds(Pending(n), e)
  PROVE  e \in Spent(n)' \ Spent(n)
  <1>1. /\ p.event \in Event /\ p.event <= events /\ c \in p.to /\ owner[c] = n
        /\ events' = events /\ owner' = owner /\ events \in Nat
    BY DEF Send, IInv, TypeOK, Pushes, Fresh, OnceInv, Own
  <1>2. e = p.event
    <2>1. Pending(n) \in Seq(Event)
      BY PendingFacts DEF IInv
    <2>2. Holds(Append(Pending(n), p.event), e)
      BY DEF Gains, Holds
    <2> QED BY <1>1, <2>1, <2>2, HoldsFacts
  <1>3. e \notin Spent(n)
    BY <1>1, <1>2 DEF Spent
  <1>4. ASSUME NEW q \in pushes', NEW d \in Conns, q.event = e, d \in q.to, owner'[d] = n
        PROVE  FALSE
    <2>1. q \in pushes \ {p} \/ q = [p EXCEPT !.to = @ \ {c}]
      BY DEF Send, SentTo
    <2>2. CASE q \in pushes \ {p}
      BY <1>2, <1>4, <2>2 DEF IInv, Fresh
    <2>3. CASE q = [p EXCEPT !.to = @ \ {c}]
      <3>1. q.to = p.to \ {c}
        BY <2>3 DEF IInv, TypeOK, Pushes
      <3> QED BY <1>1, <1>4, <3>1 DEF OnceInv, Apart
    <2> QED BY <2>1, <2>2, <2>3
  <1>5. e \in 1 .. events'
    BY <1>1, <1>2 DEF Event
  <1> QED BY <1>3, <1>4, <1>5 DEF Spent

LEMMA OnceStep ==
  ASSUME IInv, IInv', OnceInv, [Next]_vars, NEW n \in Nodes
  PROVE  /\ Spent(n) \subseteq Spent(n)'
         /\ \A e \in Event : Holds(Pending(n), e)' /\ ~Holds(Pending(n), e)
                             => e \in Spent(n)' \ Spent(n)
  <1>1. TypeOK
    BY DEF IInv
  <1> QED BY <1>1, SpentStays, QueueSteps, EbbBringsNothing, GainSpends

(***************************************************************************)
(* The root of every session.                                              *)
(***************************************************************************)
Sealing == \A n \in Nodes : boot[n] = "sealing" => root[n] # Seal!NoRoot
RootInv == Seal!TypeSeal /\ Seal!StableRoot /\ Sealing

LEMMA RootInit == Seal!InitSeal => RootInv
  BY RootsAssumption DEF Seal!InitSeal, RootInv, Sealing, Seal!TypeSeal, Seal!StableRoot, Seal!NoRoot, Seal!Roots,
         Seal!Absent, Seal!Partial

LEMMA RootBoot ==
  ASSUME RootInv, NEW n \in Nodes, Seal!BootStep(n)
  PROVE  RootInv'
  <1> USE RootsAssumption DEF RootInv, Sealing, Seal!TypeSeal, Seal!StableRoot, Seal!NoRoot, Seal!Roots, Seal!Absent,
              Seal!Partial, Seal!Set
  <1>1. CASE Seal!DrawRoot(n)
    <2>1. drawn[n] + 1 \in 1 .. MaxRoots /\ used[n] = 0
      BY <1>1 DEF Seal!DrawRoot
    <2> QED BY <1>1, <2>1 DEF Seal!DrawRoot
  <1>2. CASE Seal!WriteSeal(n)
    <2>1. used[n] = 0
      BY <1>2 DEF Seal!WriteSeal
    <2> QED BY <1>2, <2>1 DEF Seal!WriteSeal
  <1>3. CASE Seal!RootCreated(n)
    <2>1. root[n] \in 1 .. MaxRoots /\ (used[n] # 0 => used[n] = root[n])
      BY <1>3 DEF Seal!RootCreated
    <2>2. used' = [used EXCEPT ![n] = root[n]]
      BY <1>3, <2>1 DEF Seal!RootCreated, Seal!Booted
    <2>3. /\ boot' = [boot EXCEPT ![n] = "booted"] /\ root' = [root EXCEPT ![n] = root[n]]
          /\ UNCHANGED <<seal, drawn>> /\ seal[n] = root[n]
      BY <1>3 DEF Seal!RootCreated, Seal!Booted
    <2>4. Seal!TypeSeal'
      BY <2>1, <2>2, <2>3
    <2>5. Seal!StableRoot' /\ Sealing'
      BY <2>1, <2>2, <2>3
    <2> QED BY <2>4, <2>5
  <1>4. CASE Seal!LoadRoot(n)
    <2>1. seal[n] \in 1 .. MaxRoots /\ (used[n] # 0 => used[n] = seal[n])
      BY <1>4 DEF Seal!LoadRoot
    <2>2. used' = [used EXCEPT ![n] = seal[n]]
      BY <1>4, <2>1 DEF Seal!LoadRoot, Seal!Booted
    <2> QED BY <1>4, <2>1, <2>2 DEF Seal!LoadRoot, Seal!Booted
  <1> QED BY <1>1, <1>2, <1>3, <1>4 DEF Seal!BootStep

LEMMA RootEnds ==
  ASSUME RootInv, NEW n \in Nodes, Seal!ProcessEnds(n)
  PROVE  RootInv'
  BY DEF RootInv, Sealing, Seal!TypeSeal, Seal!StableRoot, Seal!NoRoot, Seal!ProcessEnds, Seal!Set

LEMMA RootStep == RootInv /\ [SessionNext]_sessionVars => RootInv'
  <1> SUFFICES ASSUME RootInv, [SessionNext]_sessionVars
               PROVE  RootInv'
    OBVIOUS
  <1>1. CASE UNCHANGED rootVars
    BY <1>1 DEF rootVars, RootInv, Sealing, Seal!TypeSeal, Seal!StableRoot
  <1> QED BY <1>1, RootBoot, RootEnds
          DEF SessionNext, sessionVars, BootStep, StartStep, RunStep, Exit, HubStep

(***************************************************************************)
(* The theorems.                                                           *)
(***************************************************************************)

(* A session's step is a step of the control channel, or none of it. *)
LEMMA SessionSteps == [SessionNext]_sessionVars => [Next]_vars
  BY DEF SessionNext, sessionVars, BootStep, StartStep, RunStep, Exit, HubStep, Next, NodeStep, vars

LEMMA Invariance == SessionSpec => []IInv
  <1>1. SessionInit => IInv
    BY InitIInv DEF SessionInit
  <1>2. IInv /\ [SessionNext]_sessionVars => IInv'
    BY SessionSteps, NextIInv
  <1> QED BY <1>1, <1>2, PTL DEF SessionSpec

LEMMA OnceInvariance == SessionSpec => []OnceInv
  <1>1. SessionInit => OnceInv
    BY OnceInit DEF SessionInit
  <1>2. IInv /\ OnceInv /\ [SessionNext]_sessionVars => OnceInv'
    BY SessionSteps, OwnStep, ApartStep DEF OnceInv
  <1> QED BY <1>1, <1>2, Invariance, PTL DEF SessionSpec

LEMMA RootInvariance == SessionSpec => []RootInv
  <1>1. SessionInit => RootInv
    BY RootInit DEF SessionInit
  <1>2. RootInv /\ [SessionNext]_sessionVars => RootInv'
    BY RootStep
  <1> QED BY <1>1, <1>2, PTL DEF SessionSpec

(* Types: no push is to a channel that was never opened, no buffer holds   *)
(* what is not an event, and no session runs with a root nobody drew.      *)
THEOREM SessionTypes == SessionSpec => []SessionTypeOK
  <1>1. IInv /\ RootInv => SessionTypeOK
    BY DEF IInv, RootInv, SessionTypeOK
  <1> QED BY <1>1, Invariance, RootInvariance, PTL

(* Whoever looks a channel up in subs under the lock finds one of that     *)
(* node's that is still open, whatever the handlers, the pushers and the   *)
(* nodes do meanwhile (Subscribe, broadcastDelta, pushSeed).               *)
THEOREM OpenChannels == SessionSpec => []SubscribedIsOpen
  <1>1. IInv => SubscribedIsOpen
    BY DEF IInv, Open
  <1> QED BY <1>1, Invariance, PTL

(* Every start of a node's process yields the root its database was first  *)
(* written under (LoadOrCreateRoot, main).                                 *)
THEOREM OneRoot == SessionSpec => []StableRoot
  <1>1. RootInv => StableRoot
    BY DEF RootInv, StableRoot
  <1> QED BY <1>1, RootInvariance, PTL

(* The channels, connections and goroutines between a push and a node's    *)
(* event loop implement a queue that keeps the order in which events were  *)
(* sent, never holds one twice, and may lose any (broadcastDelta,          *)
(* pushSeed, SubscribeEvents).                                             *)
THEOREM StreamIsAQueue == SessionSpec => QueuePerNode
  <1>1. SessionInit => \A n \in Nodes : Queue(n)!Init
    <2> SUFFICES ASSUME SessionInit, NEW n \in Nodes
                 PROVE  Pending(n) = <<>>
      BY DEF Queue!Init
    <2> QED BY DEF SessionInit, Init, Pending
  <1>2. IInv /\ IInv' /\ [SessionNext]_sessionVars => [\A n \in Nodes : Queue(n)!Next]_vars
    BY SessionSteps, QueueStep
  <1> QED BY <1>1, <1>2, Invariance, PTL DEF SessionSpec, QueuePerNode

(* A node handles no event twice, however long ago it was given it, on     *)
(* whichever stream and in whichever process (broadcastDelta, pushSeed).   *)
THEOREM NoneTwice == SessionSpec => HandedOutOnce
  <1>1. IInv /\ IInv' /\ OnceInv /\ [SessionNext]_sessionVars =>
          [\A n \in Nodes :
             /\ Spent(n) \subseteq Spent(n)'
             /\ \A e \in Event :
                  Holds(Pending(n), e)' /\ ~Holds(Pending(n), e)
                    => e \in Spent(n)' \ Spent(n)]_vars
    BY SessionSteps, OnceStep
  <1> QED BY <1>1, Invariance, OnceInvariance, PTL DEF SessionSpec, HandedOutOnce
=============================================================================
