---------------------------- MODULE ChainProofs -----------------------------
(***************************************************************************)
(* The hash chain of a share, for any length of the chain, any number of   *)
(* reacting goroutines and any faults: until two goroutines race in        *)
(* ColdChain.Consume, the anchor the orchestrator trusts walks down the    *)
(* chain link by link, never gets past what the node has revealed, and no  *)
(* goroutine indexes the chain below zero.                                 *)
(***************************************************************************)
EXTENDS CustodyProofs

(* Two goroutines between their check of Next and their decrement. *)
Overlap == \E t, u \in Threads : t # u /\ InConsume(t) /\ InConsume(u)

(* An ack whose link may still become the anchor. *)
Revealing(c) == c.stage \in {"check", "trust"}

(* Where a goroutine has consumed a link and not sent it yet. *)
Carrying == {"get", "put", "delete", "ack"}

(* No announcement finds an anchor to overwrite. *)
Announced ==
  /\ announcing => anchor = Unknown
  /\ accept \in {"offered", "announcing"} => anchor = Unknown
  /\ accept = "offered" => ~provisioned /\ ~announcing
  /\ provisioned => next < ChainLength

(* Links are revealed from the top down and each of them once: those the   *)
(* node still has are below those the goroutines have in hand and those    *)
(* the orchestrator may still trust.                                       *)
Descending ==
  /\ \A c \in calls : Revealing(c) /\ provisioned => next < c.seed
  /\ \A c, d \in calls : Revealing(c) /\ Revealing(d) /\ c.seed = d.seed => c = d
  /\ \A c \in calls : c.stage = "trust" => c.seed = anchor - 1

(* No two goroutines are inside Consume, or hold the same link.            *)
InHand ==
  /\ pc[EventLoop] \notin {"pick", "consume", "index", "decrement"}
  /\ ~Overlap
  /\ \A t \in Reactors :
       /\ pc[t] = "consume" => provisioned
       /\ InConsume(t) => provisioned /\ seed[t] = next /\ next >= 0
       /\ pc[t] \in Carrying => /\ provisioned /\ next < seed[t]
                                /\ \A c \in calls : Revealing(c) => seed[t] # c.seed
  /\ \A t, u \in Reactors :
       t # u /\ pc[t] \in Carrying /\ pc[u] \in Carrying => seed[t] # seed[u]

AnchorAhead == provisioned /\ anchor # Unknown => next < anchor

ChainInv == Announced /\ AnchorAhead /\ Descending /\ InHand

LEMMA Numbers ==
  ASSUME IInv
  PROVE  /\ next \in Int /\ anchor \in Int /\ ChainLength \in Nat
         /\ \A t \in Threads : seed[t] \in Nat
         /\ \A c \in calls : c \in Calls /\ c.seed \in Nat /\ c.by \in Threads
         /\ Unknown \in Int /\ \A t \in Reactors : t # EventLoop /\ t \in Threads
         /\ EventLoop \in Threads
  <1>1. anchor \in Int
    BY BoundsAssumption DEF IInv, TypeInv, TypeOK, Links, Unknown
  <1>2. \A c \in calls : c \in Calls /\ c.seed \in Nat /\ c.by \in Threads
    BY DEF IInv, TypeInv, TypeOK, Calls
  <1>3. \A t \in Reactors : t # EventLoop /\ t \in Threads
    BY ThreadsAssumption DEF Threads
  <1> QED BY <1>1, <1>2, <1>3, BoundsAssumption DEF IInv, TypeInv, TypeOK, Unknown, Threads

LEMMA ChainInit == Init => ChainInv
  <1> SUFFICES ASSUME Init
               PROVE  ChainInv
    OBVIOUS
  <1>1. \A t \in Threads : pc[t] = "idle"
    BY DEF Init
  <1>2. EventLoop \in Threads /\ \A t \in Reactors : t \in Threads
    BY DEF Threads
  <1>3. InHand
    BY <1>1, <1>2 DEF InHand, Carrying, InConsume, Overlap
  <1>4. Announced /\ AnchorAhead /\ Descending
    BY DEF Init, Announced, AnchorAhead, Descending
  <1> QED BY <1>3, <1>4 DEF ChainInv

(* Nothing but where the goroutines are may change. *)
LEMMA ThreadsMove ==
  ASSUME ChainInv, UNCHANGED <<accept, announcing, provisioned, next, calls, anchor>>, InHand'
  PROVE  ChainInv'
  BY DEF ChainInv, Announced, AnchorAhead, Descending

(* A goroutine that returns, or goes on with the link it has, carries no   *)
(* other.                                                                  *)
LEMMA ThreadGoesOn ==
  ASSUME IInv, ChainInv, NEW t \in Threads,
         UNCHANGED <<provisioned, next, calls>>,
         \A s \in Threads \ {t} : pc'[s] = pc[s] /\ seed'[s] = seed[s],
         \/ pc'[t] = IF t = EventLoop THEN "idle" ELSE "pick"
         \/ pc'[t] \in {"idle", "wait"}
         \/ pc[t] \in Carrying /\ pc'[t] \in Carrying /\ seed'[t] = seed[t]
         \/ t = EventLoop /\ pc'[t] = "get"
  PROVE  InHand'
  <1>1. /\ EventLoop \in Threads /\ \A s \in Reactors : s \in Threads /\ s # EventLoop
    BY Numbers
  <1>2. InHand
    BY DEF ChainInv
  <1>3. pc'[EventLoop] \notin {"pick", "consume", "index", "decrement"}
    BY <1>1, <1>2 DEF InHand, Carrying
  <1>4. \A s \in Threads : InConsume(s)' => InConsume(s) /\ s # t
    BY DEF InConsume, Carrying
  <1>5. ~Overlap'
    BY <1>2, <1>4 DEF InHand, Overlap
  <1>6. ASSUME NEW s \in Reactors
        PROVE  /\ pc'[s] = "consume" => provisioned
               /\ InConsume(s)' => provisioned /\ seed'[s] = next /\ next >= 0
               /\ pc'[s] \in Carrying => /\ provisioned /\ next < seed'[s]
                                         /\ \A c \in calls : Revealing(c) => seed'[s] # c.seed
               /\ pc'[s] \in Carrying => pc[s] \in Carrying /\ seed'[s] = seed[s]
    BY <1>1, <1>2, <1>4 DEF InHand, Carrying
  <1> QED BY <1>2, <1>3, <1>5, <1>6 DEF InHand

LEMMA ReturnMoves ==
  ASSUME IInv, NEW t \in Threads, Return(t)
  PROVE  /\ pc'[t] = IF t = EventLoop THEN "idle" ELSE "pick"
         /\ \A s \in Threads \ {t} : pc'[s] = pc[s] /\ seed'[s] = seed[s]
  BY DEF Return, IInv, TypeInv, TypeOK

LEMMA GotoMoves ==
  ASSUME IInv, NEW t \in Threads, NEW label, Goto(t, label)
  PROVE  pc'[t] = label /\ \A s \in Threads \ {t} : pc'[s] = pc[s]
  BY DEF Goto, IInv, TypeInv, TypeOK

(* Goroutines stay where they are or come out of their mutations, and no   *)
(* ack but those under way is there to be trusted.                         *)
LEMMA HandsEmptied ==
  ASSUME IInv, ChainInv, UNCHANGED <<provisioned, next>>,
         \A t \in Threads : \/ pc'[t] = pc[t] /\ seed'[t] = seed[t]
                            \/ pc'[t] = IF t = EventLoop THEN "idle" ELSE "pick",
         \A c \in calls' : Revealing(c) => \E d \in calls : Revealing(d) /\ d.seed = c.seed
  PROVE  InHand'
  <1>1. /\ EventLoop \in Threads /\ \A s \in Reactors : s \in Threads /\ s # EventLoop
    BY Numbers
  <1>2. InHand
    BY DEF ChainInv
  <1>3. pc'[EventLoop] \notin {"pick", "consume", "index", "decrement"}
    BY <1>1, <1>2 DEF InHand
  <1>4. \A s \in Threads : InConsume(s)' => InConsume(s) /\ seed'[s] = seed[s]
    BY DEF InConsume
  <1>5. ~Overlap'
    BY <1>2, <1>4 DEF InHand, Overlap
  <1>6. ASSUME NEW s \in Reactors
        PROVE  /\ pc'[s] = "consume" => provisioned
               /\ InConsume(s)' => provisioned /\ seed'[s] = next /\ next >= 0
               /\ pc'[s] \in Carrying => /\ provisioned /\ next < seed'[s]
                                         /\ \A c \in calls' : Revealing(c) => seed'[s] # c.seed
               /\ pc'[s] \in Carrying => pc[s] \in Carrying /\ seed'[s] = seed[s]
    BY <1>1, <1>2, <1>4 DEF InHand, Carrying
  <1> QED BY <1>2, <1>3, <1>5, <1>6 DEF InHand

LEMMA AcceptChain == IInv /\ ChainInv /\ Accept => ChainInv'
  <1> SUFFICES ASSUME IInv, ChainInv, Accept
               PROVE  ChainInv'
    OBVIOUS
  <1> USE DEF threadVars, orchVars, history
  <1>0. next \in Int /\ anchor \in Int /\ ChainLength \in Nat /\ ChainLength # Unknown
    BY Numbers, BoundsAssumption DEF Unknown
  <1>1. CASE Provision
    <2>1. calls = {} /\ anchor = Unknown /\ ~provisioned
      BY <1>1 DEF Provision, IInv, Untouched, ChainInv, Announced
    <2>2. /\ accept' = "announcing" /\ announcing' = TRUE /\ provisioned' = TRUE
          /\ next' = ChainLength - 1 /\ UNCHANGED <<pc, seed, calls, anchor>>
      BY <1>1 DEF Provision
    <2>3. Announced' /\ AnchorAhead' /\ Descending'
      BY <1>0, <2>1, <2>2 DEF Announced, AnchorAhead, Descending
    <2>4. InHand'
      <3>1. \A t \in Threads : ~InConsume(t)' /\ (t \in Reactors => pc[t] \notin Carrying)
        BY <2>1, <2>2, Numbers DEF InHand, ChainInv, InConsume, Threads
      <3> QED BY <2>1, <2>2, <3>1, Numbers DEF InHand, ChainInv, Overlap
    <2> QED BY <2>3, <2>4 DEF ChainInv
  <1>2. CASE AnnounceRoute
    <2>1. /\ announcing /\ anchor = Unknown
          /\ announcing' = FALSE /\ anchor' = ChainLength
          /\ accept' = IF accept = "announcing" THEN "storing" ELSE accept
          /\ UNCHANGED <<pc, seed, calls, provisioned, next>>
      BY <1>2 DEF AnnounceRoute, ChainInv, Announced
    <2>2. \A c \in calls : c.stage # "trust"
      BY <2>1, Numbers DEF ChainInv, Descending, Unknown
    <2>3. accept # "offered" /\ Announced'
      <3>1. accept # "offered"
        BY <2>1 DEF ChainInv, Announced
      <3> QED BY <2>1, <3>1 DEF ChainInv, Announced
    <2>4. AnchorAhead' /\ Descending'
      BY <2>1, <2>2 DEF ChainInv, Announced, AnchorAhead, Descending
    <2>5. InHand'
      BY <2>1, HandsEmptied
    <2> QED BY <2>3, <2>4, <2>5 DEF ChainInv
  <1>3. CASE AnnounceFails \/ StoreFragment \/ StoreFails
    <2>1. /\ accept \in {"announcing", "storing"} /\ accept' \in {"storing", "held", "refused"}
          /\ announcing' = announcing \/ accept = "announcing"
          /\ UNCHANGED <<pc, seed, calls, anchor, provisioned, next>>
      BY <1>3 DEF AnnounceFails, StoreFragment, StoreFails
    <2>2. InHand'
      BY <2>1, HandsEmptied
    <2> QED BY <2>1, <2>2 DEF ChainInv, Announced, AnchorAhead, Descending
  <1> QED BY <1>1, <1>2, <1>3 DEF Accept

(* One goroutine alone moves, inside or out of Consume. *)
LEMMA ConsumeChain ==
  ASSUME IInv, ChainInv, ~Overlap', NEW t \in Reactors,
         ConsumeCheck(t) \/ ConsumeIndex(t) \/ ConsumeDecrement(t)
  PROVE  ChainInv'
  <1> USE DEF custodyVars, orchVars, history
  <1>0. /\ next \in Int /\ anchor \in Int /\ t \in Threads /\ t # EventLoop
        /\ EventLoop \in Threads /\ \A s \in Reactors : s \in Threads /\ s # EventLoop
        /\ \A s \in Threads : seed[s] \in Int
        /\ \A c \in calls : c.seed \in Int
    BY Numbers
  <1>1. InHand /\ Descending /\ Announced /\ AnchorAhead
    BY DEF ChainInv
  <1>2. CASE ConsumeCheck(t) /\ next < 0
    <2>1. Return(t) /\ UNCHANGED <<custodyVars, orchVars>>
      BY <1>2 DEF ConsumeCheck
    <2>2. InHand'
      BY <1>0, <2>1, ReturnMoves, ThreadGoesOn
    <2> QED BY <2>1, <2>2, ThreadsMove
  <1>3. CASE \/ ConsumeCheck(t) /\ ~(next < 0)
             \/ ConsumeIndex(t)
    <2>1. UNCHANGED <<custodyVars, orchVars>>
      BY <1>3 DEF ConsumeCheck, ConsumeIndex
    <2>2. /\ pc[t] \in {"consume", "index"} /\ pc'[t] \in {"index", "decrement"}
          /\ \A s \in Threads \ {t} : pc'[s] = pc[s]
      BY <1>0, <1>3, GotoMoves DEF ConsumeCheck, Enter, ConsumeIndex
    <2>3. next >= 0 /\ provisioned
      BY <1>0, <1>1, <1>3 DEF ConsumeCheck, ConsumeIndex, InHand, InConsume
    <2>4. seed' = [seed EXCEPT ![t] = next]
      <3>1. CASE ConsumeCheck(t) /\ ~(next < 0)
        BY <3>1 DEF ConsumeCheck
      <3>2. CASE ConsumeIndex(t)
        <4>1. seed[t] = next
          BY <1>1, <3>2 DEF ConsumeIndex, InHand, InConsume
        <4> QED BY <3>2, <4>1 DEF ConsumeIndex
      <3> QED BY <1>3, <3>1, <3>2
    <2>5. seed'[t] = next /\ \A s \in Threads \ {t} : seed'[s] = seed[s]
      BY <1>0, <2>4 DEF IInv, TypeInv, TypeOK
    <2>6. \A s \in Reactors : s = t \/ ~InConsume(s)'
      BY <1>0, <2>2 DEF Overlap, InConsume
    <2>7. InHand'
      BY <1>0, <1>1, <2>1, <2>2, <2>3, <2>5, <2>6 DEF InHand, Carrying, InConsume
    <2> QED BY <2>1, <2>7, ThreadsMove
  <1>4. CASE ConsumeDecrement(t)
    <2>1. /\ pc[t] = "decrement" /\ pc'[t] = "get"
          /\ \A s \in Threads \ {t} : pc'[s] = pc[s]
          /\ next' \in {seed[t] - 1, next - 1}
          /\ UNCHANGED <<accept, announcing, provisioned, calls, anchor, seed>>
      BY <1>0, <1>4, GotoMoves DEF ConsumeDecrement
    <2>2. provisioned /\ seed[t] = next /\ \A s \in Reactors : ~InConsume(s)'
      BY <1>0, <1>1, <2>1 DEF InHand, InConsume, Overlap
    <2>3. next' = next - 1
      BY <2>1, <2>2
    <2>4. \A c \in calls : Revealing(c) => next < c.seed
      BY <1>1, <2>2 DEF Descending
    <2>5. Announced' /\ AnchorAhead'
      BY <1>0, <1>1, <2>1, <2>3, Numbers DEF Announced, AnchorAhead
    <2>6. Descending'
      BY <1>0, <1>1, <2>1, <2>3, <2>4 DEF Descending
    <2>7. ASSUME NEW s \in Reactors, s # t, pc'[s] \in Carrying
          PROVE  pc[s] \in Carrying /\ next < seed[s] /\ seed[s] # seed[t]
      BY <1>0, <1>1, <2>1, <2>2, <2>7 DEF InHand
    <2>8. \A s \in Reactors : pc'[s] = "consume" => provisioned
      BY <1>0, <1>1, <2>1 DEF InHand
    <2>9. \A s \in Reactors : pc'[s] \in Carrying =>
            next' < seed'[s] /\ \A c \in calls' : Revealing(c) => seed'[s] # c.seed
      <3> SUFFICES ASSUME NEW s \in Reactors, pc'[s] \in Carrying
                   PROVE  next' < seed'[s] /\ \A c \in calls' : Revealing(c) => seed'[s] # c.seed
        OBVIOUS
      <3>1. CASE s = t
        BY <1>0, <2>1, <2>2, <2>3, <2>4, <3>1
      <3>2. CASE s # t
        BY <1>0, <1>1, <2>1, <2>3, <2>7, <3>2 DEF InHand
      <3> QED BY <3>1, <3>2
    <2>10. \A s, u \in Reactors :
             s # u /\ pc'[s] \in Carrying /\ pc'[u] \in Carrying => seed'[s] # seed'[u]
      BY <1>1, <2>1, <2>7 DEF InHand
    <2>11. InHand'
      BY <1>0, <1>1, <2>1, <2>2, <2>8, <2>9, <2>10 DEF InHand
    <2> QED BY <2>5, <2>6, <2>11 DEF ChainInv
  <1> QED BY <1>2, <1>3, <1>4

LEMMA ColdChain ==
  ASSUME IInv, ChainInv, ~Overlap', NEW t \in Threads, Cold(t)
  PROVE  ChainInv'
  <1> USE DEF custodyVars, orchVars, history
  <1>0. /\ next \in Int /\ anchor \in Int /\ t # EventLoop /\ t \in Reactors
        /\ EventLoop \in Threads /\ \A s \in Reactors : s \in Threads /\ s # EventLoop
    <2>1. t # EventLoop
      BY DEF Cold, PickPID, ReactionEnds, ConsumeCheck, ConsumeIndex, ConsumeDecrement, ChainInv,
             InHand
    <2> QED BY <2>1, Numbers DEF Threads
  <1>1. ASSUME NEW p \in todo[t], PickPID(t, p)
        PROVE  ChainInv'
    <2>1. /\ pc'[t] \in {"pick", "consume"} /\ (pc'[t] = "consume" => provisioned)
          /\ \A s \in Threads \ {t} : pc'[s] = pc[s]
      BY <1>0, <1>1, GotoMoves DEF PickPID
    <2>2. UNCHANGED <<custodyVars, orchVars, seed>>
      BY <1>1 DEF PickPID
    <2>3. InHand'
      BY <1>0, <2>1, <2>2 DEF ChainInv, InHand, Carrying, InConsume
    <2> QED BY <2>2, <2>3, ThreadsMove
  <1>2. CASE ReactionEnds(t)
    <2>1. UNCHANGED <<custodyVars, orchVars, seed>> /\ pc'[t] = "idle"
          /\ \A s \in Threads \ {t} : pc'[s] = pc[s]
      BY <1>2, GotoMoves DEF ReactionEnds
    <2>2. InHand'
      BY <2>1, ThreadGoesOn
    <2> QED BY <2>1, <2>2, ThreadsMove
  <1> QED BY <1>0, <1>1, <1>2, ConsumeChain DEF Cold

LEMMA SendAckChain ==
  ASSUME IInv, ChainInv, NEW t \in Threads, SendAck(t)
  PROVE  ChainInv'
  <1> DEFINE ack == [by |-> t, old |-> pid[t], new |-> Newer(t), epoch |-> epoch[t] + 1,
                     seed |-> seed[t], verdict |-> "none",
                     stage |-> IF t = EventLoop THEN "route" ELSE "check"]
  <1>1. /\ pc[t] = "ack" /\ pc'[t] = "wait" /\ calls' = calls \cup {ack}
        /\ \A s \in Threads \ {t} : pc'[s] = pc[s]
        /\ UNCHANGED <<accept, announcing, provisioned, next, anchor, seed>>
    BY GotoMoves DEF SendAck, custodyVars
  <1>2. ack.stage # "trust" /\ ack.seed = seed[t] /\ (Revealing(ack) => t \in Reactors)
    BY DEF Revealing, Threads
  <1> HIDE DEF ack
  <1>3. \A c \in calls : c.seed \in Int
    BY Numbers
  <1>4. t \in Reactors => /\ provisioned /\ next < seed[t]
                          /\ \A c \in calls : Revealing(c) => seed[t] # c.seed
    BY <1>1 DEF ChainInv, InHand, Carrying
  <1>5. seed[t] \in Int /\ next \in Int
    BY Numbers
  <1>6. Announced' /\ AnchorAhead'
    BY <1>1 DEF ChainInv, Announced, AnchorAhead
  <1>7. Descending'
    BY <1>1, <1>2, <1>3, <1>4, <1>5 DEF ChainInv, Descending
  <1>8. InHand'
    <2>1. pc'[EventLoop] \notin {"pick", "consume", "index", "decrement"}
      BY <1>1, Numbers DEF ChainInv, InHand
    <2>2. \A s \in Threads : pc'[s] = pc[s] \/ (s = t /\ pc'[s] = "wait")
      BY <1>1
    <2>3. ASSUME NEW s \in Reactors, pc'[s] \in Carrying
          PROVE  pc[s] \in Carrying /\ (Revealing(ack) => seed[s] # ack.seed)
      BY <1>1, <1>2, <2>2, <2>3, Numbers DEF ChainInv, InHand, Carrying
    <2>4. ~Overlap' /\ \A s \in Threads : InConsume(s)' => InConsume(s)
      BY <2>2 DEF ChainInv, InHand, Overlap, InConsume
    <2> QED BY <1>1, <2>1, <2>2, <2>3, <2>4, Numbers DEF ChainInv, InHand
  <1> QED BY <1>6, <1>7, <1>8 DEF ChainInv

LEMMA MutateChain ==
  ASSUME IInv, ChainInv, NEW t \in Threads, Mutate(t)
  PROVE  ChainInv'
  <1> USE DEF custodyVars, orchVars, history
  <1>1. CASE SendAck(t)
    BY <1>1, SendAckChain
  <1>2. CASE Return(t) /\ (GetFragment(t) \/ SQLError(t) \/ AckRefused(t) \/ AckTimeout(t))
    <2>1. UNCHANGED <<accept, announcing, provisioned, next, calls, anchor>>
      BY <1>2 DEF GetFragment, SQLError, AckRefused, AckTimeout
    <2>2. InHand'
      BY <1>2, <2>1, ReturnMoves, ThreadGoesOn
    <2> QED BY <2>1, <2>2, ThreadsMove
  <1>3. CASE ~Return(t) /\ (GetFragment(t) \/ PutFragment(t) \/ DeleteFragment(t))
    <2>1. /\ UNCHANGED <<accept, announcing, provisioned, next, calls, anchor, seed>>
          /\ pc[t] \in Carrying
          /\ Goto(t, "put") \/ Goto(t, "delete") \/ Goto(t, "ack")
      BY <1>3 DEF GetFragment, PutFragment, DeleteFragment, Carrying
    <2>2. pc'[t] \in Carrying /\ \A s \in Threads \ {t} : pc'[s] = pc[s]
      BY <2>1, GotoMoves DEF Carrying
    <2>3. InHand'
      BY <2>1, <2>2, ThreadGoesOn
    <2> QED BY <2>1, <2>3, ThreadsMove
  <1>4. CASE Return(t) /\ (PutFragment(t) \/ DeleteFragment(t))
    <2>1. UNCHANGED <<accept, announcing, provisioned, next, calls, anchor>>
      BY <1>4 DEF PutFragment, DeleteFragment
    <2>2. InHand'
      BY <1>4, <2>1, ReturnMoves, ThreadGoesOn
    <2> QED BY <2>1, <2>2, ThreadsMove
  <1> QED BY <1>1, <1>2, <1>3, <1>4 DEF Mutate, SQLError, AckRefused, AckTimeout

LEMMA EventChain == IInv /\ ChainInv /\ HandleEvent => ChainInv'
  <1> SUFFICES ASSUME IInv, ChainInv, HandleEvent
               PROVE  ChainInv'
    OBVIOUS
  <1>1. /\ UNCHANGED <<accept, announcing, provisioned, next, calls, anchor>>
        /\ EventLoop \in Threads /\ pc'[EventLoop] = "get"
        /\ \A s \in Threads \ {EventLoop} : pc'[s] = pc[s]
        /\ seed' = [seed EXCEPT ![EventLoop] = Head(chan).seed]
    BY GotoMoves, Numbers DEF HandleEvent, custodyVars, orchVars
  <1>2. \A s \in Threads \ {EventLoop} : seed'[s] = seed[s]
    BY <1>1 DEF IInv, TypeInv, TypeOK
  <1>3. InHand'
    BY <1>1, <1>2, ThreadGoesOn
  <1> QED BY <1>1, <1>3, ThreadsMove

LEMMA ReactChain ==
  ASSUME IInv, ChainInv, NEW t \in Threads, React(t)
  PROVE  ChainInv'
  <1>1. /\ UNCHANGED <<accept, announcing, provisioned, next, calls, anchor, seed>>
        /\ pc'[t] = "pick" /\ t # EventLoop /\ \A s \in Threads \ {t} : pc'[s] = pc[s]
    BY GotoMoves, Numbers DEF React, custodyVars, orchVars
  <1>2. InHand'
    BY <1>1, ThreadGoesOn
  <1> QED BY <1>1, <1>2, ThreadsMove

(* What Orchestrator.Ack does to the call it handles: verified against the *)
(* anchor, its link is the one below; trusted, it is the anchor.           *)
LEMMA AckChain ==
  ASSUME IInv, ChainInv, NEW c \in calls, HandleAck(c)
  PROVE  ChainInv'
  <1> USE DEF custodyVars, threadVars, history
  <1>0. /\ c \in Calls /\ c.seed \in Nat /\ next \in Int /\ anchor \in Int
        /\ \A d \in calls : d.seed \in Int
    BY Numbers
  <1>1. ASSUME NEW d, calls' = (calls \ {c}) \cup {d}, d.seed = c.seed, Revealing(c),
               UNCHANGED <<accept, announcing, provisioned, next, pc, seed>>,
               anchor' = anchor \/ (anchor' = c.seed /\ c.stage = "trust" /\ d.stage = "route"),
               d.stage = "trust" => c.seed = anchor - 1 /\ anchor' = anchor
        PROVE  ChainInv'
    <2>1. anchor' # anchor => anchor # Unknown
      <3>1. c.stage = "trust" => c.seed = anchor - 1
        BY DEF ChainInv, Descending
      <3> QED BY <1>0, <1>1, <3>1 DEF Unknown
    <2>2. Announced'
      BY <1>1, <2>1 DEF ChainInv, Announced
    <2>3. AnchorAhead'
      BY <1>0, <1>1 DEF ChainInv, AnchorAhead, Descending
    <2>4. Descending'
      <3>1. \A e \in calls' : Revealing(e) /\ provisioned => next < e.seed
        BY <1>1 DEF ChainInv, Descending
      <3>2. \A e, f \in calls' : Revealing(e) /\ Revealing(f) /\ e.seed = f.seed => e = f
        BY <1>1 DEF ChainInv, Descending
      <3>3. ASSUME NEW e \in calls', e.stage = "trust"
            PROVE  e.seed = anchor' - 1
        <4>1. CASE e \in calls \ {c}
          <5>1. e.seed = anchor - 1 /\ Revealing(e)
            BY <3>3, <4>1 DEF ChainInv, Descending, Revealing
          <5>2. e.seed # c.seed
            BY <1>1, <4>1, <5>1 DEF ChainInv, Descending
          <5>3. c.stage = "trust" => c.seed = anchor - 1
            BY DEF ChainInv, Descending
          <5> QED BY <1>1, <5>1, <5>2, <5>3
        <4>2. CASE e = d
          BY <1>1, <3>3, <4>2
        <4> QED BY <1>1, <4>1, <4>2
      <3> QED BY <1>1, <3>1, <3>2, <3>3 DEF Descending
    <2>5. InHand'
      BY <1>1, HandsEmptied
    <2> QED BY <2>2, <2>3, <2>4, <2>5 DEF ChainInv
  <1>2. CASE AckCheck(c)
    <2> DEFINE verdict == IF anchor = Unknown THEN "unknown"
                          ELSE IF VerifyStep(c.seed, anchor) THEN "ok" ELSE "failed"
               d == [c EXCEPT !.verdict = verdict,
                              !.stage = IF verdict = "ok" THEN "trust" ELSE "route"]
    <2>1. /\ calls' = (calls \ {c}) \cup {d} /\ c.stage = "check" /\ anchor' = anchor
          /\ UNCHANGED <<accept, announcing, provisioned, next, pc, seed>>
      BY <1>2 DEF AckCheck, Moved
    <2>2. d.seed = c.seed /\ (d.stage = "trust" => c.seed = anchor - 1)
      BY <1>0 DEF Calls, VerifyStep
    <2> HIDE DEF d
    <2> QED BY <1>1, <2>1, <2>2 DEF Revealing
  <1>3. CASE AckTrust(c)
    <2> DEFINE d == [c EXCEPT !.stage = "route"]
    <2>1. /\ calls' = (calls \ {c}) \cup {d} /\ c.stage = "trust" /\ anchor' = c.seed
          /\ UNCHANGED <<accept, announcing, provisioned, next, pc, seed>>
      BY <1>3 DEF AckTrust, Moved
    <2>2. d.seed = c.seed /\ d.stage = "route"
      BY <1>0 DEF Calls
    <2> HIDE DEF d
    <2> QED BY <1>1, <2>1, <2>2 DEF Revealing
  <1>4. CASE AckRoute(c)
    <2>1. /\ calls' \subseteq calls
          /\ UNCHANGED <<accept, announcing, provisioned, next, anchor>>
          /\ Return(c.by) \/ UNCHANGED <<pc, seed>>
      BY <1>4 DEF AckRoute
    <2>2. InHand'
      <3>1. CASE UNCHANGED <<pc, seed>>
        BY <2>1, <3>1, HandsEmptied
      <3>2. CASE Return(c.by)
        BY <2>1, <3>2, ReturnMoves, HandsEmptied, Numbers
      <3> QED BY <2>1, <3>1, <3>2
    <2> QED BY <2>1, <2>2 DEF ChainInv, Announced, AnchorAhead, Descending
  <1> QED BY <1>2, <1>3, <1>4 DEF HandleAck

LEMMA RestartChain == IInv /\ ChainInv /\ (NodeRestart \/ OrchestratorRestart) => ChainInv'
  <1> SUFFICES ASSUME IInv, ChainInv, NodeRestart \/ OrchestratorRestart
               PROVE  ChainInv'
    OBVIOUS
  <1> USE DEF orchVars
  <1>0. EventLoop \in Threads /\ \A t \in Reactors : t \in Threads /\ t # EventLoop
    BY Numbers
  <1>1. CASE NodeRestart
    <2>1. /\ accept' = IF accept \in {"announcing", "storing"} THEN "refused" ELSE accept
          /\ provisioned' = FALSE /\ \A t \in Threads : pc'[t] = "idle"
          /\ UNCHANGED <<announcing, calls, anchor>>
      BY <1>1 DEF NodeRestart, ProcessEnds
    <2>2. InHand'
      BY <1>0, <2>1 DEF InHand, Carrying, Overlap, InConsume
    <2> QED BY <2>1, <2>2 DEF ChainInv, Announced, AnchorAhead, Descending
  <1>2. CASE OrchestratorRestart
    <2>1. /\ calls' = {} /\ anchor' = Unknown /\ announcing' = FALSE
          /\ accept' = IF accept = "announcing" THEN "storing" ELSE accept
          /\ UNCHANGED <<provisioned, next>>
      BY <1>2 DEF OrchestratorRestart
    <2>2. \A t \in Threads :
            \/ pc[t] # "wait" /\ pc'[t] = pc[t] /\ seed'[t] = seed[t]
            \/ pc'[t] = IF t = EventLoop THEN "idle" ELSE "pick"
      BY <1>2 DEF OrchestratorRestart
    <2>3. InHand'
      BY <2>1, <2>2, HandsEmptied
    <2> QED BY <2>1, <2>3 DEF ChainInv, Announced, AnchorAhead, Descending
  <1> QED BY <1>1, <1>2

(* Nothing indexes the chain below zero.                                   *)
LEMMA NoPanic ==
  ASSUME IInv, ChainInv, NEW t \in Threads
  PROVE  ~ConsumePanics(t)
  BY Numbers DEF ConsumePanics, ChainInv, InHand, InConsume, Threads

LEMMA ChainStep == IInv /\ ChainInv /\ [Next]_vars /\ ~Overlap' => ChainInv'
  <1> SUFFICES ASSUME IInv, ChainInv, [Next]_vars, ~Overlap'
               PROVE  ChainInv'
    OBVIOUS
  <1>1. CASE UNCHANGED <<custodyVars, pc, seed, orchVars>>
    <2>1. InHand'
      BY <1>1 DEF ChainInv, InHand, InConsume, Overlap, custodyVars, orchVars
    <2> QED BY <1>1, <2>1, ThreadsMove DEF custodyVars, orchVars
  <1>2. CASE EventsLost \/ \E p \in DOMAIN routes : PushSeed(p)
    BY <1>1, <1>2 DEF EventsLost, PushSeed
  <1> QED BY <1>1, <1>2, AcceptChain, ReactChain, ColdChain, MutateChain, EventChain, AckChain,
             RestartChain, NoPanic DEF Next, vars, threadVars

(* The inductive invariant.                                                *)
UntilRaced == IInv /\ (raced \/ ChainInv)

(* Only the check of Next takes a goroutine into Consume, and what it      *)
(* finds there is recorded.                                                *)
LEMMA NoneEnters ==
  ASSUME IInv, [Next]_vars, \A t \in Threads : ~ConsumeCheck(t)
  PROVE  raced' = raced /\ \A s \in Threads : InConsume(s)' => InConsume(s)
  <1> USE Numbers DEF InConsume, IInv, TypeInv, TypeOK, history
  <1>1. CASE Accept \/ EventsLost \/ (\E p \in DOMAIN routes : PushSeed(p)) \/ UNCHANGED vars
    BY <1>1 DEF Accept, Provision, AnnounceRoute, AnnounceFails, StoreFragment, StoreFails,
                EventsLost, PushSeed, threadVars, vars
  <1>2. CASE \E t \in Threads : React(t) \/ Cold(t)
    BY <1>2 DEF React, Cold, PickPID, ReactionEnds, ConsumeIndex, ConsumeDecrement, Goto
  <1>3. CASE NodeRestart \/ OrchestratorRestart \/ \E t \in Threads : ConsumePanics(t)
    BY <1>3 DEF NodeRestart, OrchestratorRestart, ConsumePanics, ProcessEnds
  <1>4. CASE HandleEvent \/ \E t \in Threads : Mutate(t)
    BY <1>4 DEF HandleEvent, Mutate, GetFragment, PutFragment, DeleteFragment, SQLError, SendAck,
                AckRefused, AckTimeout, Goto, Return
  <1>5. CASE \E c \in calls : HandleAck(c)
    BY <1>5 DEF HandleAck, AckCheck, AckTrust, AckRoute, Return, threadVars
  <1> QED BY <1>1, <1>2, <1>3, <1>4, <1>5 DEF Next

LEMMA RacesSeen ==
  ASSUME IInv, [Next]_vars, ~raced', ~raced => ~Overlap
  PROVE  ~raced /\ ~Overlap'
  <1>1. CASE \E t \in Threads : ConsumeCheck(t)
    <2>1. PICK t \in Threads : ConsumeCheck(t)
      BY <1>1
    <2>2. ~raced
      BY <2>1 DEF ConsumeCheck, Enter
    <2>3. \A s \in Threads : s # t => pc'[s] = pc[s]
      BY <2>1 DEF ConsumeCheck, Enter, Goto, Return, IInv, TypeInv, TypeOK
    <2>4. CASE next < 0
      <3>1. ~InConsume(t)'
        BY <2>1, <2>4 DEF ConsumeCheck, Return, InConsume, IInv, TypeInv, TypeOK
      <3> QED BY <2>2, <2>3, <3>1 DEF Overlap, InConsume
    <2>5. CASE ~(next < 0)
      <3>1. \A s \in Threads \ {t} : ~InConsume(s)
        BY <2>1, <2>5 DEF ConsumeCheck, Enter
      <3> QED BY <2>2, <2>3, <3>1 DEF Overlap, InConsume
    <2> QED BY <2>4, <2>5
  <1>2. CASE \A t \in Threads : ~ConsumeCheck(t)
    BY <1>2, NoneEnters DEF Overlap
  <1> QED BY <1>1, <1>2

LEMMA UntilRacedStep == UntilRaced /\ [Next]_vars => UntilRaced'
  <1> SUFFICES ASSUME UntilRaced, [Next]_vars
               PROVE  UntilRaced'
    OBVIOUS
  <1>1. IInv'
    BY InductiveStep DEF UntilRaced
  <1>2. ASSUME ~raced'
        PROVE  ChainInv'
    <2>1. ~raced => ~Overlap
      BY DEF UntilRaced, ChainInv, InHand
    <2>2. ~raced /\ ~Overlap'
      BY <1>2, <2>1, RacesSeen DEF UntilRaced
    <2> QED BY <2>2, ChainStep DEF UntilRaced
  <1> QED BY <1>1, <1>2 DEF UntilRaced

LEMMA UntilRacedInvariance == Spec => []UntilRaced
  <1>1. Init => UntilRaced
    BY IInvInit, ChainInit DEF UntilRaced
  <1> QED BY <1>1, UntilRacedStep, PTL DEF Spec

(***************************************************************************)
(* The theorems.                                                           *)
(***************************************************************************)

(* The orchestrator trusts no link the node has not revealed yet, however  *)
(* many goroutines react and whatever acks are lost, late or verified      *)
(* while others are, unless two raced in Consume (ColdMutate, Ack).        *)
THEOREM AnchorStaysAhead == Spec => []AnchorAheadOfChain
  <1>1. UntilRaced => AnchorAheadOfChain
    BY DEF UntilRaced, ChainInv, AnchorAhead, AnchorAheadOfChain
  <1> QED BY <1>1, UntilRacedInvariance, PTL

(* The anchor moves by one link or is reset, although Ack verifies a link  *)
(* and trusts it in different critical sections and handles the acks of    *)
(* any number of goroutines at once, unless two of them raced in Consume.  *)
THEOREM AnchorWalks == Spec => AnchorWalksChain
  <1> DEFINE Walk == anchor' \in {anchor, anchor - 1, ChainLength, Unknown}
  <1>1. UntilRaced /\ [Next]_vars => [raced' \/ Walk]_vars
    <2> SUFFICES ASSUME UntilRaced, Next, ~raced'
                 PROVE  Walk
      OBVIOUS
    <2>0. ChainInv
      BY RacesSeen DEF UntilRaced, ChainInv, InHand
    <2>1. CASE \E c \in calls : AckTrust(c)
      BY <2>0, <2>1 DEF AckTrust, ChainInv, Descending
    <2>2. CASE AnnounceRoute \/ OrchestratorRestart
      BY <2>2 DEF AnnounceRoute, OrchestratorRestart
    <2>3. CASE UNCHANGED anchor
      BY <2>3
    <2> QED BY <2>0, <2>1, <2>2, <2>3
            DEF Next, Accept, Provision, AnnounceFails, StoreFragment, StoreFails, React, Cold,
                PickPID, ReactionEnds, ConsumeCheck, ConsumeIndex, ConsumeDecrement,
                ConsumePanics, ProcessEnds, Mutate, GetFragment, PutFragment, DeleteFragment,
                SQLError, SendAck, AckRefused, AckTimeout, HandleEvent, PushSeed, EventsLost,
                HandleAck, AckCheck, AckRoute, NodeRestart, orchVars
  <1> QED BY <1>1, UntilRacedInvariance, PTL DEF Spec, AnchorWalksChain

(* Only goroutines that raced in Consume can index the exhausted chain and *)
(* so end the node's process.                                              *)
THEOREM RacesAlonePanic == Spec => OnlyRacesPanic
  <1> DEFINE Ends == provisioned /\ ~provisioned' /\ faults' = faults
  <1>1. UntilRaced /\ [Next]_vars => [Ends => raced]_vars
    <2> SUFFICES ASSUME UntilRaced, Next, Ends, ~raced
                 PROVE  FALSE
      OBVIOUS
    <2>0. IInv /\ ChainInv
      BY DEF UntilRaced
    <2>1. CASE \E t \in Threads : ConsumePanics(t)
      BY <2>0, <2>1, NoPanic
    <2>2. CASE NodeRestart
      BY <2>0, <2>2 DEF NodeRestart, Fault, IInv, TypeInv, TypeOK
    <2>3. CASE provisioned' \in {TRUE, provisioned}
      BY <2>3
    <2> QED BY <2>0, <2>1, <2>2, <2>3
            DEF Next, Accept, Provision, AnnounceRoute, AnnounceFails, StoreFragment, StoreFails,
                React, Cold, PickPID, ReactionEnds, ConsumeCheck, ConsumeIndex, ConsumeDecrement,
                Mutate, GetFragment, PutFragment, DeleteFragment, SQLError, SendAck, AckRefused,
                AckTimeout, HandleEvent, PushSeed, EventsLost, HandleAck, AckCheck, AckTrust,
                AckRoute, OrchestratorRestart, custodyVars
  <1> QED BY <1>1, UntilRacedInvariance, PTL DEF Spec, OnlyRacesPanic
=============================================================================
