--------------------------- MODULE WatchdogProofs ---------------------------
(***************************************************************************)
(* What the watchdog guarantees for any number of fragments, any signals   *)
(* and any operator, however long its reactions take.                      *)
(***************************************************************************)
EXTENDS Watchdog, TLAPS

(* Type correctness, with where an alert can come from. *)
TypeInv == TypeOK /\ \A g \in Goroutines : at[g] = "alert" => severity[g] = "confirmed"

(* The cooldown that is left and the time since the last reaction make up  *)
(* the cooldown that reaction started.                                     *)
Cooling ==
  /\ last # "none" => quiet + cooldown >= Cooldown(last)
  /\ cooldown > 0 => last # "none"

(* The streak never counts more than the ticks that were high. *)
Counting == (streak >= 1 => high >= 1) /\ (streak >= 2 => high = 2)

(* A streak begins with a reaction: the one just decided, or an earlier.   *)
Warned == streak >= 1 => last # "none" \/ at[Loop] = "decided"

Decisions == ReactionsAreSpaced /\ ConfirmedIsDebounced /\ SuspectComesFirst

IInv == TypeInv /\ Cooling /\ Counting /\ Warned /\ Decisions

USE DEF Goroutines, Loop, REPL

LEMMA CooldownType ==
  /\ \A s : Cooldown(s) \in {10, 20}
  /\ Longest = 20
  BY DEF Cooldown, Longest

LEMMA ScoreType == \A observed : Score(observed) \in Nat
  BY DEF Score, weightRemoteSession, weightDebuggerAttached, weightReparented

LEMMA InitIInv == Init => IInv
  <1> SUFFICES ASSUME Init
               PROVE  IInv
    OBVIOUS
  <1>1. TypeInv
    <2>1. /\ phase \in 0 .. Interval - 1 /\ {lastScore, streak} \subseteq Nat
          /\ cooldown \in 0 .. Longest /\ quiet \in 0 .. Longest
          /\ limit \in 0 .. AlertWindow /\ high \in 0 .. confirmStreak
      BY CooldownType DEF Init, Interval, AlertWindow, confirmStreak
    <2>2. {ticked, raced, late} \subseteq BOOLEAN
      BY DEF Init
    <2>3. /\ at \in [Goroutines -> {"idle", "decided", "mutate", "alert"}]
          /\ severity \in [Goroutines -> Severities]
          /\ \A g \in Goroutines : at[g] # "alert"
      BY DEF Init, Severities
    <2>4. todo \in [Goroutines -> 0 .. Fragments]
      BY WatchdogAssumption DEF Init
    <2>5. heard \in [Goroutines -> BOOLEAN]
      BY DEF Init
    <2>6. last \in Severities \cup {"none"} /\ limitBy \in Goroutines \cup {"none"}
      BY DEF Init
    <2> QED BY <2>1, <2>2, <2>3, <2>4, <2>5, <2>6 DEF TypeInv, TypeOK
  <1>2. Cooling /\ Counting /\ Warned /\ Decisions
    BY CooldownType DEF Init, Cooling, Counting, Warned, Decisions, ReactionsAreSpaced,
       ConfirmedIsDebounced, SuspectComesFirst
  <1> QED BY <1>1, <1>2 DEF IInv

LEMMA SecondStep == IInv /\ Second => IInv'
  <1> SUFFICES ASSUME IInv, Second
               PROVE  IInv'
    OBVIOUS
  <1>1. /\ cooldown' = Down(cooldown) /\ limit' = Down(limit) /\ quiet' = Up(quiet, Longest)
        /\ UNCHANGED <<lastScore, streak, at, severity, todo, high, last, raced, heard, limitBy, late>>
        /\ at[Loop] # "decided"
    BY DEF Second
  <1>2. TypeInv'
    <2>1. phase' \in 0 .. Interval - 1 /\ ticked' \in BOOLEAN
      BY DEF Second, IInv, TypeInv, TypeOK, Interval
    <2>2. cooldown' \in 0 .. Longest /\ quiet' \in 0 .. Longest /\ limit' \in 0 .. AlertWindow
      BY <1>1, CooldownType DEF IInv, TypeInv, TypeOK, Down, Up, AlertWindow
    <2> QED BY <1>1, <2>1, <2>2 DEF IInv, TypeInv, TypeOK
  <1>3. Cooling'
    BY <1>1, CooldownType DEF IInv, TypeInv, TypeOK, Cooling, Down, Up
  <1>4. Counting' /\ Warned' /\ Decisions'
    BY <1>1 DEF IInv, Counting, Warned, Decisions, ReactionsAreSpaced,
       ConfirmedIsDebounced, SuspectComesFirst
  <1> QED BY <1>2, <1>3, <1>4 DEF IInv

LEMMA TickStep ==
  ASSUME NEW observed \in SUBSET Signals, IInv, Tick(observed)
  PROVE  IInv'
  <1> DEFINE score == Score(observed)
             count == Counted(score)
  <1>1. Observe(score) /\ Decide(score, count, cooldown > 0)
    BY DEF Tick
  <1>2. /\ at[Loop] = "idle" /\ lastScore' = score /\ raced' = FALSE /\ ticked' = FALSE
        /\ UNCHANGED <<phase, cooldown, todo, limit, quiet, last, heard, limitBy, late>>
        /\ high' = IF score >= scoreConfirm THEN Up(high, confirmStreak) ELSE 0
        /\ streak' = count
    BY <1>1 DEF Observe, Decide
  <1>3. score \in Nat /\ count \in Nat /\ count = IF score >= 55 THEN streak + 1 ELSE 0
    BY ScoreType DEF IInv, TypeInv, TypeOK, Counted, scoreConfirm
  <1> HIDE DEF score, count
  <1>4. \/ cooldown > 0 /\ UNCHANGED <<at, severity>>
        \/ score < 20 /\ UNCHANGED <<at, severity>>
        \/ /\ cooldown = 0 /\ score >= 20
           /\ at' = [at EXCEPT ![Loop] = "decided"]
           /\ severity' = [severity EXCEPT ![Loop] =
                             IF count >= 2 THEN "confirmed" ELSE "suspect"]
    BY <1>1, <1>3 DEF Decide, scoreSuspect, confirmStreak, IInv, TypeInv, TypeOK
  <1>5. TypeInv'
    <2>1. high' \in 0 .. confirmStreak
      BY <1>2 DEF IInv, TypeInv, TypeOK, Up, confirmStreak
    <2>2. /\ at' \in [Goroutines -> {"idle", "decided", "mutate", "alert"}]
          /\ severity' \in [Goroutines -> Severities]
          /\ \A g \in Goroutines : at'[g] = "alert" => severity'[g] = "confirmed"
      BY <1>2, <1>4 DEF IInv, TypeInv, TypeOK, Severities
    <2> QED BY <1>2, <1>3, <2>1, <2>2 DEF IInv, TypeInv, TypeOK
  <1>6. Cooling'
    BY <1>2 DEF IInv, Cooling
  <1>7. Counting'
    BY <1>2, <1>3 DEF IInv, TypeInv, TypeOK, Counting, Up, scoreConfirm, confirmStreak
  <1>8. at'[Loop] = "decided" => cooldown = 0
    BY <1>2, <1>4 DEF IInv, TypeInv, TypeOK
  <1>9. count >= 2 => last # "none"
    BY <1>2, <1>3 DEF IInv, TypeInv, TypeOK, Warned
  <1>10. Warned'
    BY <1>2, <1>3, <1>4 DEF IInv, TypeInv, TypeOK, Warned, Cooling
  <1>11. ReactionsAreSpaced'
    BY <1>2, <1>8, CooldownType DEF IInv, TypeInv, TypeOK, Cooling, ReactionsAreSpaced
  <1>12. at'[Loop] = "decided" /\ severity'[Loop] = "confirmed" => count >= 2
    BY <1>2, <1>4 DEF IInv, TypeInv, TypeOK
  <1>13. ConfirmedIsDebounced' /\ SuspectComesFirst'
    BY <1>2, <1>3, <1>7, <1>9, <1>12 DEF Counting, ConfirmedIsDebounced, SuspectComesFirst, confirmStreak
  <1> QED BY <1>5, <1>6, <1>7, <1>10, <1>11, <1>13 DEF IInv, Decisions

(* A reaction that begins, the loop's or the operator's. *)
LEMMA BeginStep ==
  ASSUME NEW g \in Goroutines, NEW s \in Severities, IInv, Begin(g, s, Cooldown(s)),
         raced' \in BOOLEAN, g = REPL => raced' = TRUE /\ at[g] = "idle",
         g = Loop => raced' = raced
  PROVE  IInv'
  <1>1. /\ cooldown' = Cooldown(s) /\ streak' = 0 /\ quiet' = 0 /\ last' = s
        /\ at' = [at EXCEPT ![g] = "mutate"]
        /\ severity' = [severity EXCEPT ![g] = s]
        /\ UNCHANGED <<clock, lastScore, limit, high, limitBy, late>>
    BY DEF Begin
  <1>2. TypeInv'
    <2>1. todo' \in [Goroutines -> 0 .. Fragments] /\ heard' \in [Goroutines -> BOOLEAN]
      BY DEF Begin, IInv, TypeInv, TypeOK
    <2>2. cooldown' \in 0 .. Longest /\ quiet' \in 0 .. Longest /\ last' \in Severities
      BY <1>1, CooldownType
    <2>3. /\ at' \in [Goroutines -> {"idle", "decided", "mutate", "alert"}]
          /\ severity' \in [Goroutines -> Severities]
          /\ \A h \in Goroutines : at'[h] = "alert" => severity'[h] = "confirmed"
      BY <1>1 DEF IInv, TypeInv, TypeOK
    <2> QED BY <1>1, <2>1, <2>2, <2>3 DEF IInv, TypeInv, TypeOK, clock
  <1>3. Cooling' /\ Counting' /\ Warned'
    BY <1>1, CooldownType DEF Cooling, Counting, Warned, Severities
  <1>4. Decisions'
    <2>1. g = Loop => at'[Loop] = "mutate"
      BY <1>1 DEF IInv, TypeInv, TypeOK
    <2>2. g = REPL => at'[Loop] = at[Loop] /\ severity'[Loop] = severity[Loop]
      BY <1>1 DEF IInv, TypeInv, TypeOK
    <2> QED BY <1>1, <2>1, <2>2 DEF IInv, Decisions, ReactionsAreSpaced,
               ConfirmedIsDebounced, SuspectComesFirst, Severities
  <1> QED BY <1>2, <1>3, <1>4 DEF IInv

LEMMA ContinueStep ==
  ASSUME NEW g \in Goroutines, IInv, Continue(g)
  PROVE  IInv'
  <1>1. /\ at[g] \in {"mutate", "alert"}
        /\ \/ at' = at
           \/ at' = [at EXCEPT ![g] = "alert"] /\ severity[g] = "confirmed"
           \/ at' = [at EXCEPT ![g] = "mutate"]
           \/ at' = [at EXCEPT ![g] = "idle"]
        /\ UNCHANGED <<clock, guarded, severity, high, quiet, last, raced>>
    BY DEF Continue, ColdMutate, Alert, AlertLost, ReactionEnds, history, IInv, TypeInv, TypeOK
  <1>2. TypeInv'
    <2>1. todo' \in [Goroutines -> 0 .. Fragments]
      BY WatchdogAssumption DEF Continue, ColdMutate, Alert, AlertLost, ReactionEnds, IInv, TypeInv, TypeOK
    <2>2. /\ limit' \in 0 .. AlertWindow /\ limitBy' \in Goroutines \cup {"none"}
          /\ heard' \in [Goroutines -> BOOLEAN] /\ late' \in BOOLEAN
      <3>1. CASE Alert(g)
        <4>1. CASE limit = 0
          <5>1. limit' = AlertWindow /\ limitBy' = g /\ heard' = [heard EXCEPT ![g] = TRUE]
                /\ late' \in BOOLEAN
            BY <3>1, <4>1 DEF Alert
          <5>2. limit' \in 0 .. AlertWindow /\ limitBy' \in Goroutines
            BY <5>1 DEF AlertWindow
          <5>3. heard \in [Goroutines -> BOOLEAN]
            BY DEF IInv, TypeInv, TypeOK
          <5>4. heard' \in [Goroutines -> BOOLEAN]
            BY <5>1, <5>3
          <5> QED BY <5>1, <5>2, <5>4
        <4>2. CASE limit # 0
          <5>1. UNCHANGED <<limit, limitBy, late, heard>>
            BY <3>1, <4>2 DEF Alert
          <5> QED BY <5>1 DEF IInv, TypeInv, TypeOK
        <4> QED BY <4>1, <4>2
      <3>2. CASE UNCHANGED <<limit, history>>
        BY <3>2 DEF history, IInv, TypeInv, TypeOK
      <3> QED BY <3>1, <3>2 DEF Continue, ColdMutate, AlertLost, ReactionEnds
    <2>3. /\ at' \in [Goroutines -> {"idle", "decided", "mutate", "alert"}]
          /\ \A h \in Goroutines : at'[h] = "alert" => severity[h] = "confirmed"
      BY <1>1 DEF IInv, TypeInv, TypeOK
    <2> QED BY <1>1, <2>1, <2>2, <2>3 DEF IInv, TypeInv, TypeOK, clock, guarded
  <1>3. at'[Loop] = "decided" <=> at[Loop] = "decided"
    BY <1>1 DEF IInv, TypeInv, TypeOK
  <1>4. Cooling' /\ Counting' /\ Warned' /\ Decisions'
    BY <1>1, <1>3 DEF IInv, Cooling, Counting, Warned, Decisions, ReactionsAreSpaced,
       ConfirmedIsDebounced, SuspectComesFirst, guarded
  <1> QED BY <1>2, <1>4 DEF IInv

LEMMA NextIInv == IInv /\ [Next]_vars => IInv'
  <1> SUFFICES ASSUME IInv, [Next]_vars
               PROVE  IInv'
    OBVIOUS
  <1>1. CASE Second
    BY <1>1, SecondStep
  <1>2. CASE \E observed \in SUBSET Signals : Tick(observed)
    BY <1>2, TickStep
  <1>3. CASE React
    <2>1. severity[Loop] \in Severities /\ raced \in BOOLEAN /\ raced' = raced
      BY <1>3 DEF React, IInv, TypeInv, TypeOK
    <2> QED BY <1>3, <2>1, BeginStep DEF React
  <1>4. CASE SimulateAttack
    BY <1>4, BeginStep DEF SimulateAttack, Severities
  <1>5. CASE \E g \in Goroutines : Continue(g)
    BY <1>5, ContinueStep
  <1>6. CASE UNCHANGED vars
    BY <1>6 DEF vars, clock, guarded, reacting, history, IInv, TypeInv, TypeOK, Cooling,
       Counting, Warned, Decisions, ReactionsAreSpaced, ConfirmedIsDebounced, SuspectComesFirst
  <1> QED BY <1>1, <1>2, <1>3, <1>4, <1>5, <1>6 DEF Next, LoopStep

LEMMA Invariance == Spec => []IInv
  BY InitIInv, NextIInv, PTL DEF Spec

(***************************************************************************)
(* The rate limit.                                                         *)
(***************************************************************************)

(* While an alert of the loop's holds off others, and was not late, the    *)
(* reaction that sent it has been heard, and no other begins before the    *)
(* limit is over, because the cooldown lasts as long at least.             *)
Alerting ==
  /\ limit > 0 => limitBy # "none"
  /\ limitBy = Loop /\ limit > 0 /\ ~late =>
       /\ at[Loop] # "decided"
       /\ Reacting(Loop) => heard[Loop]
       /\ cooldown >= limit

LEMMA InitAlerting == Init => Alerting
  BY DEF Init, Alerting, Reacting

LEMMA NaturalTimes ==
  IInv => cooldown \in Nat /\ limit \in 0 .. 3
  BY CooldownType DEF IInv, TypeInv, TypeOK, AlertWindow

LEMMA SecondAlerting == IInv /\ Alerting /\ Second => Alerting'
  <1> SUFFICES ASSUME IInv, Alerting, Second
               PROVE  Alerting'
    OBVIOUS
  <1>1. /\ cooldown' = Down(cooldown) /\ limit' = Down(limit)
        /\ UNCHANGED <<at, heard, limitBy, late>>
    BY DEF Second
  <1> QED BY <1>1, NaturalTimes DEF Alerting, Reacting, Down

LEMMA TickAlerting ==
  ASSUME NEW observed \in SUBSET Signals, IInv, Alerting, Tick(observed)
  PROVE  Alerting'
  <1>1. /\ at[Loop] = "idle"
        /\ UNCHANGED <<cooldown, limit, heard, limitBy, late>>
    BY DEF Tick, Observe
  <1>2. at'[Loop] \in {"idle", "decided"} /\ (at'[Loop] = "decided" => ~(cooldown > 0))
    BY <1>1 DEF Tick, Decide, IInv, TypeInv, TypeOK
  <1> QED BY <1>1, <1>2, NaturalTimes DEF Alerting, Reacting

LEMMA BeginAlerting ==
  ASSUME NEW g \in Goroutines, NEW s \in Severities, IInv, Alerting,
         Begin(g, s, Cooldown(s)), g = Loop => at[g] = "decided"
  PROVE  Alerting'
  <1>1. /\ cooldown' = Cooldown(s) /\ UNCHANGED <<limit, limitBy, late>>
        /\ at' = [at EXCEPT ![g] = "mutate"]
        /\ heard' = [heard EXCEPT ![g] = FALSE]
    BY DEF Begin
  <1>2. cooldown' >= limit'
    BY <1>1, NaturalTimes, CooldownType
  <1>3. CASE g = Loop
    BY <1>1, <1>3 DEF Alerting
  <1>4. CASE g = REPL
    <2>1. at'[Loop] = at[Loop] /\ heard'[Loop] = heard[Loop]
      BY <1>1, <1>4 DEF IInv, TypeInv, TypeOK
    <2> QED BY <1>1, <1>2, <2>1 DEF Alerting, Reacting
  <1> QED BY <1>3, <1>4

LEMMA AlertAlerting ==
  ASSUME NEW g \in Goroutines, IInv, Alerting, Alert(g)
  PROVE  Alerting'
  <1>1. /\ at[g] = "alert" /\ at' = [at EXCEPT ![g] = "mutate"]
        /\ UNCHANGED cooldown
    BY DEF Alert, guarded
  <1>2. CASE limit = 0
    <2>1. /\ limit' = 3 /\ limitBy' = g /\ late' = (cooldown < 3)
          /\ heard' = [heard EXCEPT ![g] = TRUE]
      BY <1>2 DEF Alert, AlertWindow
    <2>2. CASE g = Loop
      <3>1. heard'[Loop] = TRUE /\ at'[Loop] = "mutate"
        BY <1>1, <2>1, <2>2 DEF IInv, TypeInv, TypeOK
      <3>2. late' \/ ~(cooldown < 3)
        BY <2>1, Zenon
      <3>3. ~late' => cooldown' >= limit'
        BY <1>1, <2>1, <3>2, NaturalTimes
      <3> QED BY <2>1, <2>2, <3>1, <3>3 DEF Alerting
    <2>3. CASE g = REPL
      BY <2>1, <2>3 DEF Alerting
    <2> QED BY <2>2, <2>3
  <1>3. CASE limit # 0
    <2>1. UNCHANGED <<limit, limitBy, late, heard>>
      BY <1>3 DEF Alert
    <2>2. (at'[Loop] = "decided" <=> at[Loop] = "decided")
          /\ (at'[Loop] \in {"mutate", "alert"} <=> Reacting(Loop))
      BY <1>1 DEF Reacting, IInv, TypeInv, TypeOK
    <2> QED BY <1>1, <2>1, <2>2 DEF Alerting, Reacting
  <1> QED BY <1>2, <1>3

LEMMA OtherAlerting ==
  ASSUME NEW g \in Goroutines, IInv, Alerting,
         ColdMutate(g) \/ AlertLost(g) \/ ReactionEnds(g)
  PROVE  Alerting'
  <1>1. /\ UNCHANGED <<limit, limitBy, late, heard, cooldown>>
        /\ at[g] \in {"mutate", "alert"}
        /\ \/ at' = at
           \/ \E label \in {"idle", "mutate", "alert"} : at' = [at EXCEPT ![g] = label]
    BY DEF ColdMutate, AlertLost, ReactionEnds, guarded, history
  <1>2. /\ at'[Loop] = "decided" <=> at[Loop] = "decided"
        /\ at'[Loop] \in {"mutate", "alert"} => at[Loop] \in {"mutate", "alert"}
    BY <1>1 DEF IInv, TypeInv, TypeOK
  <1> QED BY <1>1, <1>2 DEF Alerting, Reacting

LEMMA NextAlerting == IInv /\ Alerting /\ [Next]_vars => Alerting'
  <1> SUFFICES ASSUME IInv, Alerting, [Next]_vars
               PROVE  Alerting'
    OBVIOUS
  <1>1. CASE Second
    BY <1>1, SecondAlerting
  <1>2. CASE \E observed \in SUBSET Signals : Tick(observed)
    BY <1>2, TickAlerting
  <1>3. CASE React
    <2>1. severity[Loop] \in Severities
      BY DEF IInv, TypeInv, TypeOK
    <2> QED BY <1>3, <2>1, BeginAlerting DEF React
  <1>4. CASE SimulateAttack
    BY <1>4, BeginAlerting DEF SimulateAttack, Severities
  <1>5. CASE \E g \in Goroutines : Continue(g)
    BY <1>5, AlertAlerting, OtherAlerting DEF Continue
  <1>6. CASE UNCHANGED vars
    BY <1>6 DEF vars, clock, guarded, reacting, history, Alerting, Reacting
  <1> QED BY <1>1, <1>2, <1>3, <1>4, <1>5, <1>6 DEF Next, LoopStep

(* Type correctness of every reachable state. *)
THEOREM WatchdogTypes == Spec => []TypeOK
  <1>1. IInv => TypeOK
    BY DEF IInv, TypeInv
  <1> QED BY <1>1, Invariance, PTL

(* The loop keeps the cooldowns its reactions start, and those of the      *)
(* operator, unless a command overtakes its decision.                      *)
THEOREM Spacing == Spec => []ReactionsAreSpaced
  <1>1. IInv => ReactionsAreSpaced
    BY DEF IInv, Decisions
  <1> QED BY <1>1, Invariance, PTL

(* No confirmation without two high ticks in a row, whoever reset the      *)
(* streak in between.                                                      *)
THEOREM Debounce == Spec => []ConfirmedIsDebounced
  <1>1. IInv => ConfirmedIsDebounced
    BY DEF IInv, Decisions
  <1> QED BY <1>1, Invariance, PTL

(* The loop's first reaction of all is never the confirmed one. *)
THEOREM Warning == Spec => []SuspectComesFirst
  <1>1. IInv => SuspectComesFirst
    BY DEF IInv, Decisions
  <1> QED BY <1>1, Invariance, PTL

(* The rate limit refuses the first alert of a reaction of the loop's only *)
(* on account of the operator, or of an alert the loop sent at the end of  *)
(* its cooldown.                                                           *)
THEOREM Hearing == Spec => []IncidentsAreHeard
  <1>1. IInv /\ Alerting => IncidentsAreHeard
    BY DEF IInv, TypeInv, TypeOK, Alerting, Reacting, IncidentsAreHeard
  <1> QED BY <1>1, NextAlerting, InitAlerting, Invariance, PTL DEF Spec
=============================================================================
