------------------------------ MODULE Watchdog ------------------------------
(***************************************************************************)
(* The watchdog of a node: Run, tick, SimulateAttack and react             *)
(* (client/watchdog.go), and the rate limit on its alerts, Alert           *)
(* (orchestrator/orchestrator.go).                                         *)
(*                                                                         *)
(* The polling goroutine decides under Watchdog.mu and reacts later, under *)
(* it again; the command line reacts without asking.  Time is counted in   *)
(* seconds.  What a reaction does to the shares is Custody's, the forced   *)
(* re-sharing it ends with is SecretSharing's.                             *)
(***************************************************************************)
EXTENDS Naturals

CONSTANT Fragments   \* the most fragments the node holds at a time

ASSUME WatchdogAssumption == Fragments \in Nat

(* The two goroutines that react. *)
Loop == "loop"
REPL == "repl"
Goroutines == {Loop, REPL}

(* The constants of the code. *)
Signals == {"remoteSession", "debuggerAttached", "reparented"}
weightRemoteSession    == 15
weightDebuggerAttached == 60
weightReparented       == 10
scoreSuspect  == 20
scoreConfirm  == 55
confirmStreak == 2
Interval    == 2
AlertWindow == 3
Severities == {"suspect", "confirmed"}
Cooldown(severity) == IF severity = "confirmed" THEN 20 ELSE 10

VARIABLES
  phase,      \* seconds since the ticker fired
  ticked,     \* is there a tick in the ticker's channel?
  lastScore, streak,  \* Watchdog.lastScore and confirmedTicks
  cooldown,   \* seconds until Watchdog.cooldownUntil
  at,         \* where each goroutine is
  severity,   \* the severity of its reaction
  todo,       \* fragments its reaction has still to mutate
  limit,      \* seconds until the orchestrator accepts an alert again
  high,       \* history: consecutive ticks of at least scoreConfirm, up to two
  quiet,      \* history: seconds since the last reaction began
  last,       \* history: severity of that reaction
  raced,      \* history: did the command line react since the last tick?
  heard,      \* history: was an alert of the reaction accepted?
  limitBy,    \* history: whose alert was accepted last
  late        \* history: when less of the cooldown was left than the limit lasts?

clock == <<phase, ticked>>
guarded == <<lastScore, streak, cooldown>>
reacting == <<at, severity, todo>>
history == <<high, quiet, last, raced, heard, limitBy, late>>
vars == <<clock, guarded, reacting, limit, history>>

Longest == Cooldown("confirmed")

Init ==
  /\ phase = 0 /\ ticked = FALSE
  /\ lastScore = 0 /\ streak = 0 /\ cooldown = 0
  /\ at = [g \in Goroutines |-> "idle"]
  /\ severity = [g \in Goroutines |-> "suspect"]
  /\ todo = [g \in Goroutines |-> 0]
  /\ limit = 0
  /\ high = 0 /\ quiet = Longest /\ last = "none" /\ raced = FALSE
  /\ heard = [g \in Goroutines |-> FALSE] /\ limitBy = "none" /\ late = FALSE

Down(n) == IF n = 0 THEN 0 ELSE n - 1
Up(n, most) == IF n = most THEN n ELSE n + 1
Reacting(g) == at[g] \in {"mutate", "alert"}

(* A second passes; a tick that finds the last one not taken is dropped.   *)
(* The goroutine takes a tick, and gets from one critical section to the   *)
(* next, in no time worth counting; a reaction takes any time: it waits    *)
(* for answers, up to ten seconds for each of its exchanges.               *)
Second ==
  /\ at[Loop] # "decided" /\ ~(at[Loop] = "idle" /\ ticked)
  /\ phase' = (phase + 1) % Interval
  /\ ticked' = (ticked \/ phase' = 0)
  /\ cooldown' = Down(cooldown) /\ limit' = Down(limit)
  /\ quiet' = Up(quiet, Longest)
  /\ UNCHANGED <<lastScore, streak, at, severity, todo, high, last, raced,
                 heard, limitBy, late>>

Score(observed) ==
  (IF "remoteSession" \in observed THEN weightRemoteSession ELSE 0)
  + (IF "debuggerAttached" \in observed THEN weightDebuggerAttached ELSE 0)
  + (IF "reparented" \in observed THEN weightReparented ELSE 0)

(* What both forms of a tick observe and note. *)
Observe(score) ==
  /\ ticked /\ at[Loop] = "idle"
  /\ ticked' = FALSE /\ lastScore' = score
  /\ high' = IF score >= scoreConfirm THEN Up(high, confirmStreak) ELSE 0
  /\ raced' = FALSE
  /\ UNCHANGED <<phase, cooldown, todo, limit, quiet, last, heard, limitBy, late>>

(* Decide by the streak the tick has come to. *)
Decide(score, count, inCooldown) ==
  /\ streak' = count
  /\ IF inCooldown \/ score < scoreSuspect THEN UNCHANGED <<at, severity>>
     ELSE /\ at' = [at EXCEPT ![Loop] = "decided"]
          /\ severity' = [severity EXCEPT ![Loop] =
               IF count >= confirmStreak THEN "confirmed" ELSE "suspect"]

Counted(score) == IF score >= scoreConfirm THEN streak + 1 ELSE 0

(* Mutants of tick: it returns before counting during a cooldown; a low    *)
(* score does not end the streak then; one tick is enough.                 *)
TickNotCounting(observed) ==
  LET score == Score(observed)
  IN Observe(score)
     /\ Decide(score, IF cooldown > 0 THEN streak ELSE Counted(score), cooldown > 0)
TickKeepingStreak(observed) ==
  LET score == Score(observed)
  IN Observe(score)
     /\ Decide(score, IF score >= scoreConfirm THEN streak + 1
                      ELSE IF cooldown > 0 THEN streak ELSE 0, cooldown > 0)
TickConfirmingAtOnce(observed) ==
  LET score == Score(observed)
      count == IF score >= scoreConfirm THEN streak + confirmStreak ELSE 0
  IN Observe(score) /\ Decide(score, count, cooldown > 0)

(* tick: the score counts towards the streak during a cooldown as well. *)
Tick(observed) ==
  LET score == Score(observed)
  IN Observe(score) /\ Decide(score, Counted(score), cooldown > 0)

(* The first part of react, under the lock. *)
Begin(g, s, length) ==
  /\ cooldown' = length /\ streak' = 0
  /\ at' = [at EXCEPT ![g] = "mutate"]
  /\ severity' = [severity EXCEPT ![g] = s]
  /\ \E n \in 0 .. Fragments : todo' = [todo EXCEPT ![g] = n]
  /\ quiet' = 0 /\ last' = s
  /\ heard' = [heard EXCEPT ![g] = FALSE]
  /\ UNCHANGED <<clock, lastScore, limit, high, limitBy, late>>

(* Mutant: only a confirmed reaction starts a cooldown. *)
ReactUncooled ==
  /\ at[Loop] = "decided"
  /\ Begin(Loop, severity[Loop],
           IF severity[Loop] = "confirmed" THEN Cooldown("confirmed") ELSE cooldown)
  /\ UNCHANGED raced

(* Mutant: the cooldown is added to what is left of the last one. *)
ReactExtending ==
  /\ at[Loop] = "decided"
  /\ Begin(Loop, severity[Loop], cooldown + Cooldown(severity[Loop]))
  /\ UNCHANGED raced

(* The polling loop reacts as it decided, whatever has happened since. *)
React ==
  /\ at[Loop] = "decided"
  /\ Begin(Loop, severity[Loop], Cooldown(severity[Loop]))
  /\ UNCHANGED raced

(* The operator's simulate-attack asks for no cooldown. *)
SimulateAttack ==
  /\ at[REPL] = "idle"
  /\ Begin(REPL, "confirmed", Cooldown("confirmed"))
  /\ raced' = TRUE

(* A fragment is mutated with the next link of its chain, or the mutation  *)
(* fails and no alert is sent for it.                                      *)
ColdMutate(g) ==
  /\ at[g] = "mutate" /\ todo[g] > 0
  /\ todo' = [todo EXCEPT ![g] = @ - 1]
  /\ \/ at' = [at EXCEPT ![g] = IF severity[g] = "confirmed" THEN "alert" ELSE @]
     \/ UNCHANGED at
  /\ UNCHANGED <<clock, guarded, severity, limit, history>>

(* Mutant: a refused alert starts the three seconds anew as well. *)
AlertRefreshing(g) ==
  /\ at[g] = "alert" /\ at' = [at EXCEPT ![g] = "mutate"]
  /\ limit' = AlertWindow
  /\ IF limit = 0
     THEN /\ limitBy' = g /\ late' = (cooldown < AlertWindow)
          /\ heard' = [heard EXCEPT ![g] = TRUE]
     ELSE UNCHANGED <<limitBy, late, heard>>
  /\ UNCHANGED <<clock, guarded, severity, todo, high, quiet, last, raced>>

(* Orchestrator.Alert; the node ignores the answer and errors alike. *)
Alert(g) ==
  /\ at[g] = "alert" /\ at' = [at EXCEPT ![g] = "mutate"]
  /\ IF limit = 0
     THEN /\ limit' = AlertWindow /\ limitBy' = g /\ late' = (cooldown < AlertWindow)
          /\ heard' = [heard EXCEPT ![g] = TRUE]
     ELSE UNCHANGED <<limit, limitBy, late, heard>>
  /\ UNCHANGED <<clock, guarded, severity, todo, high, quiet, last, raced>>
AlertLost(g) ==
  /\ at[g] = "alert" /\ at' = [at EXCEPT ![g] = "mutate"]
  /\ UNCHANGED <<clock, guarded, severity, todo, limit, history>>

(* Nothing is left to mutate; a confirmed reaction starts                  *)
(* ForceReshareOwned in a goroutine of its own.                            *)
ReactionEnds(g) ==
  /\ at[g] = "mutate" /\ todo[g] = 0
  /\ at' = [at EXCEPT ![g] = "idle"]
  /\ UNCHANGED <<clock, guarded, severity, todo, limit, history>>

Continue(g) == ColdMutate(g) \/ Alert(g) \/ AlertLost(g) \/ ReactionEnds(g)
LoopStep == (\E observed \in SUBSET Signals : Tick(observed)) \/ React \/ Continue(Loop)

Next == Second \/ LoopStep \/ SimulateAttack \/ Continue(REPL)

Spec == Init /\ [][Next]_vars

(* Time passes and the polling goroutine runs. *)
FairSpec == Spec /\ WF_vars(Second) /\ WF_vars(LoopStep)
-----------------------------------------------------------------------------
(***************************************************************************)
(* Properties.                                                             *)
(***************************************************************************)

(* Type correctness of the model's state. *)
TypeOK ==
  /\ phase \in 0 .. Interval - 1 /\ {ticked, raced, late} \subseteq BOOLEAN
  /\ {lastScore, streak} \subseteq Nat
  /\ cooldown \in 0 .. Longest /\ quiet \in 0 .. Longest
  /\ at \in [Goroutines -> {"idle", "decided", "mutate", "alert"}]
  /\ severity \in [Goroutines -> Severities]
  /\ todo \in [Goroutines -> 0 .. Fragments]
  /\ limit \in 0 .. AlertWindow /\ high \in 0 .. confirmStreak
  /\ last \in Severities \cup {"none"} /\ limitBy \in Goroutines \cup {"none"}
  /\ heard \in [Goroutines -> BOOLEAN]

(* The loop decides to react only after the cooldown of the last reaction, *)
(* whoever's it was; only a command that came between its decision and its *)
(* reaction brings the two closer together (tick, react).                  *)
ReactionsAreSpaced ==
  at[Loop] = "decided" =>
    raced \/ last = "none" \/ quiet >= Cooldown(last)

(* One high tick never confirms: between any two confirmations, and        *)
(* whatever reacted in between, two ticks in a row were high.              *)
ConfirmedIsDebounced ==
  at[Loop] = "decided" /\ severity[Loop] = "confirmed" => high = confirmStreak

(* The loop never begins with the full reaction: an earlier reaction,      *)
(* silent unless the operator asked for it, always comes first, because    *)
(* the first high tick outside a cooldown reacts as suspect and starts one.*)
SuspectComesFirst ==
  at[Loop] = "decided" /\ severity[Loop] = "confirmed" => last # "none"

(* The orchestrator's rate limit, of three seconds, never swallows the     *)
(* first alert of a confirmed reaction of the loop, however long reactions *)
(* last, but for an alert of the operator's, or for one that an earlier    *)
(* reaction sent when less than those three seconds were left of the       *)
(* cooldown it had started (Alert, react).                                 *)
IncidentsAreHeard ==
  at[Loop] = "alert" /\ ~heard[Loop] /\ limit > 0 => limitBy = REPL \/ late

High == lastScore >= scoreConfirm
Confirming == at[Loop] = "decided" /\ severity[Loop] = "confirmed"

(* Signals that stay high are confirmed again and again, provided that     *)
(* from some time on no reaction of the loop outlasts the cooldown it      *)
(* began with, which leaves the loop the tick that waits in the channel    *)
(* and one more: the streak that every reaction resets grows again.        *)
PersistentSignalsConfirm ==
  <>[]High /\ <>[](Reacting(Loop) => cooldown > 0) =>
    []<>(Confirming \/ Reacting(REPL))
=============================================================================
