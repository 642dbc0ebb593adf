---------------------------- MODULE NodeSession -----------------------------
(***************************************************************************)
(* The life of a node's process as the client program runs it              *)
(* (cmd/client/main.go): it loads or creates its root (RootSeal), then     *)
(* registers and subscribes (EventStream), and when it ends for whatever   *)
(* reason both parts end with it.                                          *)
(***************************************************************************)
EXTENDS EventStream

CONSTANT MaxRoots  \* bound: roots a node draws

ASSUME RootsAssumption == MaxRoots \in Nat

VARIABLES boot, seal, root, drawn, used

Seal == INSTANCE RootSeal

rootVars == <<boot, seal, root, drawn, used>>
sessionVars == <<vars, rootVars>>

SessionInit == Init /\ Seal!InitSeal

(* LoadOrCreateRoot comes before anything else. *)
BootStep(n) == Seal!BootStep(n) /\ UNCHANGED vars

(* node.Start, once the root is there. *)
StartStep(n) ==
  /\ boot[n] = "booted"
  /\ Register(n) \/ Subscribe(n)
  /\ UNCHANGED rootVars

RunStep(n) == (TakeEvent(n) \/ StreamCut(n)) /\ UNCHANGED rootVars

(* log.Fatalf, quit, or a crash. *)
Exit(n) ==
  /\ Seal!ProcessEnds(n)
  /\ IF node[n] = "off" THEN UNCHANGED vars ELSE NodeStops(n) \/ StartFails(n)

HubStep ==
  /\ \/ \E c \in Conns : Handle(c)
     \/ Broadcast
     \/ \E n \in Nodes : PushSeed(n)
     \/ \E p \in pushes : Deliver(p)
     \/ OrchestratorStops
     \/ OrchestratorStarts
  /\ UNCHANGED rootVars

SessionNext ==
  \/ \E n \in Nodes : BootStep(n) \/ StartStep(n) \/ RunStep(n) \/ Exit(n)
  \/ HubStep

SessionSpec == SessionInit /\ [][SessionNext]_sessionVars
FairSession == SessionSpec /\ Fairness

-----------------------------------------------------------------------------
(* Type correctness of both parts. *)
SessionTypeOK == TypeOK /\ Seal!TypeSeal

(* Whatever a session stored, the next one can read: every start yields    *)
(* the root that the node's database was first written under, wherever the *)
(* process ended before (LoadOrCreateRoot, main).                          *)
StableRoot == Seal!StableRoot
=============================================================================
