------------------------------ MODULE RootSeal ------------------------------
(***************************************************************************)
(* The root secret of each node and the file it is sealed in: crypto's     *)
(* LoadOrCreateRoot as the client program calls it on every start.         *)
(*                                                                         *)
(* A file's salt and ciphertext stand for the root they seal: the binding  *)
(* comes from the node's name and never changes, so that unsealing a       *)
(* complete file yields its root.  Roots are numbered as they are drawn.   *)
(***************************************************************************)
EXTENDS Integers

CONSTANTS
  Nodes,     \* the node daemons, each with a data directory of its own
  MaxRoots   \* bound: roots a node draws

VARIABLES
  boot,   \* how far LoadOrCreateRoot is in a node's process
  seal,   \* root.seal: Absent, Partial, or the root in it
  root,   \* the root of the running process, NoRoot if it has none yet
  drawn,  \* number of roots drawn
  used    \* the root that the node's database is written under

sealVars == <<boot, seal, root, drawn, used>>

NoRoot == 0
Roots == 1 .. MaxRoots
Absent == -1
Partial == -2

InitSeal ==
  /\ boot  = [n \in Nodes |-> "off"]
  /\ seal  = [n \in Nodes |-> Absent]
  /\ root  = [n \in Nodes |-> NoRoot]
  /\ drawn = [n \in Nodes |-> 0]
  /\ used  = [n \in Nodes |-> NoRoot]

Set(f, n, value) == f' = [f EXCEPT ![n] = value]

(* From here on the process opens its database and writes to it. *)
Booted(n, r) ==
  /\ Set(boot, n, "booted") /\ Set(root, n, r)
  /\ Set(used, n, IF used[n] = NoRoot THEN r ELSE used[n])

(* Mutant: the root is used before its file is written. *)
DrawRootAndUse(n) ==
  /\ boot[n] = "off" /\ seal[n] = Absent /\ drawn[n] < MaxRoots
  /\ Set(drawn, n, drawn[n] + 1)
  /\ Booted(n, drawn[n] + 1)
  /\ UNCHANGED seal

(* No file: a root is drawn and sealed, and os.WriteFile creates the file. *)
DrawRoot(n) ==
  /\ boot[n] = "off" /\ seal[n] = Absent /\ drawn[n] < MaxRoots
  /\ Set(drawn, n, drawn[n] + 1) /\ Set(root, n, drawn[n] + 1)
  /\ Set(boot, n, "sealing") /\ Set(seal, n, Partial)
  /\ UNCHANGED used

(* os.WriteFile has written all of it ... *)
WriteSeal(n) ==
  /\ boot[n] = "sealing" /\ seal[n] = Partial
  /\ Set(seal, n, root[n])
  /\ UNCHANGED <<boot, root, drawn, used>>

(* ... and the root is returned. *)
RootCreated(n) ==
  /\ boot[n] = "sealing" /\ seal[n] = root[n]
  /\ Booted(n, root[n])
  /\ UNCHANGED <<seal, drawn>>

(* The file is complete and unsealed.  A partial one does not parse: the   *)
(* program ends, at this start and at every later one.                     *)
LoadRoot(n) ==
  /\ boot[n] = "off" /\ seal[n] \in Roots
  /\ Booted(n, seal[n])
  /\ UNCHANGED <<seal, drawn>>

(* The process ends, perhaps in the middle of os.WriteFile. *)
ProcessEnds(n) ==
  /\ boot[n] # "off"
  /\ Set(boot, n, "off") /\ Set(root, n, NoRoot)
  /\ UNCHANGED <<seal, drawn, used>>

BootStep(n) == DrawRoot(n) \/ WriteSeal(n) \/ RootCreated(n) \/ LoadRoot(n)

NextSeal == \E n \in Nodes : BootStep(n) \/ ProcessEnds(n)
SpecSeal == InitSeal /\ [][NextSeal]_sealVars
-----------------------------------------------------------------------------
TypeSeal ==
  /\ boot \in [Nodes -> {"off", "sealing", "booted"}]
  /\ seal \in [Nodes -> {Absent, Partial} \cup Roots]
  /\ root \in [Nodes -> Roots \cup {NoRoot}]
  /\ used \in [Nodes -> Roots \cup {NoRoot}]
  /\ drawn \in [Nodes -> 0 .. MaxRoots]

(* What a node wrote under one root it never has to read under another,    *)
(* wherever its process ended before: every start yields the root that     *)
(* its database was first written under (LoadOrCreateRoot).                *)
StableRoot ==
  \A n \in Nodes :
    /\ boot[n] = "booted" => root[n] = used[n]
    /\ used[n] # NoRoot => seal[n] = used[n]
=============================================================================
