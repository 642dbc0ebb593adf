--------------------------- MODULE SiblingGossip ----------------------------
(***************************************************************************)
(* How the holders of one group's shares learn of each other's new         *)
(* pseudo-IDs: notifySiblings (client/node.go), the mutation-notice        *)
(* handler (client/peerserver.go), UpdateSibling and UpdateManifestMember  *)
(* (store/store.go).                                                       *)
(*                                                                         *)
(* Every row of the fragments table carries the whole list of members, and *)
(* so does the owner's manifest.  A mutation copies the list it read to    *)
(* the row it writes; a notice is folded in by reading the lists and       *)
(* writing them back, one UPDATE per row.  The order of these statements   *)
(* at one holder is up to the goroutines that run them.                    *)
(*                                                                         *)
(* A holder's pseudo-IDs are numbered in the order it takes them, 0 being  *)
(* the one it was dealt; a list says, for every member, which of them it   *)
(* knows.  One goroutine at a time mutates a holder's share (Custody has   *)
(* the case of several).                                                   *)
(***************************************************************************)
EXTENDS Naturals, FiniteSets

CONSTANTS
  Holders,       \* the members of the group
  Owner,         \* the holder that split the secret and keeps the manifest
  Mutators,      \* the holders whose shares are mutated
  Faults,        \* which faults may happen: "lost", "timeout", "crash"
  MaxMutations,  \* bound: mutations begun
  MaxFaults      \* bound: faults

ASSUME GossipAssumption ==
  /\ Owner \in Holders /\ Mutators \subseteq Holders
  /\ Faults \subseteq {"lost", "timeout", "crash"}
  /\ {MaxMutations, MaxFaults} \subseteq Nat

VARIABLES
  rows,       \* each holder's rows of the group: pid -> list of members
  manifest,   \* the list in the owner's manifest, once there is one
  latest,     \* the last pseudo-ID each holder took
  pc,         \* where each holder's mutation is
  old, snap,  \* the pid it mutates, and the list it read with it
  tell,       \* the members it has still to notify
  notices,    \* notices under way or being handled
  disturbed,  \* history: the holders that missed or mixed up a notice
  mutations, faults   \* counters for the bounds

tables == <<rows, manifest, latest>>
mutator == <<pc, old, snap, tell>>
counters == <<mutations, faults>>
vars == <<tables, mutator, notices, disturbed, counters>>

Lists == [Holders -> Nat]
Tables == UNION {[pids -> Lists] : pids \in SUBSET Nat}
Dealt == [h \in Holders |-> 0]
NoRows == [v \in {} |-> Dealt]
NoManifest == <<>>

(* A notice, the stage of its handling, and what the handler computed from *)
(* the rows and from the manifest it read.                                 *)
Notice == [to : Holders, from : Holders, oldPID : Nat, newPID : Nat,
           stage : {"sent", "rows", "save"}, awaited : BOOLEAN,
           updates : Tables, list : Lists]

Init ==
  /\ rows = [h \in Holders |-> NoRows]
  /\ manifest = NoManifest
  /\ latest = Dealt
  /\ pc = [h \in Holders |-> "idle"]
  /\ old = Dealt /\ snap = [h \in Holders |-> Dealt]
  /\ tell = [h \in Holders |-> {}]
  /\ notices = {} /\ disturbed = {}
  /\ mutations = 0 /\ faults = 0

Fault(kind) == kind \in Faults /\ faults < MaxFaults /\ faults' = faults + 1

(* A list with a member's pid replaced, where it is the one announced. *)
Replace(list, from, o, n) ==
  IF list[from] = o THEN [list EXCEPT ![from] = n] ELSE list

(* Is a notice at h between its reads of the tables and its writes? *)
Folding(h, stage) == \E nt \in notices : nt.to = h /\ nt.stage = stage
Disturb(h, condition) ==
  disturbed' = disturbed \cup (IF condition THEN {h} ELSE {})

(***************************************************************************)
(* Dealing the shares.                                                     *)
(***************************************************************************)

(* A share arrives, the owner's first, with the list as the owner dealt it. *)
Deliver(h) ==
  /\ rows[h] = NoRows /\ (h = Owner \/ rows[Owner] # NoRows)
  /\ rows' = [rows EXCEPT ![h] = [v \in {0} |-> Dealt]]
  /\ UNCHANGED <<manifest, latest, mutator, notices, disturbed, counters>>

(* When all are delivered the owner writes its manifest. *)
PutManifest ==
  /\ manifest = NoManifest /\ \A h \in Holders : rows[h] # NoRows
  /\ manifest' = Dealt
  /\ UNCHANGED <<rows, latest, mutator, notices, disturbed, counters>>

(***************************************************************************)
(* Mutation: read the fragment, write it under its new pid, delete the old *)
(* row, tell the members one after another.                                *)
(***************************************************************************)
GetFragment(h, v) ==
  /\ h \in Mutators /\ pc[h] = "idle" /\ v \in DOMAIN rows[h]
  /\ mutations < MaxMutations /\ mutations' = mutations + 1
  /\ old' = [old EXCEPT ![h] = v]
  /\ snap' = [snap EXCEPT ![h] = rows[h][v]]
  /\ pc' = [pc EXCEPT ![h] = "put"]
  /\ Disturb(h, Folding(h, "rows"))
  /\ UNCHANGED <<tables, tell, notices, faults>>

PutFragment(h) ==
  /\ pc[h] = "put"
  /\ latest' = [latest EXCEPT ![h] = @ + 1]
  /\ rows' = [rows EXCEPT ![h] = [v \in DOMAIN @ \cup {latest[h] + 1} |->
                                    IF v = latest[h] + 1 THEN snap[h] ELSE @[v]]]
  /\ pc' = [pc EXCEPT ![h] = "delete"]
  /\ UNCHANGED <<manifest, old, snap, tell, notices, disturbed, counters>>

DeleteFragment(h) ==
  /\ pc[h] = "delete"
  /\ rows' = [rows EXCEPT ![h] = [v \in DOMAIN @ \ {old[h]} |-> @[v]]]
  /\ pc' = [pc EXCEPT ![h] = "tell"]
  /\ tell' = [tell EXCEPT ![h] = Holders \ {h}]
  /\ UNCHANGED <<manifest, latest, old, snap, notices, disturbed, counters>>

Told(h, m, new) ==
  [to |-> m, from |-> h, oldPID |-> old[h], newPID |-> new, stage |-> "sent",
   awaited |-> TRUE, updates |-> NoRows, list |-> Dealt]

(* Mutant: the members are told before the new row is stored. *)
NotifyEarly(h, m) ==
  /\ pc[h] = "put" /\ m \in Holders \ {h}
  /\ notices' = notices \cup {[Told(h, m, latest[h] + 1) EXCEPT !.awaited = FALSE]}
  /\ UNCHANGED <<tables, mutator, disturbed, counters>>

(* One POST; the goroutine waits for its answer. *)
NotifyMutation(h, m) ==
  /\ pc[h] = "tell" /\ m \in tell[h]
  /\ tell' = [tell EXCEPT ![h] = @ \ {m}]
  /\ notices' = notices \cup {Told(h, m, latest[h])}
  /\ pc' = [pc EXCEPT ![h] = "wait"]
  /\ UNCHANGED <<tables, old, snap, disturbed, counters>>

(* The member cannot be reached: logged, never repeated. *)
NotifyFails(h, m) ==
  /\ pc[h] = "tell" /\ m \in tell[h] /\ Fault("lost")
  /\ tell' = [tell EXCEPT ![h] = @ \ {m}]
  /\ disturbed' = disturbed \cup {m}
  /\ UNCHANGED <<tables, pc, old, snap, notices, mutations>>

Awaited(h) == {nt \in notices : nt.from = h /\ nt.awaited}
Forgotten(nts) == {[nt EXCEPT !.awaited = FALSE] : nt \in nts}

(* Mutant: without a timeout only an answer lets the goroutine go on. *)
NotifyNeverTimesOut(h) ==
  /\ pc[h] = "wait" /\ Awaited(h) = {}
  /\ pc' = [pc EXCEPT ![h] = "tell"]
  /\ UNCHANGED <<tables, old, snap, tell, notices, disturbed, counters>>

(* The client's timeout: the notice may still be handled, now or after the *)
(* holder's next ones.                                                     *)
NotifyTimesOut(h) ==
  /\ pc[h] = "wait" /\ "timeout" \in Faults
  /\ pc' = [pc EXCEPT ![h] = "tell"]
  /\ notices' = (notices \ Awaited(h)) \cup Forgotten(Awaited(h))
  /\ disturbed' = disturbed \cup {nt.to : nt \in Awaited(h)}
  /\ UNCHANGED <<tables, old, snap, tell, counters>>

MutationEnds(h) ==
  /\ pc[h] = "tell" /\ tell[h] = {}
  /\ pc' = [pc EXCEPT ![h] = "idle"]
  /\ old' = [old EXCEPT ![h] = 0] /\ snap' = [snap EXCEPT ![h] = Dealt]
  /\ UNCHANGED <<tables, tell, notices, disturbed, counters>>

(***************************************************************************)
(* The handler of a notice.                                                *)
(***************************************************************************)
Becomes(nt, new) == notices' = (notices \ {nt}) \cup {new}

(* Mutant: only the first row of the group is looked at. *)
SelectFirstRow(nt) ==
  /\ nt.stage = "sent"
  /\ LET mine == rows[nt.to]
         hit  == {v \in DOMAIN mine : /\ mine[v][nt.from] = nt.oldPID
                                      /\ \A w \in DOMAIN mine : v <= w}
         new  == [v \in hit |-> [mine[v] EXCEPT ![nt.from] = nt.newPID]]
     IN Becomes(nt, [nt EXCEPT !.stage = "rows", !.updates = new])
  /\ Disturb(nt.to, \/ pc[nt.to] = "put" \/ Folding(nt.to, "rows")
                    \/ rows[nt.to] = NoRows)
  /\ UNCHANGED <<tables, mutator, counters>>

(* UpdateSibling selects the group's rows and works out the lists that     *)
(* change ...                                                              *)
SelectRows(nt) ==
  /\ nt.stage = "sent"
  /\ LET mine == rows[nt.to]
         hit  == {v \in DOMAIN mine : mine[v][nt.from] = nt.oldPID}
         new  == [v \in hit |-> [mine[v] EXCEPT ![nt.from] = nt.newPID]]
     IN Becomes(nt, [nt EXCEPT !.stage = "rows", !.updates = new])
  /\ Disturb(nt.to, \/ pc[nt.to] = "put" \/ Folding(nt.to, "rows")
                    \/ rows[nt.to] = NoRows)
  /\ UNCHANGED <<tables, mutator, counters>>

(* Mutant: the list written back holds the changed member alone. *)
UpdateRowWithChange(nt, v) ==
  /\ nt.stage = "rows" /\ v \in DOMAIN nt.updates
  /\ rows' = IF v \in DOMAIN rows[nt.to]
             THEN [rows EXCEPT ![nt.to][v] = [k \in {nt.from} |-> nt.newPID]] ELSE rows
  /\ Becomes(nt, [nt EXCEPT !.updates = [w \in DOMAIN @ \ {v} |-> @[w]]])
  /\ UNCHANGED <<manifest, latest, mutator, disturbed, counters>>

(* ... and then writes them, UPDATE ... WHERE pid = v, row by row. *)
UpdateRow(nt, v) ==
  /\ nt.stage = "rows" /\ v \in DOMAIN nt.updates
  /\ rows' = IF v \in DOMAIN rows[nt.to]
             THEN [rows EXCEPT ![nt.to][v] = nt.updates[v]] ELSE rows
  /\ Becomes(nt, [nt EXCEPT !.updates = [w \in DOMAIN @ \ {v} |-> @[w]]])
  /\ UNCHANGED <<manifest, latest, mutator, disturbed, counters>>

(* The answer frees the goroutine that waits for it. *)
Answer(nt) ==
  /\ notices' = notices \ {nt}
  /\ pc' = [pc EXCEPT ![nt.from] =
              IF @ = "wait" /\ nt.awaited THEN "tell" ELSE @]

(* UpdateManifestMember: nothing to do at a node without the manifest. *)
NoManifestHere(nt) ==
  /\ nt.stage = "rows" /\ DOMAIN nt.updates = {}
  /\ nt.to # Owner \/ manifest = NoManifest
  /\ Answer(nt)
  /\ Disturb(nt.to, nt.to = Owner)
  /\ UNCHANGED <<tables, old, snap, tell, counters>>

ReadManifest(nt) ==
  /\ nt.stage = "rows" /\ DOMAIN nt.updates = {}
  /\ nt.to = Owner /\ manifest # NoManifest
  /\ Becomes(nt, [nt EXCEPT !.stage = "save",
                            !.list = Replace(manifest, nt.from, nt.oldPID, nt.newPID)])
  /\ Disturb(nt.to, Folding(nt.to, "save"))
  /\ UNCHANGED <<tables, mutator, counters>>

SaveManifest(nt) ==
  /\ nt.stage = "save"
  /\ manifest' = nt.list
  /\ Answer(nt)
  /\ UNCHANGED <<rows, latest, old, snap, tell, disturbed, counters>>

(***************************************************************************)
(* A holder restarts: its mutation and the notices it was handling end     *)
(* where they are, and their senders see the connection fail.              *)
(***************************************************************************)
Restart(h) ==
  /\ Fault("crash")
  /\ LET handled == {nt \in notices : nt.to = h}
         sent    == Awaited(h) \ handled
     IN /\ notices' = (notices \ (handled \cup sent)) \cup Forgotten(sent)
        /\ pc' = [g \in Holders |->
                    IF g = h THEN "idle"
                    ELSE IF pc[g] = "wait" /\ Awaited(g) \cap handled # {}
                    THEN "tell" ELSE pc[g]]
  /\ old' = [old EXCEPT ![h] = 0] /\ snap' = [snap EXCEPT ![h] = Dealt]
  /\ tell' = [tell EXCEPT ![h] = {}]
  /\ disturbed' = disturbed \cup {h} \cup (IF pc[h] = "idle" THEN {} ELSE Holders)
  /\ UNCHANGED <<tables, mutations>>

Mutate(h) ==
  \/ PutFragment(h) \/ DeleteFragment(h) \/ MutationEnds(h) \/ NotifyTimesOut(h)
  \/ \E m \in Holders \ {h} : NotifyMutation(h, m) \/ NotifyFails(h, m)
Handle(nt) ==
  \/ SelectRows(nt) \/ \E v \in DOMAIN nt.updates : UpdateRow(nt, v)
  \/ NoManifestHere(nt) \/ ReadManifest(nt) \/ SaveManifest(nt)

Next ==
  \/ \E h \in Holders : Deliver(h) \/ Mutate(h) \/ Restart(h)
  \/ PutManifest
  \/ \E h \in Holders : \E v \in DOMAIN rows[h] : GetFragment(h, v)
  \/ \E nt \in notices : Handle(nt)

Spec == Init /\ [][Next]_vars

(* The mutating goroutines keep running and their HTTP client gives up;    *)
(* nothing is assumed of the members they notify.                          *)
FairSpec == Spec /\ \A h \in Mutators : WF_vars(Mutate(h))
-----------------------------------------------------------------------------
(***************************************************************************)
(* Properties.                                                             *)
(***************************************************************************)

(* Type correctness of the model's state. *)
TypeOK ==
  /\ \A h \in Holders : /\ DOMAIN rows[h] \subseteq Nat
                        /\ rows[h] \in [DOMAIN rows[h] -> Lists]
  /\ manifest = NoManifest \/ manifest \in Lists
  /\ latest \in Lists /\ old \in Lists /\ snap \in [Holders -> Lists]
  /\ pc \in [Holders -> {"idle", "put", "delete", "tell", "wait"}]
  /\ tell \in [Holders -> SUBSET Holders]
  /\ \A nt \in notices :
       /\ nt.to \in Holders /\ nt.from \in Holders /\ nt.awaited \in BOOLEAN
       /\ nt.oldPID \in Nat /\ nt.newPID \in Nat /\ nt.list \in Lists
       /\ nt.stage \in {"sent", "rows", "save"}
       /\ DOMAIN nt.updates \subseteq Nat /\ nt.updates \in [DOMAIN nt.updates -> Lists]
  /\ disturbed \subseteq Holders /\ {mutations, faults} \subseteq Nat

(* No list, in a row or in the manifest, ever names a pseudo-ID its holder *)
(* has not stored a row under yet: members are told after the new row is   *)
(* on disk (applyMutation), whatever is lost, late or mixed up after that. *)
Reached(list) == \A k \in Holders : list[k] <= latest[k]
NeverAhead ==
  /\ \A h \in Holders : \A v \in DOMAIN rows[h] : Reached(rows[h][v])
  /\ manifest # NoManifest => Reached(manifest)

(* With nothing under way, a holder's rows and the manifest name every     *)
(* other member's current pseudo-ID, unless a notice to it was lost or     *)
(* late, came before its share or manifest, or was read and written back   *)
(* around another one's or its own mutation's reads and writes.            *)
Quiet == notices = {} /\ \A h \in Holders : pc[h] = "idle"
Current(h, list) == \A k \in Holders \ {h} : list[k] = latest[k]
InSync ==
  Quiet =>
    \A h \in Holders \ disturbed :
      /\ \A v \in DOMAIN rows[h] : Current(h, rows[h][v])
      /\ h = Owner /\ manifest # NoManifest => Current(h, manifest)

(* Every mutation ends, whatever becomes of the members it notifies one    *)
(* after another.                                                          *)
MutationsEnd == \A h \in Mutators : pc[h] # "idle" ~> pc[h] = "idle"
=============================================================================
