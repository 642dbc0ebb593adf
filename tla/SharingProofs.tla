--------------------------- MODULE SharingProofs ----------------------------
(***************************************************************************)
(* Type correctness of SecretSharing, and its two safety invariants:       *)
(* the manifest names a split that was delivered (Recoverable) and a value *)
(* that a command published (OnlyPublishedValues), for every number of     *)
(* peers, goroutines, groups and faults; and that SecretSharing takes only *)
(* steps of SecretRegister until a command overtakes another goroutine     *)
(* (RegisterUnlessOvertaken, last part).                                   *)
(*                                                                         *)
(* None of the two is inductive: a goroutine about to write the manifest   *)
(* has to be delivering a covered group of the right value, a notice       *)
(* handler has to hold on to such a group, and a re-share under way has to *)
(* carry a published value.  Sound says it of a group, RowOK of a          *)
(* goroutine.  Both only become truer as the tables grow (Grows), so that  *)
(* a step need only be checked at the goroutine that takes it.             *)
(***************************************************************************)
EXTENDS SecretSharing, TLAPS, FiniteSetTheorems

(* `history` only abbreviates the tuple of the history variables. *)
USE DEF history

Published(v) == \E i \in 1 .. Len(published) : v = published[i]

(* Every member not in `missing` has, or had, its share. *)
Covered(g, missing) == \A n \in Members(g) \ missing : g \in held[n] \cup lost[n]
Large(g) == Cardinality(Members(g)) >= Threshold

(* What the manifest, or a row a notice handler has read, may name. *)
Sound(g) == /\ g \in GroupIds /\ Covered(g, {}) /\ Large(g)
            /\ Published(groups[g].value)

(* What a goroutine works with. *)
RowOK(r) ==
  /\ r \in Rows
  /\ {r.m, r.from, r.g} \subseteq GroupIds \cup {None}
  /\ r.pc \in {"probe", "reshare"} => r.m \in GroupIds
  /\ r.pc = "fetch" =>
       /\ r.from \in GroupIds /\ Published(groups[r.from].value)
       /\ r.op # "read" => r.m \in GroupIds
  /\ r.pc = "ping" => r.got \subseteq Peers
  /\ r.pc \in {"ping", "deliver"} =>
       /\ r.value \in Values
       /\ r.op \notin {"store", "backup"} => Published(r.value)
  /\ r.pc = "deliver" =>
       /\ r.g \in GroupIds /\ groups[r.g].value = r.value
       /\ Large(r.g) /\ Covered(r.g, r.to)

Tables ==
  /\ groups \in Seq(Splits)
  /\ held \in [Nodes -> SUBSET GroupIds] /\ lost \in [Nodes -> SUBSET GroupIds]
  /\ up \subseteq Peers
  /\ published \in Seq(Values) /\ answer \in Values \cup {NoValue}
  /\ {stores, faults} \subseteq Nat /\ overtaken \in BOOLEAN

ManifestOK == manifest = None \/ Sound(manifest)
NoticesOK == \A g \in notices : Sound(g)
JobsOK == job \in [Jobs -> Rows] /\ \A j \in Jobs : RowOK(job[j])

IInv == Tables /\ ManifestOK /\ NoticesOK /\ JobsOK

(***************************************************************************)
(* The tables grow.                                                        *)
(***************************************************************************)
Grows ==
  /\ GroupIds \subseteq GroupIds'
  /\ \A g \in GroupIds : groups'[g] = groups[g]
  /\ \A n \in Nodes : held[n] \cup lost[n] \subseteq held'[n] \cup lost'[n]
  /\ \A v : Published(v) => Published(v)'

LEMMA MembersType ==
  ASSUME Tables, NEW g \in GroupIds
  PROVE  /\ Members(g) \subseteq Nodes /\ IsFiniteSet(Members(g))
         /\ groups[g].value \in Values /\ groups[g].kind \in Kinds
<1>1. groups[g] \in Splits
  BY DEF Tables, GroupIds
<1>2. Members(g) \subseteq Nodes /\ groups[g].value \in Values /\ groups[g].kind \in Kinds
  BY <1>1 DEF Splits, Members
<1>3. IsFiniteSet(Nodes)
  BY PeersAssumption, FS_AddElement DEF Nodes
<1> QED
  BY <1>2, <1>3, FS_Subset

LEMMA SoundKept ==
  ASSUME Tables, Grows, NEW g, Sound(g)
  PROVE  Sound(g)'
<1>1. g \in GroupIds /\ groups'[g] = groups[g] /\ Members(g) \subseteq Nodes
  BY MembersType DEF Sound, Grows
<1>2. Members(g)' = Members(g) /\ (groups[g].value)' = groups[g].value
  BY <1>1 DEF Members
<1>3. Covered(g, {})'
  BY <1>1, <1>2 DEF Sound, Covered, Grows
<1> QED
  BY <1>1, <1>2, <1>3 DEF Sound, Large, Grows

LEMMA RowKept ==
  ASSUME Tables, Grows, NEW r, RowOK(r)
  PROVE  RowOK(r)'
<1>1. GroupIds \subseteq GroupIds' /\ \A v : Published(v) => Published(v)'
  BY DEF Grows
<1>2. \A g \in GroupIds : groups'[g] = groups[g]
  BY DEF Grows
<1>3. r.pc = "deliver" => Large(r.g)' /\ Covered(r.g, r.to)'
  <2> SUFFICES ASSUME r.pc = "deliver" PROVE Large(r.g)' /\ Covered(r.g, r.to)'
    OBVIOUS
  <2>1. r.g \in GroupIds /\ Large(r.g) /\ Covered(r.g, r.to)
    BY DEF RowOK
  <2>2. Members(r.g)' = Members(r.g) /\ Members(r.g) \subseteq Nodes
    BY <2>1, <1>2, MembersType DEF Members
  <2> QED
    BY <2>1, <2>2 DEF Large, Covered, Grows
<1>4. r.pc = "fetch" => Published(groups[r.from].value)'
  BY <1>1, <1>2 DEF RowOK
<1> QED
  BY <1>1, <1>2, <1>3, <1>4 DEF RowOK, Rows

LEMMA IdleOK == RowOK(Idle)
  BY DEF RowOK, Idle, Rows, Kinds, None

(* Nothing but a goroutine's own row, an answer or a counter changes. *)
LEMMA TablesKept ==
  ASSUME IInv, UNCHANGED tables, answer' \in Values \cup {NoValue},
         {stores', faults'} \subseteq Nat
  PROVE  Grows /\ Tables' /\ ManifestOK' /\ NoticesOK'
<1>1. Grows
  BY DEF tables, Grows, GroupIds, Published
<1>2. Tables'
  BY DEF tables, IInv, Tables, GroupIds
<1>3. ManifestOK'
  BY <1>1, SoundKept DEF tables, IInv, ManifestOK
<1>4. NoticesOK'
  BY <1>1, SoundKept DEF tables, IInv, NoticesOK
<1> QED
  BY <1>1, <1>2, <1>3, <1>4

LEMMA RowOfJob ==
  ASSUME NEW k \in Jobs, NEW r, r = job'[k], RowOK(r)'
  PROVE  RowOK(job[k])'
BY DEF RowOK, Covered, Large, Members

(* A step of one goroutine. *)
LEMMA JobStep ==
  ASSUME IInv, Grows, Tables', ManifestOK', NoticesOK',
         NEW j \in Jobs, NEW r, Become(j, r), RowOK(r)'
  PROVE  IInv'
<1>1. r \in Rows
  BY DEF RowOK, Rows
<1>2. job' \in [Jobs -> Rows]
  BY <1>1 DEF Become, IInv, JobsOK
<1>3. ASSUME NEW k \in Jobs PROVE RowOK(job[k])'
  <2>1. PICK new : new = job'[k]
    OBVIOUS
  <2>2. RowOK(new)'
    <3>1. CASE k = j
      BY <2>1, <3>1 DEF Become, IInv, JobsOK
    <3>2. CASE k # j
      <4>1. new = job[k]
        BY <2>1, <3>2 DEF Become, IInv, JobsOK
      <4>2. RowOK(new)
        BY <4>1 DEF IInv, JobsOK
      <4> QED
        BY <4>2, RowKept DEF IInv
    <3> QED
      BY <3>1, <3>2
  <2> QED
    BY <2>1, <2>2, RowOfJob
<1> QED
  BY <1>2, <1>3 DEF IInv, JobsOK

LEMMA JobOnly ==
  ASSUME IInv, UNCHANGED tables, answer' \in Values \cup {NoValue},
         {stores', faults'} \subseteq Nat,
         NEW j \in Jobs, NEW r, Become(j, r), RowOK(r)
  PROVE  IInv'
<1>1. Grows /\ Tables' /\ ManifestOK' /\ NoticesOK'
  BY TablesKept
<1>2. RowOK(r)'
  BY <1>1, RowKept DEF IInv
<1> QED
  BY <1>1, <1>2, JobStep

(* The manifest and the notices' rows stay sound while the tables grow. *)
LEMMA NamesKept ==
  ASSUME IInv, Grows, manifest' = manifest, notices' \subseteq notices
  PROVE  ManifestOK' /\ NoticesOK'
BY SoundKept DEF IInv, ManifestOK, NoticesOK

(***************************************************************************)
(* One lemma per kind of step.                                             *)
(***************************************************************************)
LEMMA OpenStep ==
  ASSUME IInv, NEW j \in Jobs,
         NEW op \in {"store", "backup", "heal", "force", "read", "none"},
         NEW kind \in Kinds, NEW v \in Values, NEW members \in SUBSET Nodes,
         op \notin {"store", "backup"} => Published(v),
         Cardinality(members) >= Threshold,
         Open(j, op, kind, v, members), stores' \in Nat,
         UNCHANGED <<manifest, held, lost, up, notices, history, answer, faults>>
  PROVE  IInv'
<1> DEFINE split == [kind |-> kind, value |-> v, members |-> members]
<1>1. PICK n \in Nat : n = Len(groups)
  BY DEF IInv, Tables
<1>2. PICK r : r = [Idle EXCEPT !.pc = "deliver", !.op = op, !.kind = kind,
                                !.value = v, !.g = n + 1, !.to = members]
  OBVIOUS
<1>3. Become(j, r)
  BY <1>1, <1>2 DEF Open
<1>4. split \in Splits
  BY DEF Splits
<1>5. groups' = Append(groups, split) /\ groups \in Seq(Splits)
  BY DEF Open, IInv, Tables
<1> HIDE DEF split
<1>6. /\ groups' \in Seq(Splits) /\ Len(groups') = n + 1
      /\ groups'[n + 1] = split
      /\ \A g \in 1 .. n : groups'[g] = groups[g]
  BY <1>1, <1>4, <1>5
<1>7. GroupIds = 1 .. n /\ GroupIds' = 1 .. n + 1
  BY <1>1, <1>6 DEF GroupIds
<1>8. Grows
  BY <1>6, <1>7 DEF Grows, Published
<1>9. Tables'
  BY <1>6, <1>7 DEF Tables, IInv
<1>10. ManifestOK' /\ NoticesOK'
  BY <1>8, NamesKept
<1>11. Members(n + 1)' = members /\ (groups[n + 1].value)' = v
  BY <1>6 DEF split, Members
<1>12. /\ r.pc = "deliver" /\ r.op = op /\ r.value = v /\ r.g = n + 1
       /\ r.to = members /\ r.m = None /\ r.from = None
  BY <1>2 DEF Idle
<1>13. r \in Rows
  <2>1. r = [pc |-> "deliver", op |-> op, m |-> 0, from |-> 0, asked |-> {},
             got |-> {}, kind |-> kind, value |-> v, g |-> n + 1, to |-> members]
    BY <1>2 DEF Idle, None
  <2> QED
    BY <2>1, n + 1 \in Nat DEF Rows
<1>14. Large(r.g)' /\ Covered(r.g, r.to)' /\ (groups[r.g].value)' = r.value
  BY <1>11, <1>12 DEF Large, Covered
<1>15. RowOK(r)'
  BY <1>7, <1>8, <1>12, <1>14, <1>13 DEF RowOK, Rows, Grows, None, Published
<1> QED
  BY <1>3, <1>8, <1>9, <1>10, <1>15, JobStep

LEMMA BackupStep ==
  ASSUME IInv, NEW v \in Values, Backup(v)
  PROVE  IInv'
<1>1. Mesh \subseteq Nodes /\ Repl \in Jobs /\ "backup" \in Kinds
  BY PeersAssumption DEF Nodes, Jobs, Kinds
<1>2. stores' \in Nat /\ Cardinality(Mesh) >= Threshold
  BY DEF Backup, IInv, Tables
<1> QED
  BY <1>1, <1>2, OpenStep DEF Backup

LEMMA StoreStep ==
  ASSUME IInv, NEW v \in Values, Store(v)
  PROVE  IInv'
<1>1. PICK r : r = [Idle EXCEPT !.pc = "ping", !.op = "store", !.value = v]
  OBVIOUS
<1>2. RowOK(r)
  BY <1>1 DEF RowOK, Idle, Rows, Kinds, None
<1>3. Repl \in Jobs /\ Become(Repl, r) /\ UNCHANGED tables
  BY <1>1 DEF Store, Jobs
<1>4. answer' \in Values \cup {NoValue} /\ {stores', faults'} \subseteq Nat
  BY DEF Store, IInv, Tables
<1> QED
  BY <1>2, <1>3, <1>4, JobOnly

(* A goroutine that stops, or a command that starts. *)
LEMMA StopStep ==
  ASSUME IInv, NEW j \in Jobs, Stop(j), UNCHANGED tables,
         answer' \in Values \cup {NoValue}, {stores', faults'} \subseteq Nat
  PROVE  IInv'
<1>1. PICK r : r = Idle
  OBVIOUS
<1> QED
  BY <1>1, IdleOK, JobOnly DEF Stop

LEMMA ManifestSound ==
  ASSUME IInv, manifest # None
  PROVE  Sound(manifest) /\ manifest \in Nat
BY DEF IInv, ManifestOK, Sound, GroupIds

LEMMA ReconstructStep ==
  ASSUME IInv, Reconstruct
  PROVE  IInv'
<1>1. PICK g \in Nat : g = manifest /\ Sound(manifest)
  BY ManifestSound DEF Reconstruct
<1>2. PICK r : r = [Idle EXCEPT !.pc = "fetch", !.op = "read", !.from = g]
  OBVIOUS
<1>3. RowOK(r)
  BY <1>1, <1>2 DEF RowOK, Idle, Rows, Kinds, None, Sound
<1>4. Repl \in Jobs /\ Become(Repl, r) /\ UNCHANGED tables
  BY <1>1, <1>2 DEF Reconstruct, Jobs
<1>5. answer' \in Values \cup {NoValue} /\ {stores', faults'} \subseteq Nat
  BY DEF Reconstruct, IInv, Tables
<1> QED
  BY <1>3, <1>4, <1>5, JobOnly

LEMMA HealStep ==
  ASSUME IInv, NEW j \in Jobs, Heal(j) \/ ForceReshareOwned(j)
  PROVE  IInv'
<1>1. PICK g \in Nat : g = manifest /\ Sound(manifest)
  BY ManifestSound DEF Heal, ForceReshareOwned
<1>2. PICK pc \in {"probe", "reshare"}, op \in {"heal", "force"} :
        Become(j, [Idle EXCEPT !.pc = pc, !.op = op, !.m = g])
  BY <1>1 DEF Heal, ForceReshareOwned
<1>3. PICK r : r = [Idle EXCEPT !.pc = pc, !.op = op, !.m = g]
  OBVIOUS
<1>4. RowOK(r)
  BY <1>1, <1>3 DEF RowOK, Idle, Rows, Kinds, None, Sound
<1>5. answer' \in Values \cup {NoValue} /\ {stores', faults'} \subseteq Nat
  BY DEF Heal, ForceReshareOwned, IInv, Tables
<1>6. UNCHANGED tables
  BY DEF Heal, ForceReshareOwned
<1> QED
  BY <1>2, <1>3, <1>4, <1>5, <1>6, JobOnly

LEMMA AskStep ==
  ASSUME IInv, NEW j \in Jobs, NEW n \in Nodes, Ask(j, n)
  PROVE  IInv'
<1>1. PICK old : old = job[j]
  OBVIOUS
<1>2. RowOK(old) /\ old \in Rows /\ old.pc \in {"probe", "fetch", "ping"}
  BY <1>1 DEF IInv, JobsOK, Ask
<1>3. PICK got \in {old.got, old.got \cup {n}} :
        Become(j, [old EXCEPT !.asked = @ \cup {n}, !.got = got])
  BY <1>1, <1>2 DEF Ask, Rows
<1>4. old.pc = "ping" => n \in Peers
  BY <1>1, <1>2, PeersAssumption DEF Ask, Candidates
<1>5. PICK r : r = [old EXCEPT !.asked = @ \cup {n}, !.got = got]
  OBVIOUS
<1>6. /\ r \in Rows /\ r.pc = old.pc /\ r.op = old.op /\ r.m = old.m
      /\ r.from = old.from /\ r.g = old.g /\ r.value = old.value /\ r.to = old.to
      /\ r.got \subseteq old.got \cup {n}
  BY <1>2, <1>5 DEF Rows
<1>7. RowOK(r)
  BY <1>2, <1>4, <1>6 DEF RowOK
<1>8. answer' \in Values \cup {NoValue} /\ {stores', faults'} \subseteq Nat
  BY DEF Ask, IInv, Tables
<1> QED
  BY <1>3, <1>5, <1>7, <1>8, JobOnly DEF Ask

LEMMA ProbeEndsStep ==
  ASSUME IInv, NEW j \in Jobs, ProbeEnds(j)
  PROVE  IInv'
<1>1. PICK old : old = job[j]
  OBVIOUS
<1>2. RowOK(old) /\ old \in Rows /\ old.m \in GroupIds
  BY <1>1 DEF IInv, JobsOK, ProbeEnds, RowOK
<1>3. answer' \in Values \cup {NoValue} /\ {stores', faults'} \subseteq Nat
  BY DEF ProbeEnds, IInv, Tables
<1>4. UNCHANGED tables
  BY DEF ProbeEnds
<1>5. CASE Stop(j)
  BY <1>3, <1>4, <1>5, StopStep
<1>6. CASE Become(j, [Idle EXCEPT !.pc = "reshare", !.op = "heal", !.m = old.m])
  <2>1. PICK r : r = [Idle EXCEPT !.pc = "reshare", !.op = "heal", !.m = old.m]
    OBVIOUS
  <2>2. RowOK(r)
    BY <1>2, <2>1 DEF RowOK, Idle, Rows, Kinds, None
  <2> QED
    BY <1>3, <1>4, <1>6, <2>1, <2>2, JobOnly
<1> QED
  BY <1>1, <1>5, <1>6 DEF ProbeEnds

LEMMA ReshareManifestStep ==
  ASSUME IInv, NEW j \in Jobs, ReshareManifest(j)
  PROVE  IInv'
<1>1. PICK old : old = job[j]
  OBVIOUS
<1>2. RowOK(old) /\ old \in Rows /\ old.m \in GroupIds
  BY <1>1 DEF IInv, JobsOK, ReshareManifest, RowOK
<1>3. answer' \in Values \cup {NoValue} /\ {stores', faults'} \subseteq Nat
  BY DEF ReshareManifest, IInv, Tables
<1>4. UNCHANGED tables
  BY DEF ReshareManifest
<1>5. CASE Stop(j)
  BY <1>3, <1>4, <1>5, StopStep
<1>6. CASE manifest # None /\ Become(j, ReadManifest(j))
  <2>1. PICK g \in Nat : g = manifest /\ Sound(manifest)
    BY <1>6, ManifestSound
  <2>2. PICK r : r = [Idle EXCEPT !.pc = "fetch", !.op = old.op, !.m = old.m,
                                  !.from = g]
    OBVIOUS
  <2>3. RowOK(r)
    BY <1>2, <2>1, <2>2 DEF RowOK, Idle, Rows, Kinds, None, Sound
  <2>4. Become(j, r)
    BY <1>1, <1>6, <2>1, <2>2 DEF ReadManifest
  <2> QED
    BY <1>3, <1>4, <2>3, <2>4, JobOnly
<1> QED
  BY <1>5, <1>6 DEF ReshareManifest

LEMMA FetchEndsStep ==
  ASSUME IInv, NEW j \in Jobs, FetchEnds(j)
  PROVE  IInv'
<1>1. PICK old : old = job[j]
  OBVIOUS
<1>2. /\ RowOK(old) /\ old \in Rows /\ old.from \in GroupIds
      /\ Published(groups[old.from].value)
      /\ old.op # "read" => old.m \in GroupIds
  BY <1>1 DEF IInv, JobsOK, FetchEnds, RowOK
<1>3. groups[old.from].value \in Values
  BY <1>2, MembersType DEF IInv
<1>4. answer' \in Values \cup {NoValue} /\ {stores', faults'} \subseteq Nat
  BY <1>1, <1>3 DEF FetchEnds, IInv, Tables
<1>5. UNCHANGED tables
  BY DEF FetchEnds
<1>6. CASE Stop(j)
  BY <1>4, <1>5, <1>6, StopStep
<1>7. CASE /\ old.op # "read"
           /\ Become(j, [Idle EXCEPT !.pc = "ping", !.op = old.op, !.m = old.m,
                                     !.kind = groups[old.m].kind,
                                     !.value = groups[old.from].value])
  <2>1. PICK kind \in Kinds : kind = groups[old.m].kind
    BY <1>2, <1>7, MembersType DEF IInv
  <2>2. PICK v \in Values : v = groups[old.from].value /\ Published(v)
    BY <1>2, <1>3
  <2>3. PICK r : r = [Idle EXCEPT !.pc = "ping", !.op = old.op, !.m = old.m,
                                  !.kind = kind, !.value = v]
    OBVIOUS
  <2>4. RowOK(r)
    BY <1>2, <1>7, <2>2, <2>3 DEF RowOK, Idle, Rows, None
  <2> QED
    BY <1>4, <1>5, <1>7, <2>1, <2>2, <2>3, <2>4, JobOnly
<1> QED
  BY <1>1, <1>6, <1>7 DEF FetchEnds

LEMMA PingEndsStep ==
  ASSUME IInv, NEW j \in Jobs, PingEnds(j)
  PROVE  IInv'
<1>1. PICK old : old = job[j]
  OBVIOUS
<1>2. /\ RowOK(old) /\ old \in Rows /\ old.got \subseteq Peers
      /\ old.value \in Values
      /\ old.op \notin {"store", "backup"} => Published(old.value)
  BY <1>1 DEF IInv, JobsOK, PingEnds, RowOK
<1> DEFINE need == IF old.kind = "secret" THEN Total - 1 ELSE Threshold
           members == IF old.kind = "secret" THEN old.got \cup {Owner} ELSE old.got
<1>3. answer' \in Values \cup {NoValue} /\ {stores', faults'} \subseteq Nat
  BY DEF PingEnds, IInv, Tables
<1>4. CASE Stop(j) /\ UNCHANGED groups
  BY <1>3, <1>4, StopStep DEF PingEnds, tables
<1>5. CASE Cardinality(old.got) >= need /\ Open(j, old.op, old.kind, old.value, members)
  <2>1. IsFiniteSet(old.got) /\ Owner \notin old.got
    BY <1>2, PeersAssumption, FS_Subset
  <2>2. /\ Cardinality(old.got) \in Nat
        /\ Cardinality(old.got \cup {Owner}) = Cardinality(old.got) + 1
    BY <2>1, FS_AddElement, FS_CardinalityType
  <2>3. Cardinality(members) >= Threshold
    BY <1>5, <2>2, TotalAssumption, ThresholdAssumption
  <2>4. members \in SUBSET Nodes
    BY <1>2 DEF Nodes
  <2>5. /\ old.op \in {"store", "backup", "heal", "force", "read", "none"}
        /\ old.kind \in Kinds
    BY <1>2 DEF Rows
  <2>6. UNCHANGED <<manifest, held, lost, up, notices, history, answer, faults>>
    BY DEF PingEnds
  <2> HIDE DEF members
  <2> QED
    BY <1>2, <1>3, <1>5, <2>3, <2>4, <2>5, <2>6, OpenStep
<1> QED
  BY <1>1, <1>4, <1>5 DEF PingEnds

LEMMA AcceptsGrows ==
  ASSUME IInv, NEW n \in Nodes, NEW g \in GroupIds, Accepts(n, g),
         UNCHANGED <<groups, manifest, lost, up, notices, history, answer, stores>>,
         faults' \in Nat
  PROVE  /\ Grows /\ Tables' /\ ManifestOK' /\ NoticesOK'
         /\ g \in held'[n] /\ \A k \in Nodes : held[k] \subseteq held'[k]
<1>1. held \in [Nodes -> SUBSET GroupIds]
  BY DEF IInv, Tables
<1>2. /\ held' \in [Nodes -> SUBSET GroupIds] /\ g \in held'[n]
      /\ \A k \in Nodes : held[k] \subseteq held'[k]
  BY <1>1 DEF Accepts
<1>3. Grows
  BY <1>2 DEF Grows, GroupIds, Published
<1>4. Tables'
  BY <1>2 DEF Tables, IInv, GroupIds
<1> QED
  BY <1>2, <1>3, <1>4, NamesKept

LEMMA DeliverStep ==
  ASSUME IInv, NEW j \in Jobs, NEW n \in Nodes, Deliver(j, n)
  PROVE  IInv'
<1>1. PICK old : old = job[j]
  OBVIOUS
<1>2. RowOK(old) /\ old \in Rows /\ old.pc = "deliver" /\ old.g \in GroupIds
  BY <1>1 DEF IInv, JobsOK, Deliver, RowOK
<1>3. PICK r : r = [old EXCEPT !.to = @ \ {n}]
  OBVIOUS
<1>4. /\ r \in Rows /\ r.pc = "deliver" /\ r.op = old.op /\ r.m = old.m
      /\ r.from = old.from /\ r.g = old.g /\ r.value = old.value
      /\ r.to = old.to \ {n}
  BY <1>2, <1>3 DEF Rows
<1>5. faults' \in Nat
  BY DEF Deliver, IInv, Tables
<1>6. /\ Grows /\ Tables' /\ ManifestOK' /\ NoticesOK'
      /\ old.g \in held'[n] /\ \A k \in Nodes : held[k] \subseteq held'[k]
  BY <1>1, <1>2, <1>5, AcceptsGrows DEF Deliver
<1>7. RowOK(old)'
  BY <1>2, <1>6, RowKept DEF IInv
<1>8. Covered(old.g, old.to)'
  BY <1>2, <1>7 DEF RowOK
<1>9. Covered(r.g, r.to)'
  BY <1>4, <1>6, <1>8 DEF Covered
<1>10. RowOK(r)'
  BY <1>2, <1>4, <1>7, <1>9 DEF RowOK
<1>11. Become(j, r)
  BY <1>1, <1>3 DEF Deliver
<1> QED
  BY <1>6, <1>10, <1>11, JobStep

LEMMA TimeoutStep ==
  ASSUME IInv, NEW j \in Jobs, NEW n \in Peers, DeliverTimesOut(j, n)
  PROVE  IInv'
<1>1. PICK old : old = job[j]
  OBVIOUS
<1>2. old.g \in GroupIds
  BY <1>1 DEF IInv, JobsOK, DeliverTimesOut, RowOK
<1>3. faults' \in Nat /\ answer' \in Values \cup {NoValue} /\ stores' \in Nat
  BY DEF DeliverTimesOut, Fault, IInv, Tables
<1>4. CASE UNCHANGED held
  BY <1>3, <1>4, StopStep DEF DeliverTimesOut, tables
<1>5. CASE Accepts(n, old.g)
  <2>1. Grows /\ Tables' /\ ManifestOK' /\ NoticesOK'
    BY <1>2, <1>3, <1>5, AcceptsGrows DEF DeliverTimesOut, Nodes
  <2>2. PICK r : r = Idle
    OBVIOUS
  <2>3. RowOK(r)'
    BY <2>1, <2>2, IdleOK, RowKept DEF IInv
  <2> QED
    BY <2>1, <2>2, <2>3, JobStep DEF DeliverTimesOut, Stop
<1> QED
  BY <1>1, <1>4, <1>5 DEF DeliverTimesOut

LEMMA CommitStep ==
  ASSUME IInv, NEW j \in Jobs, Commit(j)
  PROVE  IInv'
<1>1. PICK old : old = job[j]
  OBVIOUS
<1>2. /\ RowOK(old) /\ old \in Rows /\ old.g \in GroupIds /\ old.to = {}
      /\ old.value \in Values /\ groups[old.g].value = old.value
      /\ Large(old.g) /\ Covered(old.g, {})
      /\ old.op \notin {"store", "backup"} => Published(old.value)
  BY <1>1 DEF IInv, JobsOK, Commit, RowOK
<1>3. PICK n \in Nat : n = Len(published)
  BY DEF IInv, Tables
<1>4. /\ published' \in Seq(Values)
      /\ \A i \in 1 .. n : i \in 1 .. Len(published') /\ published'[i] = published[i]
      /\ Published(old.value)'
  <2>1. CASE old.op \in {"store", "backup"}
    <3>1. published' = Append(published, old.value) /\ published \in Seq(Values)
      BY <1>1, <2>1 DEF Commit, IInv, Tables
    <3>2. /\ published' \in Seq(Values) /\ Len(published') = n + 1
          /\ published'[n + 1] = old.value
          /\ \A i \in 1 .. n : published'[i] = published[i]
      BY <1>2, <1>3, <3>1
    <3> QED
      BY <3>2 DEF Published
  <2>2. CASE old.op \notin {"store", "backup"}
    BY <1>1, <1>2, <1>3, <2>2 DEF Commit, IInv, Tables, Published
  <2> QED
    BY <2>1, <2>2
<1>5. Grows
  BY <1>3, <1>4 DEF Commit, Grows, GroupIds, Published
<1>6. Tables'
  BY <1>4 DEF Commit, Overtakes, IInv, Tables, GroupIds
<1>7. Sound(manifest)'
  <2>1. manifest' = old.g /\ UNCHANGED <<groups, held, lost>>
    BY <1>1 DEF Commit
  <2>2. PICK g \in GroupIds : g = old.g /\ manifest' = g
    BY <1>2, <2>1
  <2>3. g \in GroupIds' /\ Covered(g, {})' /\ Large(g)' /\ (groups[g].value)' = old.value
    BY <1>2, <2>1, <2>2 DEF GroupIds, Covered, Large, Members
  <2> QED
    BY <1>4, <2>2, <2>3 DEF Sound, Covered, Large, Members, Published
<1>8. NoticesOK'
  BY <1>5, SoundKept DEF Commit, IInv, NoticesOK
<1>9. PICK r : r = Idle
  OBVIOUS
<1>10. RowOK(r)'
  BY <1>5, <1>9, IdleOK, RowKept DEF IInv
<1> QED
  BY <1>5, <1>6, <1>7, <1>8, <1>9, <1>10, JobStep DEF Commit, Stop, ManifestOK

(* Steps that leave the goroutines alone, and restarts. *)
LEMMA JobsKept ==
  ASSUME IInv, Grows, \A k \in Jobs : job'[k] = job[k] \/ job'[k] = Idle,
         job' \in [Jobs -> Rows]
  PROVE  JobsOK'
<1>1. ASSUME NEW k \in Jobs PROVE RowOK(job[k])'
  <2>1. PICK new : new = job'[k]
    OBVIOUS
  <2>2. CASE new = job[k]
    BY <2>1, <2>2, RowKept, RowOfJob DEF IInv, JobsOK
  <2>3. CASE new = Idle
    BY <2>1, <2>3, IdleOK, RowKept, RowOfJob DEF IInv
  <2> QED
    BY <2>1, <2>2, <2>3
<1> QED
  BY <1>1 DEF JobsOK

LEMMA IdleRows == Idle \in Rows
  BY DEF Idle, Rows, Kinds, None

LEMMA NoticeStep ==
  ASSUME IInv, \/ \E n \in Peers : NoticeRead(n)
               \/ \E g \in notices : NoticeWrite(g)
  PROVE  IInv'
<1>1. UNCHANGED <<groups, held, lost, up, job, history, answer, stores, faults>>
  BY DEF NoticeRead, NoticeWrite
<1>2. Grows /\ Tables'
  BY <1>1 DEF Grows, GroupIds, Published, IInv, Tables
<1>3. ManifestOK' /\ NoticesOK'
  <2>1. ASSUME NEW n \in Peers, NoticeRead(n) PROVE ManifestOK' /\ NoticesOK'
    <3>1. /\ manifest' = manifest /\ manifest # None
          /\ notices' = notices \cup {manifest}
      BY <2>1 DEF NoticeRead
    <3>2. \A g \in notices' : Sound(g)
      BY <3>1, ManifestSound DEF IInv, NoticesOK
    <3>3. ManifestOK'
      BY <1>2, <3>1, SoundKept DEF IInv, ManifestOK
    <3> QED
      BY <1>2, <3>2, <3>3, SoundKept DEF IInv, NoticesOK
  <2>2. ASSUME NEW g \in notices, NoticeWrite(g) PROVE ManifestOK' /\ NoticesOK'
    <3>1. manifest' = g /\ notices' \subseteq notices /\ Sound(g)
      BY <2>2 DEF NoticeWrite, IInv, NoticesOK
    <3>2. Sound(g)'
      BY <1>2, <3>1, SoundKept DEF IInv
    <3>3. Sound(manifest)'
      BY <3>1, <3>2 DEF Sound, Covered, Large, Members, Published
    <3> QED
      BY <1>2, <3>1, <3>3, SoundKept DEF IInv, ManifestOK, NoticesOK
  <2> QED
    BY <2>1, <2>2
<1>4. JobsOK'
  BY <1>1, <1>2, JobsKept DEF IInv, JobsOK
<1> QED
  BY <1>2, <1>3, <1>4 DEF IInv

LEMMA NodeStep ==
  ASSUME IInv, NEW n \in Peers, GoesDown(n) \/ ComesUp(n) \/ DiskLost(n)
  PROVE  IInv'
<1>1. /\ UNCHANGED <<groups, manifest, job, notices, history, answer, stores>>
      /\ faults' \in Nat /\ up' \subseteq Peers
  BY DEF GoesDown, ComesUp, DiskLost, Fault, IInv, Tables
<1>2. /\ held' \in [Nodes -> SUBSET GroupIds] /\ lost' \in [Nodes -> SUBSET GroupIds]
      /\ \A k \in Nodes : held[k] \cup lost[k] \subseteq held'[k] \cup lost'[k]
  <2>1. held \in [Nodes -> SUBSET GroupIds] /\ lost \in [Nodes -> SUBSET GroupIds]
    BY DEF IInv, Tables
  <2>2. CASE UNCHANGED <<held, lost>>
    BY <2>1, <2>2
  <2>3. CASE DiskLost(n)
    BY <2>1, <2>3 DEF DiskLost
  <2> QED
    BY <2>2, <2>3 DEF GoesDown, ComesUp
<1>3. Grows /\ Tables'
  BY <1>1, <1>2 DEF Grows, GroupIds, Published, IInv, Tables
<1>4. ManifestOK' /\ NoticesOK'
  BY <1>1, <1>3, NamesKept
<1>5. JobsOK'
  BY <1>1, <1>3, JobsKept DEF IInv, JobsOK
<1> QED
  BY <1>3, <1>4, <1>5 DEF IInv

LEMMA RestartStep ==
  ASSUME IInv, OwnerRestarts \/ DeviceLost
  PROVE  IInv'
<1>1. /\ UNCHANGED <<groups, up, history, answer, stores>> /\ faults' \in Nat
      /\ notices' = {} /\ manifest' \in {manifest, None}
      /\ job' = [j \in Jobs |-> Idle]
  BY DEF OwnerRestarts, DeviceLost, Fault, IInv, Tables
<1>2. /\ held' \in [Nodes -> SUBSET GroupIds] /\ lost' \in [Nodes -> SUBSET GroupIds]
      /\ \A k \in Nodes : held[k] \cup lost[k] \subseteq held'[k] \cup lost'[k]
  <2>1. held \in [Nodes -> SUBSET GroupIds] /\ lost \in [Nodes -> SUBSET GroupIds]
    BY DEF IInv, Tables
  <2>2. CASE OwnerRestarts
    BY <2>1, <2>2 DEF OwnerRestarts
  <2>3. CASE DeviceLost
    BY <2>1, <2>3 DEF DeviceLost
  <2> QED
    BY <2>2, <2>3
<1>3. Grows /\ Tables'
  BY <1>1, <1>2 DEF Grows, GroupIds, Published, IInv, Tables
<1>4. ManifestOK' /\ NoticesOK'
  <2>1. CASE manifest' = manifest
    BY <1>1, <1>3, <2>1, NamesKept
  <2>2. CASE manifest' = None
    BY <1>1, <2>2 DEF ManifestOK, NoticesOK
  <2> QED
    BY <1>1, <2>1, <2>2
<1>5. JobsOK'
  BY <1>1, <1>3, IdleRows, JobsKept
<1> QED
  BY <1>3, <1>4, <1>5 DEF IInv

(***************************************************************************)
(* The invariant.                                                          *)
(***************************************************************************)
LEMMA IInvInit == Init => IInv
<1> SUFFICES ASSUME Init PROVE IInv
  OBVIOUS
<1>1. GroupIds = {} /\ groups \in Seq(Splits) /\ published \in Seq(Values)
  BY DEF Init, GroupIds
<1>2. Tables
  <2>1. overtaken \in BOOLEAN
    BY DEF Init
  <2> QED
    BY <1>1, <2>1 DEF Init, Tables
<1>3. ManifestOK /\ NoticesOK
  BY DEF Init, ManifestOK, NoticesOK
<1>4. \A j \in Jobs : job[j] = Idle
  BY DEF Init
<1>5. JobsOK
  BY <1>4, IdleOK, IdleRows DEF Init, JobsOK
<1> QED
  BY <1>2, <1>3, <1>5 DEF IInv

LEMMA WorkStep ==
  ASSUME IInv, NEW j \in Jobs, Work(j)
  PROVE  IInv'
<1>1. CASE DeliverFails(j)
  <2>1. Stop(j) /\ UNCHANGED <<tables, answer, stores, faults>>
    BY <1>1 DEF DeliverFails
  <2> QED
    BY <2>1, StopStep DEF IInv, Tables
<1> QED
  BY <1>1, AskStep, ProbeEndsStep, ReshareManifestStep, FetchEndsStep, PingEndsStep,
     DeliverStep, CommitStep DEF Work

LEMMA EnvironmentStep ==
  ASSUME IInv, Environment
  PROVE  IInv'
<1>1. ASSUME NEW j \in Jobs, DirectoryFails(j) PROVE IInv'
  <2>1. Stop(j) /\ UNCHANGED <<tables, answer, stores>> /\ faults' \in Nat
    BY <1>1 DEF DirectoryFails, Fault, IInv, Tables
  <2> QED
    BY <2>1, StopStep DEF IInv, Tables
<1> QED
  BY <1>1, TimeoutStep, NoticeStep, NodeStep, RestartStep DEF Environment

LEMMA StutterStep ==
  ASSUME IInv, UNCHANGED vars
  PROVE  IInv'
<1>1. Grows /\ Tables' /\ ManifestOK' /\ NoticesOK'
  BY TablesKept DEF vars, tables, IInv, Tables
<1>2. JobsOK'
  BY <1>1, JobsKept DEF vars, IInv, JobsOK
<1> QED
  BY <1>1, <1>2 DEF IInv

LEMMA IInvNext == IInv /\ [Next]_vars => IInv'
<1> SUFFICES ASSUME IInv, [Next]_vars PROVE IInv'
  OBVIOUS
<1>1. CASE Commands
  BY <1>1, StoreStep, BackupStep, ReconstructStep DEF Commands
<1>2. ASSUME NEW j \in Jobs, Heal(j) \/ ForceReshareOwned(j) \/ Work(j)
      PROVE  IInv'
  BY <1>2, HealStep, WorkStep
<1>3. CASE Environment
  BY <1>3, EnvironmentStep
<1>4. CASE UNCHANGED vars
  BY <1>4, StutterStep
<1> QED
  BY <1>1, <1>2, <1>3, <1>4 DEF Next

LEMMA Inductive == Spec => []IInv
  BY IInvInit, IInvNext, PTL DEF Spec

(* The state keeps its types, and no goroutine, manifest or notice names a *)
(* group that was not created (client/split.go, selfheal.go).              *)
THEOREM TypeCorrect == Spec => []TypeOK
<1>1. IInv => TypeOK
  <2> SUFFICES ASSUME IInv PROVE TypeOK
    OBVIOUS
  <2>1. manifest \in GroupIds \cup {None} /\ notices \subseteq GroupIds
    BY DEF IInv, ManifestOK, NoticesOK, Sound
  <2>2. \A j \in Jobs : {job[j].m, job[j].from, job[j].g} \subseteq GroupIds \cup {None}
    BY DEF IInv, JobsOK, RowOK
  <2> QED
    BY <2>1, <2>2 DEF IInv, Tables, JobsOK, TypeOK
<1> QED
  BY <1>1, Inductive, PTL

(* Whatever aborts, times out, restarts, races or is written back late, the *)
(* manifest names a split of at least Threshold members of which Threshold *)
(* hold their shares, as long as disks lost leave that many                *)
(* (PutManifest comes last in Split and distributeBackup).                 *)
THEOREM RecoverableAlways == Spec => []Recoverable
<1>1. ASSUME NEW g, Tables, Sound(g)
      PROVE  /\ Cardinality(Members(g)) >= Threshold
             /\ Cardinality(Losers(g)) <= Cardinality(Members(g)) - Threshold
                  => Cardinality(Holders(g)) >= Threshold
  <2>1. IsFiniteSet(Members(g))
    BY <1>1, MembersType DEF Sound
  <2>2. Members(g) = Holders(g) \cup Losers(g)
    BY <1>1 DEF Sound, Covered, Holders, Losers
  <2>3. IsFiniteSet(Holders(g)) /\ IsFiniteSet(Losers(g))
    BY <2>1, FS_Subset DEF Holders, Losers
  <2>4. IsFiniteSet(Holders(g) \cap Losers(g))
    BY <2>3, FS_Subset
  <2>5. Cardinality(Members(g)) =
          Cardinality(Holders(g)) + Cardinality(Losers(g))
          - Cardinality(Holders(g) \cap Losers(g))
    BY <2>2, <2>3, FS_Union
  <2>6. /\ Cardinality(Members(g)) \in Nat /\ Cardinality(Holders(g)) \in Nat
        /\ Cardinality(Losers(g)) \in Nat
        /\ Cardinality(Holders(g) \cap Losers(g)) \in Nat
    BY <2>1, <2>3, <2>4, FS_CardinalityType
  <2>7. Cardinality(Members(g)) >= Threshold
    BY <1>1 DEF Sound, Large
  <2> QED
    BY <2>5, <2>6, <2>7, ThresholdAssumption
<1>2. IInv => Recoverable
  BY <1>1 DEF IInv, ManifestOK, Recoverable
<1> QED
  BY <1>2, Inductive, PTL

(* The manifest's value is one that a successful store or backup command   *)
(* gave, however often it was re-shared and by whom (reshareManifest).     *)
THEOREM OnlyPublishedValuesAlways == Spec => []OnlyPublishedValues
<1>1. IInv => OnlyPublishedValues
  BY DEF IInv, ManifestOK, Sound, Published, OnlyPublishedValues
<1> QED
  BY <1>1, Inductive, PTL

-----------------------------------------------------------------------------
(***************************************************************************)
(* SecretSharing takes only steps of SecretRegister until a command        *)
(* overtakes another goroutine, for every number of peers, tickers and     *)
(* forced re-shares, every fault, timeout and restart, and notices that    *)
(* come at any time.  Until then all of them carry the value in force, so  *)
(* that it makes no difference in which order they write it back.          *)
(*                                                                         *)
(* The run sharing_lost_store shows what happens once one is overtaken.    *)
(***************************************************************************)
Publishing == {"store", "backup"}

(* The register's value and pending request, as the mapping gives them. *)
InForce == IF manifest = None THEN NoValue ELSE groups[manifest].value
Pending(r) == IF r.op \in Publishing THEN r.value ELSE NoValue

(* The value a goroutine that has read the row works with. *)
Carried(r) == IF r.pc = "fetch" THEN groups[r.from].value ELSE r.value

(* Only the command loop publishes, and it does so by splitting. *)
RoleOK(j, r) == r.op \in Publishing => j = Repl /\ r.pc \in {"ping", "deliver"}
Roles == \A j \in Jobs : RoleOK(j, job[j])

InStep(r) == Carries(r) => manifest # None /\ Carried(r) = InForce
Current ==
  ~overtaken => /\ \A j \in Jobs : InStep(job[j])
                /\ \A g \in notices : manifest # None /\ groups[g].value = InForce

HInv == Roles /\ Current

(* Nothing happens to the register, or a request fails. *)
Same == UNCHANGED <<InForce, Pending(job[Repl]), published, answer>>
Failed == /\ UNCHANGED <<InForce, published, answer>>
          /\ Pending(job[Repl]) # NoValue /\ Pending(job[Repl])' = NoValue

LEMMA SameStep == Same => UNCHANGED Register!register
  BY DEF Same, InForce, Pending, Publishing, Register!register

LEMMA FailedStep == Failed => Register!Next
  BY DEF Failed, InForce, Pending, Publishing, Register!Next, Register!Fail

LEMMA InForceKept ==
  ASSUME IInv, Grows, manifest' = manifest
  PROVE  InForce' = InForce
BY DEF IInv, ManifestOK, Sound, InForce, Grows

(* What a goroutine carries does not change while others work. *)
LEMMA CarriedKept ==
  ASSUME IInv, Grows, NEW r, RowOK(r), Carries(r)
  PROVE  Carried(r)' = Carried(r)
BY DEF Carried, RowOK, Grows

LEMMA InStepKept ==
  ASSUME IInv, Grows, manifest' = manifest, NEW r, RowOK(r), InStep(r)
  PROVE  InStep(r)'
<1>1. InForce' = InForce
  BY InForceKept
<1>2. CASE Carries(r)
  BY <1>1, <1>2, CarriedKept DEF InStep
<1>3. CASE ~Carries(r)
  BY <1>3 DEF InStep, Carries
<1> QED
  BY <1>2, <1>3

LEMMA IdleInStep ==
  ASSUME NEW j
  PROVE  RoleOK(j, Idle) /\ ~Carries(Idle) /\ Pending(Idle) = NoValue
BY DEF Idle, RoleOK, Carries, Pending, Publishing

(* The rows of the next state, one by one. *)
LEMMA RowInStep ==
  ASSUME NEW k \in Jobs, NEW r, r = job'[k], RoleOK(k, r), InStep(r)'
  PROVE  RoleOK(k, job[k])' /\ InStep(job[k])'
BY DEF RoleOK, InStep, Carries, Carried

(* The manifest stays and no row or notice falls out of step. *)
LEMMA KeepsStep ==
  ASSUME IInv, HInv, Grows, manifest' = manifest, notices' \subseteq notices,
         overtaken' = overtaken,
         \A k \in Jobs : RoleOK(k, job'[k]),
         ~overtaken => \A k \in Jobs : InStep(job[k])'
  PROVE  HInv' /\ InForce' = InForce
<1>1. InForce' = InForce
  BY InForceKept
<1>2. Roles'
  BY DEF Roles, RoleOK
<1>3. ASSUME ~overtaken, NEW g \in notices'
      PROVE  manifest' # None /\ (groups[g].value)' = InForce'
  <2>1. g \in GroupIds /\ groups[g].value = InForce /\ manifest # None
    BY <1>3 DEF HInv, Current, IInv, NoticesOK, Sound
  <2> QED
    BY <1>1, <2>1 DEF Grows
<1> QED
  BY <1>1, <1>2, <1>3 DEF HInv, Current

(* A goroutine moves from one row to another. *)
LEMMA RowMoves ==
  ASSUME IInv, HInv, Grows, manifest' = manifest, notices' \subseteq notices,
         overtaken' = overtaken, UNCHANGED published,
         NEW j \in Jobs, NEW new, Become(j, new), RoleOK(j, new),
         ~overtaken => InStep(new)'
  PROVE  /\ HInv' /\ InForce' = InForce /\ job'[j] = new
         /\ j # Repl => Pending(job[Repl])' = Pending(job[Repl])
<1>1. job'[j] = new /\ \A k \in Jobs : k # j => job'[k] = job[k]
  BY DEF Become, IInv, JobsOK
<1>2. \A k \in Jobs : RoleOK(k, job'[k])
  BY <1>1 DEF HInv, Roles
<1>3. ASSUME ~overtaken, NEW k \in Jobs PROVE InStep(job[k])'
  <2>1. PICK r : r = job'[k]
    OBVIOUS
  <2>2. CASE k = j
    BY <1>1, <1>3, <2>1, <2>2, RowInStep
  <2>3. CASE k # j
    <3>1. r = job[k] /\ RowOK(r) /\ InStep(r)
      BY <1>1, <1>3, <2>1, <2>3 DEF HInv, Current, IInv, JobsOK
    <3>2. InStep(r)' /\ RoleOK(k, r)
      BY <1>2, <2>1, <3>1, InStepKept
    <3> QED
      BY <2>1, <3>2, RowInStep
  <2> QED
    BY <2>2, <2>3
<1>4. j # Repl => job'[Repl] = job[Repl]
  BY <1>1 DEF Jobs
<1>5. j # Repl => Pending(job[Repl])' = Pending(job[Repl])
  BY <1>4 DEF Pending
<1> QED
  BY <1>1, <1>2, <1>3, <1>5, KeepsStep

(* ... and the register does not notice. *)
LEMMA MovesSame ==
  ASSUME IInv, HInv, Grows, manifest' = manifest, notices' \subseteq notices,
         overtaken' = overtaken, UNCHANGED <<published, answer>>,
         NEW j \in Jobs, NEW old, old = job[j], NEW new, Become(j, new),
         RoleOK(j, new), ~overtaken => InStep(new)', Pending(new) = Pending(old)
  PROVE  HInv' /\ Same
<1>1. /\ HInv' /\ InForce' = InForce /\ job'[j] = new
      /\ j # Repl => Pending(job[Repl])' = Pending(job[Repl])
  BY RowMoves
<1>2. j = Repl => Pending(job[Repl])' = Pending(job[Repl])
  BY <1>1 DEF Pending
<1> QED
  BY <1>1, <1>2 DEF Same

(* A goroutine gives up: if it was to publish, its request fails. *)
LEMMA GivesUp ==
  ASSUME IInv, HInv, Grows, manifest' = manifest, notices' \subseteq notices,
         overtaken' = overtaken, UNCHANGED <<published, answer>>,
         NEW j \in Jobs, Stop(j)
  PROVE  HInv' /\ (Same \/ Failed)
<1>1. PICK new : new = Idle
  OBVIOUS
<1>2. RoleOK(j, new) /\ ~Carries(new) /\ Pending(new) = NoValue
  BY <1>1, IdleInStep
<1>3. InStep(new)'
  BY <1>2 DEF InStep, Carries
<1>4. Become(j, new)
  BY <1>1 DEF Stop
<1>5. /\ HInv' /\ InForce' = InForce /\ job'[j] = new
      /\ j # Repl => Pending(job[Repl])' = Pending(job[Repl])
  BY <1>2, <1>3, <1>4, RowMoves
<1>6. j = Repl => Pending(job[Repl])' = NoValue
  BY <1>2, <1>5 DEF Pending
<1> QED
  BY <1>5, <1>6 DEF Same, Failed

(***************************************************************************)
(* The commands.                                                           *)
(***************************************************************************)
LEMMA Started ==
  ASSUME IInv, HInv, Grows, manifest' = manifest, notices' = notices,
         overtaken' = overtaken, UNCHANGED <<published, answer>>,
         job[Repl].pc = "idle", NEW v \in Values,
         NEW new, Become(Repl, new), new.op \in Publishing,
         new.pc \in {"ping", "deliver"}, new.value = v
  PROVE  HInv' /\ Register!Request(v)
<1>1. Repl \in Jobs
  BY DEF Jobs
<1>2. RoleOK(Repl, new) /\ ~Carries(new) /\ Pending(new) = v
  BY DEF RoleOK, Carries, Pending, Publishing
<1>3. InStep(new)'
  BY <1>2 DEF InStep, Carries
<1>4. HInv' /\ InForce' = InForce /\ job'[Repl] = new
  BY <1>1, <1>2, <1>3, RowMoves
<1>5. Pending(job[Repl]) = NoValue
  BY <1>1 DEF HInv, Roles, RoleOK, Pending
<1>6. Pending(job[Repl])' = v
  BY <1>2, <1>4 DEF Pending
<1>7. Register!Request(v)
  BY <1>4, <1>5, <1>6 DEF Register!Request, InForce, Pending, Publishing
<1> QED
  BY <1>4, <1>7

LEMMA StoreImplements ==
  ASSUME IInv, HInv, NEW v \in Values, Store(v), overtaken' = overtaken
  PROVE  HInv' /\ Register!Request(v)
<1>1. Grows
  BY TablesKept DEF Store, IInv, Tables
<1>2. PICK new : new = [Idle EXCEPT !.pc = "ping", !.op = "store", !.value = v]
  OBVIOUS
<1>3. new.pc = "ping" /\ new.op = "store" /\ new.value = v
  BY <1>2 DEF Idle
<1>4. Become(Repl, new)
  BY <1>2 DEF Store
<1> QED
  BY <1>1, <1>3, <1>4, Started DEF Store, tables, Publishing

LEMMA OpenGrows ==
  ASSUME IInv, NEW j, NEW op, NEW kind, NEW v, NEW members,
         Open(j, op, kind, v, members), UNCHANGED <<held, lost, published>>
  PROVE  Grows
<1> DEFINE split == [kind |-> kind, value |-> v, members |-> members]
<1>1. PICK n \in Nat : n = Len(groups)
  BY DEF IInv, Tables
<1>2. groups' = Append(groups, split) /\ groups \in Seq(Splits)
  BY DEF Open, IInv, Tables
<1> HIDE DEF split
<1>3. Len(groups') = n + 1 /\ \A g \in 1 .. n : groups'[g] = groups[g]
  BY <1>1, <1>2
<1> QED
  BY <1>1, <1>3 DEF Grows, GroupIds, Published

(* The row of a goroutine that has opened a split. *)
LEMMA OpenRow ==
  ASSUME IInv, NEW j \in Jobs, NEW op, NEW kind, NEW v, NEW members,
         Open(j, op, kind, v, members)
  PROVE  \E new : /\ Become(j, new) /\ new.pc = "deliver" /\ new.op = op
                  /\ new.value = v
<1>1. PICK new : new = [Idle EXCEPT !.pc = "deliver", !.op = op, !.kind = kind,
                                    !.value = v, !.g = Len(groups) + 1, !.to = members]
  OBVIOUS
<1>2. new.pc = "deliver" /\ new.op = op /\ new.value = v
  BY <1>1 DEF Idle
<1>3. Become(j, new)
  BY <1>1 DEF Open
<1> QED
  BY <1>2, <1>3

LEMMA BackupImplements ==
  ASSUME IInv, HInv, NEW v \in Values, Backup(v), overtaken' = overtaken
  PROVE  HInv' /\ Register!Request(v)
<1>1. /\ UNCHANGED <<manifest, held, lost, notices, published, answer>>
      /\ job[Repl].pc = "idle" /\ Open(Repl, "backup", "backup", v, Mesh)
  BY DEF Backup
<1>2. Grows
  BY <1>1, OpenGrows
<1>3. PICK new : /\ Become(Repl, new) /\ new.pc = "deliver" /\ new.op = "backup"
                 /\ new.value = v
  BY <1>1, OpenRow DEF Jobs
<1> QED
  BY <1>1, <1>2, <1>3, Started DEF Publishing

LEMMA ReconstructSame ==
  ASSUME IInv, HInv, Reconstruct, overtaken' = overtaken
  PROVE  HInv' /\ Same
<1>1. Grows
  BY TablesKept DEF Reconstruct, IInv, Tables
<1>2. PICK old : old = job[Repl] /\ old.pc = "idle"
  BY DEF Reconstruct
<1>3. PICK new : new = [Idle EXCEPT !.pc = "fetch", !.op = "read", !.from = manifest]
  OBVIOUS
<1>4. new.pc = "fetch" /\ new.op = "read" /\ new.from = manifest
  BY <1>3 DEF Idle
<1>5. Repl \in Jobs /\ Become(Repl, new) /\ manifest # None
  BY <1>3 DEF Reconstruct, Jobs
<1>6. RoleOK(Repl, new) /\ Pending(new) = NoValue /\ Pending(old) = NoValue
  BY <1>2, <1>4, <1>5 DEF RoleOK, Pending, Publishing, HInv, Roles
<1>7. InStep(new)
  BY <1>4, <1>5 DEF InStep, Carried, InForce
<1>8. UNCHANGED <<groups, manifest>>
  BY DEF Reconstruct, tables
<1>9. InStep(new)'
  BY <1>7, <1>8 DEF InStep, Carried, Carries, InForce
<1> QED
  BY <1>1, <1>2, <1>5, <1>6, <1>9, MovesSame DEF Reconstruct, tables

(* Healing and forced re-sharing begin, or end a probe. *)
LEMMA HealSame ==
  ASSUME IInv, HInv, overtaken' = overtaken,
         NEW j \in Jobs, Heal(j) \/ ForceReshareOwned(j) \/ ProbeEnds(j)
  PROVE  HInv' /\ Same
<1>1. UNCHANGED <<tables, answer, stores, faults>>
  BY DEF Heal, ForceReshareOwned, ProbeEnds
<1>2. Grows
  BY <1>1, TablesKept DEF IInv, Tables
<1>3. PICK old : old = job[j] /\ old.pc \in {"idle", "probe"}
  BY DEF Heal, ForceReshareOwned, ProbeEnds
<1>4. Pending(old) = NoValue
  BY <1>3 DEF Pending, Publishing, HInv, Roles, RoleOK
<1>5. PICK new : /\ Become(j, new)
                 /\ new.pc \in {"idle", "probe", "reshare"} /\ new.op \notin Publishing
  <2>1. CASE Stop(j)
    BY <2>1 DEF Stop, Idle, Publishing
  <2>2. ASSUME NEW pc \in {"probe", "reshare"}, NEW op \in {"heal", "force"}, NEW m,
               Become(j, [Idle EXCEPT !.pc = pc, !.op = op, !.m = m])
        PROVE  \E new : /\ Become(j, new)
                        /\ new.pc \in {"idle", "probe", "reshare"}
                        /\ new.op \notin Publishing
    <3>1. PICK new : new = [Idle EXCEPT !.pc = pc, !.op = op, !.m = m]
      OBVIOUS
    <3>2. new.pc \in {"probe", "reshare"} /\ new.op \notin Publishing
      BY <3>1 DEF Idle, Publishing
    <3>3. Become(j, new)
      BY <2>2, <3>1
    <3> QED
      BY <3>2, <3>3
  <2>3. CASE Heal(j)
    BY <2>2, <2>3 DEF Heal
  <2>4. CASE ForceReshareOwned(j)
    BY <2>2, <2>4 DEF ForceReshareOwned
  <2>5. CASE ProbeEnds(j)
    BY <2>1, <2>2, <2>5 DEF ProbeEnds
  <2> QED
    BY <2>3, <2>4, <2>5
<1>6. RoleOK(j, new) /\ Pending(new) = NoValue /\ ~Carries(new)
  BY <1>5 DEF RoleOK, Pending, Carries
<1>7. InStep(new)'
  BY <1>6 DEF InStep, Carries
<1> QED
  BY <1>1, <1>2, <1>3, <1>4, <1>5, <1>6, <1>7, MovesSame DEF tables

(***************************************************************************)
(* The steps of a goroutine.                                               *)
(***************************************************************************)
LEMMA AskSame ==
  ASSUME IInv, HInv, overtaken' = overtaken, NEW j \in Jobs, NEW n \in Nodes, Ask(j, n)
  PROVE  HInv' /\ Same
<1>1. UNCHANGED <<tables, answer, stores, faults>>
  BY DEF Ask
<1>2. Grows
  BY <1>1, TablesKept DEF IInv, Tables
<1>3. PICK old : old = job[j]
  OBVIOUS
<1>4. old \in Rows
  BY <1>3 DEF IInv, JobsOK
<1>5. PICK got : Become(j, [old EXCEPT !.asked = @ \cup {n}, !.got = got])
  BY <1>3 DEF Ask
<1>6. PICK new : new = [old EXCEPT !.asked = @ \cup {n}, !.got = got]
  OBVIOUS
<1>7. new.pc = old.pc /\ new.op = old.op /\ new.from = old.from /\ new.value = old.value
  BY <1>4, <1>6 DEF Rows
<1>8. RoleOK(j, new) /\ Pending(new) = Pending(old)
  BY <1>3, <1>7 DEF RoleOK, Pending, HInv, Roles
<1>9. ~overtaken => InStep(new)
  BY <1>3, <1>7 DEF InStep, Carries, Carried, HInv, Current
<1>10. ~overtaken => InStep(new)'
  BY <1>1, <1>9 DEF InStep, Carries, Carried, InForce, tables
<1> QED
  BY <1>1, <1>2, <1>3, <1>5, <1>6, <1>8, <1>10, MovesSame DEF tables

LEMMA ReshareManifestSame ==
  ASSUME IInv, HInv, overtaken' = overtaken, NEW j \in Jobs, ReshareManifest(j)
  PROVE  HInv' /\ Same
<1>1. UNCHANGED <<tables, answer, stores, faults>>
  BY DEF ReshareManifest
<1>2. Grows
  BY <1>1, TablesKept DEF IInv, Tables
<1>3. PICK old : old = job[j] /\ old.pc = "reshare"
  BY DEF ReshareManifest
<1>4. old.op \notin Publishing /\ Pending(old) = NoValue
  BY <1>3 DEF Pending, HInv, Roles, RoleOK
<1>5. PICK new : /\ Become(j, new) /\ new.op \notin Publishing
                 /\ InStep(new)
  <2>1. CASE manifest = None
    <3>1. PICK new : new = Idle
      OBVIOUS
    <3>2. ~Carries(new) /\ new.op \notin Publishing
      BY <3>1, IdleInStep DEF Idle, Publishing
    <3> QED
      BY <2>1, <3>1, <3>2 DEF ReshareManifest, Stop, InStep
  <2>2. CASE manifest # None
    <3>1. PICK new : new = [Idle EXCEPT !.pc = "fetch", !.op = old.op, !.m = old.m,
                                        !.from = manifest]
      OBVIOUS
    <3>2. new.pc = "fetch" /\ new.op = old.op /\ new.from = manifest
      BY <3>1 DEF Idle
    <3>3. Become(j, new)
      BY <1>3, <2>2, <3>1 DEF ReshareManifest, ReadManifest
    <3> QED
      BY <1>4, <2>2, <3>2, <3>3 DEF InStep, Carried, InForce
  <2> QED
    BY <2>1, <2>2
<1>6. RoleOK(j, new) /\ Pending(new) = Pending(old)
  BY <1>4, <1>5 DEF RoleOK, Pending
<1>7. InStep(new)'
  BY <1>1, <1>5 DEF InStep, Carries, Carried, InForce, tables
<1> QED
  BY <1>1, <1>2, <1>3, <1>5, <1>6, <1>7, MovesSame DEF tables

(* Reconstruct ends: it answers what it carried, or passes it on. *)
LEMMA FetchEndsImplements ==
  ASSUME IInv, HInv, overtaken' = overtaken, NEW j \in Jobs, FetchEnds(j)
  PROVE  HInv' /\ (Same \/ overtaken' \/ Register!Answer)
<1>1. PICK old : old = job[j] /\ old.pc = "fetch"
  BY DEF FetchEnds
<1>2. old.op \notin Publishing /\ Pending(old) = NoValue
  BY <1>1 DEF Pending, HInv, Roles, RoleOK
<1>3. old.from \in GroupIds /\ groups[old.from].value \in Values
  BY <1>1, MembersType DEF IInv, JobsOK, RowOK
<1>4. ~overtaken => manifest # None /\ groups[old.from].value = InForce
  BY <1>1, <1>2 DEF HInv, Current, InStep, Carries, Carried, Publishing
<1>5. answer' \in Values \cup {NoValue} /\ {stores', faults'} \subseteq Nat
  BY <1>1, <1>3 DEF FetchEnds, IInv, Tables
<1>6. UNCHANGED tables /\ Grows
  BY <1>5, TablesKept DEF FetchEnds
<1>7. CASE Stop(j)
  <2>1. PICK new : new = Idle
    OBVIOUS
  <2>2. RoleOK(j, new) /\ ~Carries(new) /\ Pending(new) = NoValue
    BY <2>1, IdleInStep
  <2>3. InStep(new)'
    BY <2>2 DEF InStep, Carries
  <2>4. Become(j, new)
    BY <1>7, <2>1 DEF Stop
  <2>5. /\ HInv' /\ InForce' = InForce /\ job'[j] = new
        /\ j # Repl => Pending(job[Repl])' = Pending(job[Repl])
    BY <1>6, <2>2, <2>3, <2>4, RowMoves DEF tables
  <2>6. Pending(job[Repl])' = Pending(job[Repl])
    BY <1>1, <1>2, <2>2, <2>5 DEF Pending
  <2>7. CASE UNCHANGED answer
    BY <1>6, <2>5, <2>6, <2>7 DEF Same, tables
  <2>8. CASE answer' = groups[old.from].value /\ ~overtaken
    <3>1. answer' = InForce /\ InForce # NoValue
      BY <1>3, <1>4, <2>8, ValuesAssumption
    <3>2. Register!Answer
      BY <1>6, <2>5, <2>6, <3>1 DEF Register!Answer, InForce, Pending, Publishing, tables
    <3> QED
      BY <2>5, <3>2
  <2> QED
    BY <1>1, <2>5, <2>7, <2>8 DEF FetchEnds
<1>8. CASE /\ UNCHANGED answer
           /\ Become(j, [Idle EXCEPT !.pc = "ping", !.op = old.op, !.m = old.m,
                                     !.kind = groups[old.m].kind,
                                     !.value = groups[old.from].value])
  <2>1. PICK new : new = [Idle EXCEPT !.pc = "ping", !.op = old.op, !.m = old.m,
                                      !.kind = groups[old.m].kind,
                                      !.value = groups[old.from].value]
    OBVIOUS
  <2>2. new.pc = "ping" /\ new.op = old.op /\ new.value = groups[old.from].value
    BY <2>1 DEF Idle
  <2>3. RoleOK(j, new) /\ Pending(new) = Pending(old)
    BY <1>2, <2>2 DEF RoleOK, Pending
  <2>4. ~overtaken => InStep(new)
    BY <1>4, <2>2 DEF InStep, Carried
  <2>5. ~overtaken => InStep(new)'
    BY <1>6, <2>4 DEF InStep, Carries, Carried, InForce, tables
  <2>6. Become(j, new)
    BY <1>8, <2>1
  <2> QED
    BY <1>1, <1>6, <1>8, <2>3, <2>5, <2>6, MovesSame DEF tables
<1> QED
  BY <1>1, <1>7, <1>8 DEF FetchEnds

LEMMA PingEndsImplements ==
  ASSUME IInv, HInv, overtaken' = overtaken, NEW j \in Jobs, PingEnds(j)
  PROVE  HInv' /\ (Same \/ Failed)
<1>1. PICK old : old = job[j] /\ old.pc = "ping"
  BY DEF PingEnds
<1>2. UNCHANGED <<manifest, held, lost, up, notices, published, answer>>
  BY DEF PingEnds
<1>3. CASE Stop(j) /\ UNCHANGED groups
  <2>1. Grows
    BY <1>2, <1>3 DEF Grows, GroupIds, Published
  <2> QED
    BY <1>2, <1>3, <2>1, GivesUp
<1>4. CASE \E members : Open(j, old.op, old.kind, old.value, members)
  <2>1. PICK members : Open(j, old.op, old.kind, old.value, members)
    BY <1>4
  <2>2. Grows
    BY <1>2, <2>1, OpenGrows
  <2>3. PICK new : /\ Become(j, new) /\ new.pc = "deliver" /\ new.op = old.op
                   /\ new.value = old.value
    BY <2>1, OpenRow
  <2>4. RoleOK(j, new) /\ Pending(new) = Pending(old)
    BY <1>1, <2>3 DEF RoleOK, Pending, HInv, Roles
  <2>5. ~overtaken => (Carries(new) => manifest # None /\ new.value = InForce)
    BY <1>1, <2>3 DEF HInv, Current, InStep, Carries, Carried
  <2>6. InForce' = InForce
    BY <1>2, <2>2, InForceKept
  <2>7. ~overtaken => InStep(new)'
    BY <1>2, <2>3, <2>5, <2>6 DEF InStep, Carries, Carried
  <2> QED
    BY <1>1, <1>2, <2>2, <2>3, <2>4, <2>7, MovesSame
<1> QED
  BY <1>1, <1>3, <1>4 DEF PingEnds

LEMMA DeliverSame ==
  ASSUME IInv, HInv, overtaken' = overtaken, NEW j \in Jobs, NEW n \in Nodes,
         Deliver(j, n)
  PROVE  HInv' /\ Same
<1>1. PICK old : old = job[j] /\ old.pc = "deliver"
  BY DEF Deliver
<1>2. old \in Rows /\ old.g \in GroupIds
  BY <1>1 DEF IInv, JobsOK, RowOK
<1>3. faults' \in Nat
  BY DEF Deliver, IInv, Tables
<1>4. Grows
  BY <1>1, <1>2, <1>3, AcceptsGrows DEF Deliver
<1>5. PICK new : new = [old EXCEPT !.to = @ \ {n}]
  OBVIOUS
<1>6. new.pc = old.pc /\ new.op = old.op /\ new.from = old.from /\ new.value = old.value
  BY <1>2, <1>5 DEF Rows
<1>7. RoleOK(j, new) /\ Pending(new) = Pending(old)
  BY <1>1, <1>6 DEF RoleOK, Pending, HInv, Roles
<1>8. ~overtaken => InStep(new)
  BY <1>1, <1>6 DEF InStep, Carries, Carried, HInv, Current
<1>9. ~overtaken => InStep(new)'
  BY <1>8 DEF Deliver, InStep, Carries, Carried, InForce
<1>10. Become(j, new)
  BY <1>1, <1>5 DEF Deliver
<1> QED
  BY <1>1, <1>4, <1>7, <1>9, <1>10, MovesSame DEF Deliver

(* Failures that only end what the goroutine was at. *)
LEMMA FailureFails ==
  ASSUME IInv, HInv, overtaken' = overtaken, NEW j \in Jobs,
         \/ DeliverFails(j)
         \/ DirectoryFails(j)
         \/ \E n \in Peers : DeliverTimesOut(j, n)
  PROVE  HInv' /\ (Same \/ Failed)
<1>1. Stop(j) /\ UNCHANGED <<groups, manifest, lost, notices, published, answer>>
  BY DEF DeliverFails, DirectoryFails, DeliverTimesOut, tables
<1>2. \A k \in Nodes : held[k] \cup lost[k] \subseteq held'[k] \cup lost'[k]
  <2>1. CASE UNCHANGED <<held, lost>>
    BY <2>1
  <2>2. CASE UNCHANGED lost /\ \E n \in Peers : Accepts(n, job[j].g)
    BY <2>2 DEF Accepts, IInv, Tables
  <2> QED
    BY <2>1, <2>2 DEF DeliverFails, DirectoryFails, DeliverTimesOut, tables
<1>3. Grows
  BY <1>1, <1>2 DEF Grows, GroupIds, Published
<1> QED
  BY <1>1, <1>3, GivesUp

(***************************************************************************)
(* The steps that write the manifest.                                      *)
(***************************************************************************)

(* What holds of every goroutine's row in the next state. *)
LEMMA RowsInStep ==
  ASSUME \A k \in Jobs : RoleOK(k, job'[k]),
         ~overtaken' => \A k \in Jobs : InStep(job[k])',
         ~overtaken' => \A g \in notices' : manifest' # None /\ (groups[g].value)' = InForce'
  PROVE  HInv'
<1>1. Roles'
  BY DEF Roles, RoleOK
<1> QED
  BY <1>1 DEF HInv, Current

LEMMA CommitImplements ==
  ASSUME IInv, HInv, NEW j \in Jobs, Commit(j)
  PROVE  HInv' /\ (Same \/ overtaken' \/ Register!Commit)
<1>1. PICK old : old = job[j] /\ old.pc = "deliver"
  BY DEF Commit
<1>2. /\ old.g \in GroupIds /\ groups[old.g].value = old.value /\ old.value \in Values
      /\ old.g # None
  BY <1>1 DEF IInv, JobsOK, RowOK, GroupIds, None
<1>3. /\ manifest' = old.g /\ UNCHANGED <<groups, notices, answer>>
      /\ published' = IF old.op \in Publishing THEN Append(published, old.value)
                      ELSE published
      /\ job'[j] = Idle /\ \A k \in Jobs : k # j => job'[k] = job[k]
  BY <1>1 DEF Commit, Stop, Become, IInv, JobsOK, Publishing
<1>4. InForce' = old.value /\ manifest' # None
  BY <1>2, <1>3 DEF InForce
<1>5. \A k \in Jobs : RoleOK(k, job'[k]) /\ (Carries(job'[k]) => k # j /\ job'[k] = job[k])
  BY <1>3, IdleInStep DEF HInv, Roles
<1>6. CASE old.op \in Publishing
  <2>1. j = Repl /\ Pending(job[Repl]) = old.value /\ old.value # NoValue
    BY <1>1, <1>2, <1>6, ValuesAssumption DEF Pending, HInv, Roles, RoleOK
  <2>2. published' = Append(published, old.value) /\ published' # published
    BY <1>2, <1>3, <1>6 DEF IInv, Tables
  <2>3. Pending(job[Repl])' = NoValue
    BY <1>3, <2>1 DEF Pending, Publishing, Idle
  <2>4. Register!Commit
    BY <1>3, <1>4, <2>1, <2>2, <2>3 DEF Register!Commit, InForce, Pending, Publishing
  <2>5. ~overtaken' => notices = {} /\ \A k \in Jobs : ~Carries(job[k])
    BY <2>2 DEF Commit, Overtakes
  <2>6. ASSUME ~overtaken', NEW k \in Jobs PROVE InStep(job[k])'
    <3>1. PICK r : r = job'[k]
      OBVIOUS
    <3>2. ~Carries(r)
      BY <1>5, <2>5, <2>6, <3>1
    <3>3. InStep(r)'
      BY <3>2 DEF InStep, Carries
    <3> QED
      BY <1>5, <3>1, <3>3, RowInStep
  <2>7. HInv'
    BY <1>3, <1>5, <2>5, <2>6, RowsInStep
  <2> QED
    BY <2>4, <2>7
<1>7. CASE old.op \notin Publishing
  <2>1. published' = published /\ overtaken' = overtaken
    BY <1>3, <1>7 DEF Commit, Overtakes, IInv, Tables
  <2>2. Pending(job[Repl])' = Pending(job[Repl])
    <3>1. CASE j = Repl
      BY <1>1, <1>3, <1>7, <3>1 DEF Pending, Publishing, Idle
    <3>2. CASE j # Repl
      <4>1. job'[Repl] = job[Repl]
        BY <1>3, <3>2 DEF Jobs
      <4> QED
        BY <4>1 DEF Pending
    <3> QED
      BY <3>1, <3>2
  <2>3. ~overtaken => InForce' = InForce
    BY <1>1, <1>4, <1>7 DEF HInv, Current, InStep, Carries, Carried, Publishing
  <2>4. ASSUME ~overtaken', NEW k \in Jobs PROVE InStep(job[k])'
    <3>1. PICK r : r = job'[k]
      OBVIOUS
    <3>2. CASE Carries(r)
      <4>1. r = job[k] /\ Carried(r) = InForce
        BY <1>5, <2>1, <2>4, <3>1, <3>2 DEF HInv, Current, InStep
      <4>2. Carried(r)' = Carried(r)
        BY <1>3 DEF Carried
      <4>3. InStep(r)'
        BY <1>4, <2>1, <2>3, <2>4, <4>1, <4>2 DEF InStep
      <4> QED
        BY <1>5, <3>1, <4>3, RowInStep
    <3>3. CASE ~Carries(r)
      <4>1. InStep(r)'
        BY <3>3 DEF InStep, Carries
      <4> QED
        BY <1>5, <3>1, <4>1, RowInStep
    <3> QED
      BY <3>2, <3>3
  <2>5. ~overtaken' => \A g \in notices' : manifest' # None /\ (groups[g].value)' = InForce'
    BY <1>3, <1>4, <2>1, <2>3 DEF HInv, Current
  <2>6. HInv'
    BY <1>5, <2>4, <2>5, RowsInStep
  <2> QED
    BY <1>3, <2>1, <2>2, <2>3, <2>6 DEF Same
<1> QED
  BY <1>6, <1>7

(* A notice writes back the row it read. *)
LEMMA NoticeSame ==
  ASSUME IInv, HInv, overtaken' = overtaken,
         \/ \E n \in Peers : NoticeRead(n)
         \/ \E g \in notices : NoticeWrite(g)
  PROVE  HInv' /\ (Same \/ overtaken')
<1>1. UNCHANGED <<groups, held, lost, up, job, published, answer, stores, faults>>
  BY DEF NoticeRead, NoticeWrite
<1>2. ~overtaken => InForce' = InForce /\ (manifest # None => manifest' # None)
  <2>1. CASE manifest' = manifest
    BY <1>1, <2>1 DEF InForce
  <2>2. ASSUME NEW g \in notices, manifest' = g, ~overtaken
        PROVE  InForce' = InForce /\ manifest' # None
    <3>1. g # None /\ groups[g].value = InForce
      BY <2>2 DEF HInv, Current, IInv, NoticesOK, Sound, GroupIds, None
    <3> QED
      BY <1>1, <2>2, <3>1 DEF InForce
  <2> QED
    BY <2>1, <2>2 DEF NoticeRead, NoticeWrite
<1>3. ASSUME NEW k \in Jobs PROVE RoleOK(k, job'[k])
  BY <1>1 DEF HInv, Roles
<1>4. ASSUME ~overtaken', NEW k \in Jobs PROVE InStep(job[k])'
  BY <1>1, <1>2, <1>4 DEF HInv, Current, InStep, Carries, Carried
<1>5. ASSUME ~overtaken', NEW g \in notices'
      PROVE  manifest' # None /\ (groups[g].value)' = InForce'
  <2>1. CASE g \in notices
    BY <1>1, <1>2, <1>5, <2>1 DEF HInv, Current
  <2>2. CASE g = manifest /\ manifest # None
    BY <1>1, <1>2, <1>5, <2>2 DEF InForce
  <2> QED
    BY <2>1, <2>2 DEF NoticeRead, NoticeWrite
<1>6. HInv'
  BY <1>3, <1>4, <1>5, RowsInStep
<1> QED
  BY <1>1, <1>2, <1>6 DEF Same, Pending

(* A restart ends every goroutine and handler; the device takes the row    *)
(* with it.                                                                *)
LEMMA RestartFails ==
  ASSUME IInv, HInv, overtaken' = overtaken, OwnerRestarts \/ DeviceLost
  PROVE  HInv' /\ (Same \/ Failed \/ DeviceLost)
<1>1. /\ UNCHANGED <<groups, published, answer>> /\ notices' = {}
      /\ \A k \in Jobs : job'[k] = Idle
  BY DEF OwnerRestarts, DeviceLost
<1>2. ASSUME NEW k \in Jobs PROVE RoleOK(k, job'[k]) /\ InStep(job[k])'
  <2>1. PICK r : r = job'[k]
    OBVIOUS
  <2>2. RoleOK(k, r) /\ ~Carries(r)
    BY <1>1, <2>1, IdleInStep
  <2>3. InStep(r)'
    BY <2>2 DEF InStep, Carries
  <2> QED
    BY <2>1, <2>2, <2>3, RowInStep
<1>3. HInv'
  BY <1>1, <1>2, RowsInStep
<1>4. CASE OwnerRestarts
  <2>1. InForce' = InForce
    BY <1>1, <1>4 DEF OwnerRestarts, InForce
  <2>2. Pending(job[Repl])' = NoValue
    <3>1. job'[Repl] = Idle
      BY <1>1 DEF Jobs
    <3> QED
      BY <3>1 DEF Pending, Publishing, Idle
  <2> QED
    BY <1>1, <1>3, <2>1, <2>2 DEF Same, Failed
<1> QED
  BY <1>3, <1>4

(***************************************************************************)
(* Everything else, and the theorem.                                       *)
(***************************************************************************)
LEMMA NodeSame ==
  ASSUME IInv, HInv, overtaken' = overtaken,
         \/ \E n \in Peers : GoesDown(n) \/ ComesUp(n) \/ DiskLost(n)
         \/ UNCHANGED vars
  PROVE  HInv' /\ Same
<1>1. UNCHANGED <<groups, manifest, job, notices, published, answer>>
  BY DEF GoesDown, ComesUp, DiskLost, vars
<1> QED
  BY <1>1 DEF HInv, Roles, RoleOK, Current, InStep, Carries, Carried, Same, InForce, Pending

Implements == overtaken' \/ DeviceLost \/ [Register!Next]_(Register!register)

LEMMA StepImplements == IInv /\ HInv /\ [Next]_vars => HInv' /\ Implements
<1> SUFFICES ASSUME IInv, HInv, [Next]_vars PROVE HInv' /\ Implements
  OBVIOUS
<1>1. Same \/ Failed \/ overtaken' \/ DeviceLost \/ Register!Next => Implements
  BY SameStep, FailedStep DEF Implements
<1>2. CASE Commands
  <2>1. overtaken' = overtaken
    BY <1>2 DEF Commands, Store, Backup, Reconstruct, tables
  <2> QED
    BY <1>1, <1>2, <2>1, StoreImplements, BackupImplements, ReconstructSame
       DEF Commands, Register!Next
<1>3. ASSUME NEW j \in Jobs, Heal(j) \/ ForceReshareOwned(j) \/ Work(j)
      PROVE  HInv' /\ Implements
  <2>1. CASE Commit(j)
    BY <1>1, <2>1, CommitImplements DEF Register!Next
  <2>2. ASSUME ~Commit(j) PROVE overtaken' = overtaken
    BY <1>3, <2>2 DEF Work, Heal, ForceReshareOwned, Ask, ProbeEnds, ReshareManifest,
       FetchEnds, PingEnds, Deliver, DeliverFails, tables
  <2>3. CASE ~Commit(j) /\ (Heal(j) \/ ForceReshareOwned(j) \/ ProbeEnds(j))
    BY <1>1, <2>2, <2>3, HealSame
  <2>4. CASE ~Commit(j) /\ (ReshareManifest(j) \/ DeliverFails(j) \/ PingEnds(j))
    BY <1>1, <2>2, <2>4, ReshareManifestSame, FailureFails, PingEndsImplements
  <2>5. CASE ~Commit(j) /\ FetchEnds(j)
    BY <1>1, <2>2, <2>5, FetchEndsImplements DEF Register!Next
  <2>6. CASE ~Commit(j) /\ \E n \in Nodes : Ask(j, n) \/ Deliver(j, n)
    BY <1>1, <2>2, <2>6, AskSame, DeliverSame
  <2> QED
    BY <1>3, <2>1, <2>3, <2>4, <2>5, <2>6 DEF Work
<1>4. CASE Environment
  <2>1. overtaken' = overtaken
    BY <1>4 DEF Environment, DirectoryFails, DeliverTimesOut, NoticeRead, NoticeWrite,
       GoesDown, ComesUp, DiskLost, OwnerRestarts, DeviceLost, tables
  <2>2. ASSUME NEW j \in Jobs, DirectoryFails(j) \/ \E n \in Peers : DeliverTimesOut(j, n)
        PROVE  HInv' /\ Implements
    BY <1>1, <2>1, <2>2, FailureFails
  <2>3. CASE OwnerRestarts \/ DeviceLost
    BY <1>1, <2>1, <2>3, RestartFails
  <2>4. CASE \E n \in Peers : GoesDown(n) \/ ComesUp(n) \/ DiskLost(n)
    BY <1>1, <2>1, <2>4, NodeSame
  <2>5. CASE (\E n \in Peers : NoticeRead(n)) \/ \E g \in notices : NoticeWrite(g)
    BY <1>1, <2>1, <2>5, NoticeSame
  <2> QED
    BY <1>4, <2>2, <2>3, <2>4, <2>5 DEF Environment
<1>5. CASE UNCHANGED vars
  <2>1. overtaken' = overtaken
    BY <1>5 DEF vars
  <2> QED
    BY <1>1, <1>5, <2>1, NodeSame
<1> QED
  BY <1>2, <1>3, <1>4, <1>5 DEF Next

LEMMA InitImplements == Init => HInv /\ Register!Init
<1> SUFFICES ASSUME Init PROVE HInv /\ Register!Init
  OBVIOUS
<1>1. \A j \in Jobs : job[j] = Idle
  BY DEF Init
<1>2. HInv
  BY <1>1, IdleInStep DEF Init, HInv, Roles, Current, InStep
<1>3. Register!Init
  BY <1>1 DEF Init, Jobs, Idle, Register!Init
<1> QED
  BY <1>2, <1>3

(* The commands of one name are the operations of a register, whatever     *)
(* tickers, forced re-shares and notices run beside them: a command whose  *)
(* split fails half-way has no effect, re-sharing is invisible, and        *)
(* reconstruct answers the value in force - until a store or backup        *)
(* completes while another goroutine still carries what it replaced        *)
(* (client/split.go, backup.go, reconstruct.go, selfheal.go).              *)
THEOREM RegisterKept == Spec => RegisterUnlessOvertaken
<1>1. Implements =>
        [Register!Next \/ overtaken' \/ DeviceLost]_(Register!register)
  BY DEF Implements
<1> QED
  BY <1>1, IInvInit, IInvNext, InitImplements, StepImplements, PTL
     DEF Spec, RegisterUnlessOvertaken
=============================================================================
