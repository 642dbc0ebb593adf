--------------------------- MODULE SecretSharing ----------------------------
(***************************************************************************)
(* The life of one named secret at the node that owns it: how `store` and  *)
(* `backup` distribute Shamir shares of it (client/split.go, backup.go),   *)
(* how it is reconstructed (client/reconstruct.go), how it is re-shared    *)
(* when holders disappear or an incident is confirmed (client/selfheal.go, *)
(* watchdog.go) and how a sibling's mutation notice is folded into its     *)
(* manifest (client/peerserver.go, store/store.go).                        *)
(*                                                                         *)
(* The owner's goroutines - the command loop, the SelfHeal ticker and the  *)
(* ForceReshareOwned goroutines of confirmed incidents - run concurrently  *)
(* and share nothing but the manifest row; every HTTP exchange and every   *)
(* SQL statement on that row is a step of its own.                         *)
(*                                                                         *)
(* A group is one Shamir split, numbered in the order of creation.  A      *)
(* share is named by its group: Shamir guarantees that Threshold distinct  *)
(* holders of a group determine its value, and Custody that a holder keeps *)
(* the share through every mutation until its disk is lost.                *)
(***************************************************************************)
EXTENDS Integers, Sequences, FiniteSets

CONSTANTS
  Owner,        \* the node this module is about
  Peers,        \* the other nodes of the orchestrator's directory
  Mesh,         \* those among them in the owner's trusted mesh
  Repl,         \* the owner's command loop
  Requests,     \* what the operator asks it for: "store", "backup",
                \* "reconstruct", "heal-now"
  Healers,      \* its SelfHeal ticker, or none
  Forcers,      \* the goroutines that run ForceReshareOwned
  Values, NoValue,
  Threshold,    \* shares needed to reconstruct
  Total,        \* shares of a secret stored with `store`
  Margin,       \* -heal-margin
  Faults,       \* which of "down", "disk", "device", "timeout", "crash",
                \* "orch" and "notice" may happen
  MaxGroups,    \* bound: splits made
  MaxStores,    \* bound: store and backup commands given
  MaxFaults     \* bound: nodes going down, disks lost, timeouts, crashes,
                \* devices lost, directories that do not answer

ASSUME PeersAssumption == Owner \notin Peers /\ IsFiniteSet(Peers) /\ Mesh \subseteq Peers
ASSUME ThresholdAssumption == Threshold \in Nat /\ 2 <= Threshold
ASSUME TotalAssumption == Total \in Nat /\ Threshold <= Total
ASSUME BoundsAssumption == {Margin, MaxGroups, MaxStores, MaxFaults} \subseteq Nat
ASSUME ValuesAssumption == NoValue \notin Values
ASSUME RequestsAssumption == Requests \subseteq {"store", "backup", "reconstruct", "heal-now"}
ASSUME JobsAssumption == Repl \notin Healers /\ (Healers \cup {Repl}) \cap Forcers = {}

VARIABLES
  groups,     \* every split made: its kind, value and members
  manifest,   \* the group the manifest row names, or None
  held,       \* the groups each node's fragments table has a share of
  lost,       \* the groups each node had a share of and lost with its disk
  up,         \* the peers that answer
  job,        \* what each goroutine of the owner is doing
  notices,    \* groups whose manifest row a notice handler has read
  published,  \* history: the values of the commands that succeeded
  answer,     \* what the last reconstruct command answered
  overtaken,  \* history: did a command replace a row someone else had read?
  stores, faults   \* counters for the bounds

vars == <<groups, manifest, held, lost, up, job, notices, published, answer,
          overtaken, stores, faults>>
history == <<published, overtaken>>
tables == <<groups, manifest, held, lost, up, notices, history>>

None == 0
Nodes == Peers \cup {Owner}
Jobs == {Repl} \cup Healers \cup Forcers
GroupIds == 1 .. Len(groups)
Kinds == {"secret", "backup"}

Splits == [kind : Kinds, value : Values, members : SUBSET Nodes]

Idle == [pc |-> "idle", op |-> "none", m |-> None, from |-> None, asked |-> {},
         got |-> {}, kind |-> "secret", value |-> NoValue, g |-> None, to |-> {}]

Members(g) == groups[g].members
Become(j, r) == job' = [job EXCEPT ![j] = r]
Stop(j) == Become(j, Idle)

Init ==
  /\ groups = <<>> /\ manifest = None
  /\ held = [n \in Nodes |-> {}] /\ lost = [n \in Nodes |-> {}]
  /\ up = Peers
  /\ job = [j \in Jobs |-> Idle]
  /\ notices = {} /\ published = <<>> /\ answer = NoValue /\ overtaken = FALSE
  /\ stores = 0 /\ faults = 0

Fault(kind) == kind \in Faults /\ faults < MaxFaults /\ faults' = faults + 1

(***************************************************************************)
(* Commands and timers: what starts a job.                                 *)
(***************************************************************************)

(* A new split: a fresh group of which no share has been delivered yet. *)
Open(j, op, kind, v, members) ==
  /\ Len(groups) < MaxGroups
  /\ groups' = Append(groups, [kind |-> kind, value |-> v, members |-> members])
  /\ Become(j, [Idle EXCEPT !.pc = "deliver", !.op = op, !.kind = kind,
                            !.value = v, !.g = Len(groups) + 1, !.to = members])

(* store: Split looks for reachable peers first. *)
Store(v) ==
  /\ "store" \in Requests /\ job[Repl].pc = "idle"
  /\ stores < MaxStores /\ stores' = stores + 1
  /\ Become(Repl, [Idle EXCEPT !.pc = "ping", !.op = "store", !.value = v])
  /\ UNCHANGED <<tables, answer, faults>>

(* backup: every mesh peer is to get a share, reachable or not. *)
Backup(v) ==
  /\ "backup" \in Requests /\ job[Repl].pc = "idle"
  /\ stores < MaxStores /\ stores' = stores + 1
  /\ Cardinality(Mesh) >= Threshold
  /\ Open(Repl, "backup", "backup", v, Mesh)
  /\ UNCHANGED <<manifest, held, lost, up, notices, history, answer, faults>>

(* reconstruct: read the manifest, then fetch from its members. *)
ReadManifest(j) == [Idle EXCEPT !.pc = "fetch", !.op = job[j].op, !.m = job[j].m,
                                !.from = manifest]
Reconstruct ==
  /\ "reconstruct" \in Requests /\ job[Repl].pc = "idle" /\ manifest # None
  /\ Become(Repl, [Idle EXCEPT !.pc = "fetch", !.op = "read", !.from = manifest])
  /\ UNCHANGED <<tables, answer, stores, faults>>

(* A tick of SelfHeal, or heal-now, lists the manifests and probes. *)
Heal(j) ==
  /\ j \in Healers \/ (j = Repl /\ "heal-now" \in Requests)
  /\ job[j].pc = "idle" /\ manifest # None
  /\ Become(j, [Idle EXCEPT !.pc = "probe", !.op = "heal", !.m = manifest])
  /\ UNCHANGED <<tables, answer, stores, faults>>

(* A confirmed incident lists the manifests and re-shares unconditionally. *)
ForceReshareOwned(j) ==
  /\ j \in Forcers /\ job[j].pc = "idle" /\ manifest # None
  /\ Become(j, [Idle EXCEPT !.pc = "reshare", !.op = "force", !.m = manifest])
  /\ UNCHANGED <<tables, answer, stores, faults>>

(***************************************************************************)
(* The loops over nodes: probing the members of a manifest, fetching       *)
(* shares and looking for reachable peers all ask one node at a time.      *)
(***************************************************************************)
Candidates(r) ==
  CASE r.pc = "probe" -> Members(r.m)
    [] r.pc = "fetch" -> Members(r.from)
    [] r.pc = "ping"  -> IF r.kind = "secret" THEN Peers ELSE Mesh

Enough(r) ==
  \/ r.pc = "fetch" /\ Cardinality(r.got) >= Threshold
  \/ r.pc = "ping" /\ r.kind = "secret" /\ Cardinality(r.got) = Total - 1

Finished(r) == Enough(r) \/ r.asked = Candidates(r)

Answers(n, r) ==
  /\ n \in up \cup {Owner}
  /\ r.pc = "probe" => r.m \in held[n]
  /\ r.pc = "fetch" => r.from \in held[n]

Ask(j, n) ==
  /\ job[j].pc \in {"probe", "fetch", "ping"}
  /\ ~Finished(job[j]) /\ n \in Candidates(job[j]) \ job[j].asked
  /\ Become(j, [job[j] EXCEPT !.asked = @ \cup {n},
                              !.got = IF Answers(n, job[j]) THEN @ \cup {n} ELSE @])
  /\ UNCHANGED <<tables, answer, stores, faults>>

HealMargin(j) == IF j = Repl THEN 1 ELSE Margin

(* Mutant: at exactly the margin above the threshold nothing is done yet. *)
UrgentTooLate(j, alive) ==
  /\ alive < Cardinality(Members(job[j].m))
  /\ Threshold <= alive /\ alive < Threshold + HealMargin(j)

(* healOne: act only on a loss, while recovery is possible, and when the   *)
(* margin above the threshold is used up.                                  *)
Urgent(j, alive) ==
  /\ alive < Cardinality(Members(job[j].m))
  /\ Threshold <= alive /\ alive <= Threshold + HealMargin(j)

ProbeEnds(j) ==
  /\ job[j].pc = "probe" /\ Finished(job[j])
  /\ IF Urgent(j, Cardinality(job[j].got))
     THEN Become(j, [Idle EXCEPT !.pc = "reshare", !.op = "heal", !.m = job[j].m])
     ELSE Stop(j)
  /\ UNCHANGED <<tables, answer, stores, faults>>

(* reshareManifest calls Reconstruct, which reads the manifest again. *)
ReshareManifest(j) ==
  /\ job[j].pc = "reshare"
  /\ IF manifest = None THEN Stop(j) ELSE Become(j, ReadManifest(j))
  /\ UNCHANGED <<tables, answer, stores, faults>>

(* Mutant: the reconstructed buffer is wiped before it is split again. *)
FetchEndsWiped(j) ==
  /\ job[j].pc = "fetch" /\ Finished(job[j])
  /\ LET r == job[j]
     IN IF Cardinality(r.got) < Threshold
        THEN Stop(j) /\ UNCHANGED answer
        ELSE IF r.op = "read"
        THEN Stop(j) /\ answer' = groups[r.from].value
        ELSE /\ Become(j, [Idle EXCEPT !.pc = "ping", !.op = r.op, !.m = r.m,
                                       !.kind = groups[r.m].kind])
             /\ UNCHANGED answer
  /\ UNCHANGED <<tables, stores, faults>>

(* The end of Reconstruct: too few shares is an error; otherwise the value *)
(* answers the command or is split again, the way the manifest listed at   *)
(* the beginning says.                                                     *)
FetchEnds(j) ==
  /\ job[j].pc = "fetch" /\ Finished(job[j])
  /\ LET r == job[j]
         v == groups[r.from].value
     IN IF Cardinality(r.got) < Threshold
        THEN Stop(j) /\ UNCHANGED answer
        ELSE IF r.op = "read"
        THEN Stop(j) /\ answer' = v
        ELSE /\ Become(j, [Idle EXCEPT !.pc = "ping", !.op = r.op, !.m = r.m,
                                       !.kind = groups[r.m].kind, !.value = v])
             /\ UNCHANGED answer
  /\ UNCHANGED <<tables, stores, faults>>

(* reachablePeers fails when the orchestrator does not answer. *)
DirectoryFails(j) ==
  /\ job[j].pc = "ping" /\ job[j].kind = "secret" /\ job[j].asked = {}
  /\ Fault("orch")
  /\ Stop(j)
  /\ UNCHANGED <<tables, answer, stores>>

(* A secret goes to the owner and Total - 1 peers, a backup to every mesh  *)
(* peer that answered if these are Threshold at least.                     *)
PingEnds(j) ==
  /\ job[j].pc = "ping" /\ Finished(job[j])
  /\ LET r == job[j]
         need == IF r.kind = "secret" THEN Total - 1 ELSE Threshold
         members == IF r.kind = "secret" THEN r.got \cup {Owner} ELSE r.got
     IN IF Cardinality(r.got) >= need
        THEN Open(j, r.op, r.kind, r.value, members)
        ELSE Stop(j) /\ UNCHANGED groups
  /\ UNCHANGED <<manifest, held, lost, up, notices, history, answer, stores, faults>>

(***************************************************************************)
(* Delivering the shares, then recording the group in the manifest.        *)
(***************************************************************************)
Accepts(n, g) == held' = [held EXCEPT ![n] = @ \cup {g}]

(* The owner's own share, when there is one, is stored first. *)
Deliver(j, n) ==
  /\ job[j].pc = "deliver" /\ n \in job[j].to
  /\ n = Owner \/ (n \in up /\ Owner \notin job[j].to)
  /\ Accepts(n, job[j].g)
  /\ Become(j, [job[j] EXCEPT !.to = @ \ {n}])
  /\ UNCHANGED <<groups, manifest, lost, up, notices, history, answer, stores,
                 faults>>

(* Mutant: the peer that cannot be reached is skipped. *)
DeliverSkips(j) ==
  /\ job[j].pc = "deliver" /\ Owner \notin job[j].to
  /\ \E n \in job[j].to \ up : Become(j, [job[j] EXCEPT !.to = @ \ {n}])
  /\ UNCHANGED <<tables, answer, stores, faults>>

(* The first delivery that fails ends the split; the manifest is untouched *)
(* and the shares delivered before stay where they are.                    *)
DeliverFails(j) ==
  /\ job[j].pc = "deliver" /\ Owner \notin job[j].to
  /\ job[j].to \ up # {}
  /\ Stop(j)
  /\ UNCHANGED <<tables, answer, stores, faults>>

(* Mutant: a delivery that timed out is taken for one that succeeded when  *)
(* the manifest is written, and for one that failed in the answer.         *)
DeliverTimesOutRecorded(j, n) ==
  /\ job[j].pc = "deliver" /\ Owner \notin job[j].to
  /\ n \in job[j].to \cap up
  /\ Fault("timeout")
  /\ Accepts(n, job[j].g)
  /\ manifest' = job[j].g
  /\ Stop(j)
  /\ UNCHANGED <<groups, lost, up, notices, history, answer, stores>>

(* The exchange times out; the peer may have stored the share. *)
DeliverTimesOut(j, n) ==
  /\ job[j].pc = "deliver" /\ Owner \notin job[j].to
  /\ n \in job[j].to \cap up
  /\ Fault("timeout")
  /\ Accepts(n, job[j].g) \/ UNCHANGED held
  /\ Stop(j)
  /\ UNCHANGED <<groups, manifest, lost, up, notices, history, answer, stores>>

(* A store or backup is recorded while another goroutine of the owner has  *)
(* read the row it replaces, and works with it or with the value it led to *)
(* (main.go starts SelfHeal beside the command loop, the watchdog starts   *)
(* ForceReshareOwned, the peer server handles notices; none of them waits  *)
(* for another).                                                           *)
Carries(r) == r.op \notin {"store", "backup"} /\ r.pc \in {"fetch", "ping", "deliver"}
Overtakes ==
  /\ published' # published
  /\ notices # {} \/ \E j \in Jobs : Carries(job[j])

(* Mutants: the manifest is recorded before the shares are delivered, or   *)
(* inserted ON CONFLICT DO NOTHING.                                        *)
CommitEarly(j) ==
  /\ job[j].pc = "deliver"
  /\ manifest' = job[j].g
  /\ published' = IF job[j].op \in {"store", "backup"}
                  THEN Append(published, job[j].value) ELSE published
  /\ overtaken' = (overtaken \/ Overtakes)
  /\ Stop(j)
  /\ UNCHANGED <<groups, held, lost, up, notices, answer, stores, faults>>

CommitOnce(j) ==
  /\ job[j].pc = "deliver" /\ job[j].to = {}
  /\ manifest' = IF manifest = None THEN job[j].g ELSE manifest
  /\ published' = IF job[j].op \in {"store", "backup"}
                  THEN Append(published, job[j].value) ELSE published
  /\ overtaken' = (overtaken \/ Overtakes)
  /\ Stop(j)
  /\ UNCHANGED <<groups, held, lost, up, notices, answer, stores, faults>>

(* PutManifest. *)
Commit(j) ==
  /\ job[j].pc = "deliver" /\ job[j].to = {}
  /\ manifest' = job[j].g
  /\ published' = IF job[j].op \in {"store", "backup"}
                  THEN Append(published, job[j].value) ELSE published
  /\ overtaken' = (overtaken \/ Overtakes)
  /\ Stop(j)
  /\ UNCHANGED <<groups, held, lost, up, notices, answer, stores, faults>>

(***************************************************************************)
(* A mutation notice of a sibling: UpdateManifestMember reads the row of   *)
(* the notice's group and then writes the whole row back.  Only a secret's *)
(* holders count the owner among the members they notify.  (A second       *)
(* handler that read the same row writes the same row.)                    *)
(***************************************************************************)
NoticeRead(n) ==
  /\ "notice" \in Faults
  /\ manifest # None /\ manifest \in held[n] /\ Owner \in Members(manifest)
  /\ notices' = notices \cup {manifest}
  /\ UNCHANGED <<groups, manifest, held, lost, up, job, history, answer, stores,
                 faults>>

NoticeWrite(g) ==
  /\ g \in notices
  /\ manifest' = g
  /\ notices' = notices \ {g}
  /\ UNCHANGED <<groups, held, lost, up, job, history, answer, stores, faults>>

(***************************************************************************)
(* Nodes come and go.                                                      *)
(***************************************************************************)
GoesDown(n) ==
  /\ n \in up /\ Fault("down") /\ up' = up \ {n}
  /\ UNCHANGED <<groups, manifest, held, lost, job, notices, history, answer,
                 stores>>

ComesUp(n) ==
  /\ n \in Peers \ up /\ up' = up \cup {n}
  /\ UNCHANGED <<groups, manifest, held, lost, job, notices, history, answer,
                 stores, faults>>

DiskLost(n) ==
  /\ held[n] # {} /\ Fault("disk")
  /\ held' = [held EXCEPT ![n] = {}]
  /\ lost' = [lost EXCEPT ![n] = @ \cup held[n]]
  /\ UNCHANGED <<groups, manifest, up, job, notices, history, answer, stores>>

(* The owner's process restarts: its goroutines are gone, its database is  *)
(* not.                                                                    *)
OwnerRestarts ==
  /\ Fault("crash")
  /\ job' = [j \in Jobs |-> Idle] /\ notices' = {}
  /\ UNCHANGED <<groups, manifest, held, lost, up, history, answer, stores>>

(* The owner's device is lost and replaced, its database with it. *)
DeviceLost ==
  /\ Fault("device")
  /\ manifest' = None
  /\ held' = [held EXCEPT ![Owner] = {}]
  /\ lost' = [lost EXCEPT ![Owner] = @ \cup held[Owner]]
  /\ job' = [j \in Jobs |-> Idle] /\ notices' = {}
  /\ UNCHANGED <<groups, up, history, answer, stores>>

(***************************************************************************)
(* The specification.                                                      *)
(***************************************************************************)
Work(j) ==
  \/ \E n \in Nodes : Ask(j, n)
  \/ ProbeEnds(j) \/ ReshareManifest(j) \/ FetchEnds(j) \/ PingEnds(j)
  \/ \E n \in Nodes : Deliver(j, n)
  \/ DeliverFails(j) \/ Commit(j)

Commands == (\E v \in Values : Store(v) \/ Backup(v)) \/ Reconstruct

Environment ==
  \/ \E j \in Jobs : DirectoryFails(j) \/ \E n \in Peers : DeliverTimesOut(j, n)
  \/ \E n \in Peers : NoticeRead(n) \/ GoesDown(n) \/ ComesUp(n) \/ DiskLost(n)
  \/ \E g \in notices : NoticeWrite(g)
  \/ OwnerRestarts \/ DeviceLost

Next ==
  \/ Commands
  \/ \E j \in Jobs : Heal(j) \/ ForceReshareOwned(j) \/ Work(j)
  \/ Environment

Spec == Init /\ [][Next]_vars

(* SelfHeal's ticker keeps ticking and its goroutine keeps running: every  *)
(* exchange it waits for ends within the HTTP client's timeout.            *)
Fairness == \A j \in Healers : WF_vars(Heal(j) \/ Work(j))
FairSpec == Spec /\ Fairness
-----------------------------------------------------------------------------
(***************************************************************************)
(* Properties.                                                             *)
(***************************************************************************)
Rows == [pc : {"idle", "ping", "probe", "reshare", "fetch", "deliver"},
         op : {"none", "store", "backup", "read", "heal", "force"},
         m : Nat, from : Nat, asked : SUBSET Nodes, got : SUBSET Nodes,
         kind : Kinds, value : Values \cup {NoValue}, g : Nat, to : SUBSET Nodes]

(* Type correctness; every group anyone names was created. *)
TypeOK ==
  /\ groups \in Seq(Splits)
  /\ manifest \in GroupIds \cup {None}
  /\ held \in [Nodes -> SUBSET GroupIds] /\ lost \in [Nodes -> SUBSET GroupIds]
  /\ up \subseteq Peers
  /\ job \in [Jobs -> Rows]
  /\ \A j \in Jobs : {job[j].m, job[j].from, job[j].g} \subseteq GroupIds \cup {None}
  /\ notices \subseteq GroupIds
  /\ published \in Seq(Values) /\ answer \in Values \cup {NoValue}
  /\ {stores, faults} \subseteq Nat /\ overtaken \in BOOLEAN

(* The manifest never names a split that was too small or only partly      *)
(* delivered: unless so many of its members lost their disks that          *)
(* Threshold shares do not exist any more, Threshold of its members hold   *)
(* theirs - after aborted and concurrent re-shares, timeouts, restarts and *)
(* rewritten rows alike (Split and distributeBackup call PutManifest last).*)
Holders(g) == {n \in Members(g) : g \in held[n]}
Losers(g) == {n \in Members(g) : g \in lost[n]}
Recoverable ==
  manifest # None =>
    /\ Cardinality(Members(manifest)) >= Threshold
    /\ Cardinality(Losers(manifest)) <= Cardinality(Members(manifest)) - Threshold
         => Cardinality(Holders(manifest)) >= Threshold

(* The value readable under the name is one that a store or backup command *)
(* published: no aborted command and no re-share brings about another one. *)
OnlyPublishedValues ==
  manifest # None => \E i \in 1 .. Len(published) : groups[manifest].value = published[i]

(* The owner's tables implement a register: a split takes effect when its  *)
(* manifest is written, and re-sharing is invisible.                       *)
Register == INSTANCE SecretRegister WITH
  value   <- IF manifest = None THEN NoValue ELSE groups[manifest].value,
  pending <- IF job[Repl].op \in {"store", "backup"} THEN job[Repl].value ELSE NoValue,
  reported <- published, answer <- answer
ImplementsRegister == Register!Spec

(* Commands, tickers, forced re-shares and notices may overlap in any way, *)
(* fail, time out and restart: every step is one of a register that only   *)
(* the commands write, until a command overtakes one of the others, after  *)
(* which an old value may come back.  (The row goes with the device.)      *)
RegisterUnlessOvertaken ==
  Register!Init /\ [][Register!Next \/ overtaken' \/ DeviceLost]_(Register!register)

(* A secret that lost holders down to the margin does not stay that way    *)
(* while enough peers answer to share it again: a heal that failed because *)
(* a delivery timed out, a peer went down or the orchestrator did not      *)
(* answer is made again on the next tick (SelfHeal, healOne).              *)
Alive == {n \in Holders(manifest) : n \in up \cup {Owner}}
Degraded ==
  /\ manifest # None /\ groups[manifest].kind = "secret"
  /\ Cardinality(Alive) < Total
  /\ Threshold <= Cardinality(Alive) /\ Cardinality(Alive) <= Threshold + Margin
  /\ Cardinality(up) >= Total - 1
DegradedIsHealed == Degraded ~> ~Degraded

(* A re-share redistributes the secret its manifest names                  *)
(* (client/selfheal.go:123): it does not bring back an older value.        *)
LatestIsReadable ==
  manifest # None => groups[manifest].value = published[Len(published)]
=============================================================================
