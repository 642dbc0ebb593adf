# A TLA+ verification of genomedb

genomedb keeps a secret as Shamir shares on several nodes and moves every share
to a new pseudonym ("mutation") on a schedule and on suspicion. This directory
models the parts of it in which concurrency, failure and the order of events
decide whether a share or a secret survives:

* `Custody` - one share at one node, against the orchestrator;
* `EventStream`, `RootSeal` and their composition `NodeSession` - the control
  channel from the orchestrator to its nodes, and a node's process from start to
  end. `EventStream` implements the abstract `EventQueue`, and `Custody` takes
  its seeds from one: the two meet at that specification;
* `SiblingGossip` - how the holders of a group learn of each other's mutations;
* `Watchdog` - when a node reacts;
* `SecretSharing` - one named secret at its owner, against its holders; it
  implements the abstract `SecretRegister`;
* `Shamir` - the arithmetic `SecretSharing` relies on.

Paths below are relative to `src/`.

## 1. The system: inventory

| component | source | state | operations | talks to |
|---|---|---|---|---|
| custody and mutation | `client/node.go` | the `fragments` rows; `Node.chains` (memory) with `ColdChain.Next` | `registerNewFragment`, `handleEvent`, `applyMutation`, `ColdMutate`, `notifySiblings` | orchestrator (announce, ack), siblings (notices), store |
| watchdog | `client/watchdog*.go` | score, streak, cooldown | `tick`, `SimulateAttack`, `react` | `ColdMutate`, `ForceReshareOwned`, orchestrator (alert) |
| sharing and backup | `client/split.go`, `client/backup.go` | the manifest row | `Split`, `Backup`, `distributeBackup`, `reachablePeers` | peers (ping, deliver), orchestrator (directory), store |
| reconstruction | `client/reconstruct.go` | none | `Reconstruct` | peers (fetch), store |
| self-healing | `client/selfheal.go` | none | `SelfHeal`, `HealNow`, `ForceReshareOwned`, `reshareManifest` | peers (status), the two above |
| peer server and client | `client/peerserver.go`, `peer/` | none | ping, status, fetch, deliver, mutation-notice | store |
| store | `store/store.go` | tables `fragments`, `manifests`, `mesh_peers` | upserts, deletes, `UpdateSibling`, `UpdateManifestMember` | SQLite |
| orchestrator | `orchestrator/orchestrator.go`, `server.go`, `event.go` | `nodes`, `routes`, `chainAnchors`, `subs`, `epoch`, `alertBucket` (all memory) | `Register`, `AnnounceRoute`, `Ack`, `Alert`, `Subscribe`, `broadcastDelta`, `RunScheduledMutations` | nodes (event stream) |
| orchestrator client | `protocol/` | none | POSTs with a 10 s timeout, `SubscribeEvents` | orchestrator |
| Shamir sharing | `crypto/shamir.go`, `gf256.go` | none (pure) | `Split`, `Combine`, field arithmetic | |
| hash chain, ratchet | `crypto/hashchain.go`, `ratchet.go` | none (pure) | `BuildChain`, `VerifyStep`, `NextPseudoID`, `NextKey` | |
| root seal | `crypto/seal.go` | the sealed root file | `LoadOrCreateRoot` | file system |
| AEAD, wiping | `crypto/aead.go`, `wipe.go` | none | | |
| WireGuard keys | `mesh/` | none | key generation, rendering | |
| programs | `cmd/` | goroutines | start, command loop, flags | all |

### What is hard in it

* **Nothing serialises the mutations of one share.** The event loop started by
  `Node.Start`, the polling loop of `Watchdog.Run` and the command line's
  `simulate-attack` all end in `applyMutation`, which is four separate effects
  (get, put, delete, ack) on a table they share. `ColdChain.Consume` runs after
  `Node.mu` was released.
* **Acks are sent once.** Their error is logged (`client/node.go:222`). The
  orchestrator handles an ack in three critical sections, and may do so after
  the node has given up on it and mutated again.
* **Nodes restart with their database only, the orchestrator with nothing.**
* **`store`, `backup`, the self-heal ticker and the re-shares forced by an
  incident run at once.** Each reads the manifest, talks to many nodes and
  writes the manifest at the end; between the two, anything may have happened.
* **A split delivers shares one by one**, and the first error ends it. A
  delivery that times out may have been stored.
* **A notice handler rewrites the manifest row it read** (`store/store.go:341`).
* **A share's list of members is copied, sent about and folded back in** by
  statements that no transaction holds together (`store/store.go:189`).
* **The event stream** is a Go channel that one goroutine closes and others
  send on, and an HTTP response under the client's global timeout.
* **The watchdog decides under its lock and reacts later under it again**
  (`client/watchdog.go:106`, `:129`), and the command line reacts in between.
* **The root's file is written in place** on the first start
  (`crypto/seal.go:66`).

What makes each component correct, in one line each: custody - an accepted
share is on disk at every moment, and its identity only advances; orchestrator -
it never knows more than the disks do and trusts the chain link by link;
sharing - the manifest names a fully delivered split of a value somebody
published; reconstruction and healing - they show the value in force and change
it never; event stream - what is pushed is handled once and in order, or lost,
and holds nobody up; gossip - no list is ahead of the disks, and it is current
once everything has arrived; watchdog - debounce, cooldown and rate limit fit
together and a persistent incident is confirmed while reactions end before
their cooldowns; root seal - a node reads what
it wrote; pure algorithms - any threshold of the shares gives the secret back.

The `hazards` of `PROJECT.json` list, line by line, where this can go wrong and
which property watches it.

## 2. The modules

| module | what it is |
|---|---|
| `Custody` | one share: acceptance, scheduled and cold mutation, acks, restarts |
| `MCCustody` | constants of its model-checked instances |
| `CustodyProofs` | types, no loss, no route ahead of the disk, identities advance |
| `ChainProofs` | the hash chain and the orchestrator's anchor, until goroutines race in `Consume` |
| `RouteProofs` | route and row agree while only seeds mutate the share |
| `EventQueue` | what a node may rely on when it is pushed events |
| `EventStream` | subscriptions, pushes, connections and event loops of several nodes |
| `RootSeal` | the root secret of each node and its file |
| `NodeSession` | a node's process: root, registration, stream; they end together |
| `SessionProofs` | types, open channels, one root, the stream implements the queue, no event twice |
| `SiblingGossip` | the member lists of one group's holders and of its manifest |
| `GossipProofs` | types, no list ahead of the disks, lists that are current once all is quiet |
| `Watchdog` | score, streak, cooldown, reactions and the alerts' rate limit, by the second |
| `WatchdogProofs` | types, spacing, debounce, warning, alerts that are heard |
| `SecretRegister` | what an owner is promised of a name: an atomic register |
| `SecretSharing` | one name: store, backup, reconstruct, heal, forced re-share, notices |
| `MCSecretSharing` | constants of its model-checked instances |
| `SharingProofs` | types, recoverability, only published values; `SecretSharing` implements `SecretRegister` until a command overtakes another writer |
| `Shamir` | GF(2^8) with its tables, `Split`, `Combine` |
| `MCShamir` | sample secrets |
| `ShamirProofs` | any threshold gives the secret back, no division by zero, one share of two says nothing, the tables are those of the field |

The specifications keep a few definitions labelled "Mutant": plausible mistakes
in the code (a swapped order, a missing reset, an ignored error). Replacing an
action by its mutant violates the property it is listed with in `PROJECT.json`,
so each property is known to depend on the code it is about.

### Custody

| state | in the code |
|---|---|
| `rows` | the `fragments` table of the node, restricted to this share's group: pid -> epoch |
| `provisioned`, `next` | presence in `Node.chains`, and `ColdChain.Next` |
| `accept`, `announcing` | how far `POST /peer/deliver` is, and whether its announcement is still on its way |
| `chan` | the queue between the orchestrator's push and this node's event loop |
| `pc`, `todo`, `pid`, `seed`, `epoch` | per goroutine: the line it is at, and its local variables |
| `calls` | acks on the network or being handled |
| `routes`, `anchor` | `Orchestrator.routes`, and the `chainAnchors` entry of this chain |

A pid is the HMAC of the previous one under a seed. It is modelled by the
sequence of seeds applied so far: two mutations of one row with one seed collide
in the model as they do in the code. Links of the chain are numbered as
`BuildChain` numbers them, so `VerifyStep` is "one below". A row's key and
ciphertext are written by the statement that writes its pid and are left out.

Every SQL statement, critical section and HTTP exchange is one action.
`applyMutation` is `GetFragment`, `PutFragment`, `DeleteFragment`, `SendAck`,
then a wait that ends with the answer (`AckRoute`), a timeout or a refusal.
`Orchestrator.Ack` is `AckCheck`, `AckTrust`, `AckRoute`, one per critical
section. `Consume` is three actions, because it reads `Next` three times without
a lock: `ConsumeCheck` (`client/node.go:33`), `ConsumeIndex` (`:36`), which takes
the link that `Next` is at now or was at when it was checked, and
`ConsumeDecrement` (`:37`), which stores what either read gives. A goroutine that
finds `Next` below zero at the index panics and takes the process with it
(`ConsumePanics`). The history variable `raced` records whether two goroutines
were ever between check and decrement at once.
`PushSeed`, `HandleEvent` and `EventsLost` are `EventQueue`'s push, take
and loss. Only seeds of this share are pushed: the deltas and other seeds in the
same channel can only make it full, and a drop on their account is as if nothing
had been pushed. Notices to siblings, sent after the ack, change neither pids nor
epochs and are `SiblingGossip`'s.

### EventStream, RootSeal and NodeSession

| state | in the code |
|---|---|
| `orch`, `known`, `subs` | whether the orchestrator runs, `Orchestrator.nodes`, `Orchestrator.subs` |
| `pushes` | goroutines in `broadcastDelta` or `pushSeed` past their critical section, with the channels they copied |
| `owner`, `handler`, `chan` | the handlers of `GET /events`, and the channel `Subscribe` made for each |
| `cut`, `flow` | has the connection ended, and what was written to it and not yet handled: bytes under way and the client's own channel |
| `node`, `stream` | how far a node's process is in `Node.Start`, and the connection its event loop ranges over |
| `boot`, `seal`, `root`, `drawn`, `used` | `LoadOrCreateRoot`, `root.seal`, and the root the database was written under |

An event is a number; its content is `Custody`'s. `Unsubscribe` and `Close` are
two actions because the code deletes the map entry under the lock and closes the
channel after it; `Broadcast` or `PushSeed` and `Send` are two for the same
reason. A push that meets a closed channel panics: recovered in an HTTP handler
(`SendPanics`), fatal in the scheduler's goroutine (`SeedPanics`). Reading
`root.seal` is one step; writing it is two, with a crash possible between them.
An event is *spent* for a node (`Spent`) once no pusher holds a channel of that
node's to send it to. `NodeSession` orders everything as `main` does and is what
the run checks and the theorems are about.

### SiblingGossip

| state | in the code |
|---|---|
| `rows` | each holder's `fragments` rows of the group, as pid -> `members_json` |
| `manifest` | `members_json` of the owner's manifest row |
| `latest` | the last pseudonym each holder took (they are numbered) |
| `pc`, `old`, `snap`, `tell` | a holder's `applyMutation` and `notifySiblings`: the line, the row it read, the members still to notify |
| `notices` | notices under way or being handled, with what the handler has read |
| `disturbed` | history: holders that missed a notice or mixed one up with another statement |

`SelectRows` and `UpdateRow` are `UpdateSibling`'s SELECT and its UPDATEs,
`ReadManifest` and `SaveManifest` are `UpdateManifestMember`. An UPDATE of a row
deleted in between does nothing. One goroutine at a time mutates a holder's
share; several are `Custody`'s subject.

### Watchdog

Time is counted in seconds: the ticker fires every two, a tick that finds the
last one not taken is dropped, and the polling goroutine takes time only in the
exchanges of a reaction: any time, since a reaction has an ack and notices of up
to ten seconds each for every share, and re-shares besides. `cooldown` and
`limit` are the seconds left of `cooldownUntil` and of the orchestrator's three.
`late` records whether the alert that started the limit was sent when less than
the limit was left of the cooldown. The command line's reaction takes any time
too. What the detectors report is any set of
signals at every tick. What a reaction does to shares and secrets is
`Custody`'s `React` and `SecretSharing`'s forced re-share, which start at any
moment there.

### SecretSharing

| state | in the code |
|---|---|
| `groups` | history: every split begun, its kind, value and intended holders |
| `manifest` | the group named by the row of this name, if there is one |
| `held`, `lost` | groups of which a node's `fragments` table has, or had before its disk was lost, a share |
| `up` | peers that answer |
| `job` | per goroutine of the owner: the function it is in and its local variables |
| `notices` | groups whose manifest row a `mutation-notice` handler has read and not yet written back |
| `published`, `answer` | history: the values of commands that reported success, and the last answer |

There is one name. A share is named by its group: the model relies on Shamir's
promise that `Threshold` holders of one group determine its value (`Shamir`) and
on `Custody` for a holder keeping its share through mutations. Loops over nodes
(`reachablePeers`, `probeMembers`, the fetch loop, the delivery loop) ask one
node per step, **in any order**, which covers the order the code uses. They stop
where the code stops: at `Threshold` shares fetched, at `Total - 1` peers found,
at the first delivery that fails.

Facts of the code the model keeps because they matter: the owner's own share of
a secret is stored first and is not subject to the network; a re-share lists the
manifest at its beginning, but `Reconstruct` reads it again; the kind of the
first decides how the value of the second is split; a backup goes to every mesh
peer when it is made but to those that answer when it is healed; nobody deletes
the shares of an old group; the manifest is written last.

The history variable `overtaken` records whether a store or backup ever recorded
its split while another goroutine worked with the row it replaced. `Requests` is
the set of commands the operator gives in an instance.

Abstractions: `Threshold` and `Total` are constants for every split; the mesh is
a constant (`mesh-add` is not modelled); an error of the owner's own database
has the effect of a job that stops and is not an action of its own (`crash` and
`orch` stop jobs at the same places); a delivery that arrives after its timeout
only leaves a share nobody names.

### Shamir

`gfMul`, `gfDiv`, `evalPoly`, `Split` and `Combine` are operators; a small state
machine splits with every choice of coefficients from a set, collects shares in
any order, repeated or damaged ones too, and combines them. XOR works on
half-bytes, so that one definition serves both TLC and the provers; the loops
of `init`, `gfMulSlow`, `evalPoly` and `Combine` are recursive functions of the
round. Combine's inner loops skip `i == j`: `Product` and `Sum` run over the
places `1 .. n` and skip those not in a set.

## 3. The runs

Two reasons bound the instances: counters in guards (`MaxSeeds`, `MaxReactions`,
`MaxFaults`, `MaxGroups`, `MaxStores`, `MaxEvents`, `MaxRoots`, `MaxMutations`,
`MaxCollected`) and the sizes of the constant sets. They bound how often the
environment acts, never what the code does.

| run | instance | shows |
|---|---|---|
| `custody_faults` | two reactors, chain of 2 links, 3 reactions, 1 fault (crash, failed statement, restart of the orchestrator), any lost and late acks | `ShareNeverLost`, `RouteNeverAhead`, `IdentityAdvances`; `AnchorAheadOfChain`, `AnchorWalksChain`, `OnlyRacesPanic`; with fairness, `MutationsEnd` |
| `custody_racing` | event loop and two reactors, 2 seeds, channel of 2, 2 reactions, 1 crash or failed statement, the stream cut at any time | `TypeOK`, `ShareNeverLost`, `RouteNeverAhead`, `IdentityAdvances` with three goroutines in `applyMutation` and the race on `Next`; `RoutesMatchRows`: where only seeds mutated the share, stale, dropped and lost ones leave both tables in agreement |
| `session` | 2 nodes, 2 connections, buffers of 1, 2 events, 2 roots, any restarts and cuts | `SessionTypeOK`, `SubscribedIsOpen`, `StableRoot`, `QueuePerNode`, `HandedOutOnce`; with fairness, `PushesEnd` |
| `gossip` | 3 holders of which 2 mutate, 2 mutations, 1 lost notice or crash, any timeouts | `TypeOK`, `NeverAhead`, `InSync`; with fairness, `MutationsEnd` |
| `watchdog` | up to 2 fragments, reactions of any length, the code's own constants | `TypeOK`, `ReactionsAreSpaced`, `ConfirmedIsDebounced`, `SuspectComesFirst`, `IncidentsAreHeard`; with fairness, `PersistentSignalsConfirm` |
| `sharing_serial` | the command loop, 3 peers all in the mesh, 2 values, 2 commands, 3 splits, 2 faults | `TypeOK`, `Recoverable`, `ImplementsRegister` |
| `sharing_concurrent` | the command loop, a forced re-share and notices, 2 peers, 2 values, 2 commands, 3 splits, 1 delivery that times out | `Recoverable`, `OnlyPublishedValues`, `RegisterUnlessOvertaken` |
| `sharing_restored` | the command loop and the self-heal ticker, 3 peers, 1 store, 5 splits, 3 faults (a peer down, a disk or the device lost, a timeout, no answer from the orchestrator) | with fairness, `DegradedIsHealed` |
| `shamir` | all pairs of bytes for the tables; secrets of 0 to 2 bytes, up to 255 shares, thresholds 2 and 3, 3 shares collected | `TypeOK`, `TablesAreTheField`, `AnyThresholdRestores`, `NeverPanics`, `OneShareRevealsNothing` |
| `custody_two_mutations` | one scheduled and one cold mutation | violates `AtMostOneFragment` |
| `custody_lost_ack` | two cold mutations, the first ack lost | violates `GenuineLinksVerify` |
| `sharing_lost_store` | a store during a heal | violates `LatestIsReadable` |

Why these bounds are enough to meet the interesting cases: a chain of two links
can be used up and its end reached by a third attempt, of one goroutine or of two
at once; two reactions and a seed give every overlap of two or three mutations of
one row, and of one mutation
with the mutation of its own result; a channel of one or two seeds is full with
a stale seed in it. In `session` a node can have a draining connection beside
its new one, both nodes can be subscribed, an event can be in each buffer, and
restarts are not bounded at all. In `gossip` two mutations of one holder, or one
each of two, put two notices to one handler under way, and the third holder does
nothing but listen. In `sharing_restored` three faults end three re-shares at
most and a fifth split is left over, so that `Degraded` never ends because splits
are used up. Elsewhere three splits are an old, a current and an abandoned one, and
with two commands every pair of overlapping writers occurs; with
`Threshold = 2`, `Total = 3` exactly one holder may be lost. Peers are
interchangeable, and the runs that check only safety of `SecretSharing` use that
symmetry. `CHECK_DEADLOCK FALSE` is set where a bounded run ends once its
counters are used up; the watchdog never stops, and its run checks that.

### Fairness

`Custody!FairSpec` assumes that the node's own goroutines keep running: the
event loop takes the next event, and a goroutine inside a mutation goes on. That
includes `AckTimeout`, which the code guarantees: its HTTP client has a ten
second timeout (`protocol/client.go:23`). Nothing is assumed of the
orchestrator, so `MutationsEnd` holds even if it accepts connections and never
answers; without the timeout it does not (that is the property's mutant).

`EventStream!Fairness`, in `FairSession`, assumes only that the orchestrator's
pushers run: one of them that can send, does. Nothing is assumed of its handlers
or of the nodes, whose event loops may be stuck for ever.

`SiblingGossip!FairSpec` assumes that a mutating goroutine goes on and that its
client gives up (`peer/client.go:19`); nothing of the members it notifies.

`Watchdog!FairSpec` assumes that time passes and that the polling loop runs, its
reactions ending at some time or other. The operator is free to react or not.

`SecretSharing!FairSpec` assumes that the self-heal goroutine
starts a round again and again while it is idle (its ticker) and completes it
(every exchange ends by the client's timeout, `peer/client.go:19` and
`protocol/client.go:23`). Nothing is assumed of the command loop or of the peers,
which may go down and come back at any time. In `sharing_restored` the operator
gives `store` commands only, so that the ticker does the healing alone.
`DegradedIsHealed` says only that the *degraded* condition - enough peers
answering included - does not last for ever.

### What the violations mean

* `custody_two_mutations`: two mutations read the same row, each puts its own
  new row and both delete the same old one. The node is left with two fragments
  of one group, where `store/store.go:170` speaks of at most one.
* `custody_lost_ack`: `Ack` compares the hash of the revealed link with the
  anchor and does not hash any further. Once one ack of a cold mutation is lost,
  every later genuine link is reported as failed. `crypto/hashchain.go:20` and
  `protocol/messages.go:44` describe verification after connectivity returns.
* `sharing_lost_store`: a heal reconstructs the old value, a store of a new one
  completes and reports success, and the heal then splits the old value and
  writes its manifest over the new one.

### Observed, without a run of its own

Custody and the chain:

* `Consume` holds no lock (`client/node.go:278`). Once two reacting goroutines
  are inside it at once, both can take the same link, `Next` can be stored back
  above a link already revealed, and at the end of the chain the second one
  indexes below zero and ends the process. `AnchorAheadOfChain` and
  `AnchorWalksChain` fail then, because `Ack` verifies two acks with one link
  before it trusts either; `crypto/hashchain.go:42` says that each step is usable
  exactly once.
* An ack whose old pid has no route enters the node's id as an endpoint
  (`orchestrator/orchestrator.go:102`); every later ack copies it.

The event stream:

* The timeout of the `http.Client` (`protocol/client.go:23`) covers the body of
  the event stream, which therefore ends after ten seconds. `protocol/client.go:106`
  says the caller is expected to retry; `Node.Start` does not, and the node hears
  nothing for the rest of its life. `QueuePerNode` holds, because a queue may
  lose everything.
* The unsubscribe of a node's old stream deletes whatever the map holds for that
  node, a newer stream's channel included (`orchestrator/orchestrator.go:162`):
  that stream stays open and gets nothing.
* A seed pushed to a channel that is closed after the lookup panics in the
  scheduler's goroutine and ends the orchestrator (`SeedPanics`).
* When the orchestrator restarts, nodes that run on neither register nor
  subscribe again: it pushes them no seed and lists them to nobody.

The gossip: once two notices to one holder, or a notice and that holder's own
mutation, overlap, its list may name an old pseudonym for ever. Nothing repeats
a notice. `InSync` holds only for holders to which this did not happen.

The watchdog:

* `client/watchdog.go:23` says that no single signal crosses `scoreSuspect`. An
  attached debugger alone scores 60, above `scoreConfirm` too (`:30`, `:34`).
* A reaction that takes as long as the cooldown it began with leaves no cooldown
  behind. The streak is reset when it begins (`:136`), so the first high tick
  after it is `suspect` again: a score that stays high is then never confirmed,
  which `:34` and `:35` promise after the debounce. One unanswered ack takes ten
  seconds, the cooldown of a suspect reaction. `PersistentSignalsConfirm` has
  this as its premise.
* A decision of the loop made just before `simulate-attack` replaces the
  command's cooldown of twenty seconds by its own.

Sharing and storage:

* A notice handler that read the manifest row before a store writes the old row
  back (`store/store.go:351`): the other way to violate `LatestIsReadable`.
* The manifest of a backup is nowhere but in the owner's database. `README.md:70`
  shows a restore on another device and `client/backup.go:22` names surviving
  the device's loss as the point; no code restores without the manifest.
* The self-heal ticker re-shares ordinary secrets as well as backups, as
  `README.md:91` says and `store/store.go:251` and `:311` deny.
* `README.md:80` calls shares of an earlier split unusable. They are never
  deleted, and `Threshold` of them still determine the secret: in the model
  `held` never shrinks except by a lost disk.
* Healing a backup lowers its number of shares to the peers that answered then;
  the number never grows again.
* A crash while `root.seal` is written leaves a file that does not parse, and
  the node does not start again. Nothing is written under that root, so nothing
  is lost. That holds for a crash of the process; the file is not synced, and a
  power failure after the first writes to the database is not modelled.

## 4. The proofs

All theorems hold for every value of the constants allowed by the modules'
`ASSUME`s, which say no more than that counters and capacities are naturals
(those of channels positive), the goroutines differ, `None` is no connection,
`None` is no node either, the peers are finite in number and do not include the
owner, and `2 <= Threshold <= Total`, as `crypto.Split` demands. No theorem has a
hypothesis of its own; where a statement holds until some event, that event is
part of the property, as a history variable.

**`CustodyProofs`.** `TypeCorrect`: types are inductive as they stand, given the
row and call types in `TypeInv`. `ShareNeverLostAlways`,
`RouteNeverAheadAlways` and `IdentityAdvancesAlways` share one inductive
invariant. `ShareNeverLost` alone is not inductive: nothing in "some row exists"
says that the row a `DeleteFragment` removes is not the only one. The
strengthening rests on two observations. An epoch counts the seeds of its pid
(`EpochsCount`), so "at least as recent" is a comparison of lengths. And every
identity anybody may still write down - a route, an ack under way, the result of
a mutation past its put - is matched by a stored row at least as recent
(`Durable`). A delete removes a row strictly older than the one its own put
stored; that one, or a successor of it, is still matched; so something at least
as recent stays, no matter what the other goroutines did in between. `Untouched`
says that nothing of this happens before custody is accepted. The argument uses
neither locks nor the number of goroutines.

**`ChainProofs`.** `AnchorStaysAhead`, `AnchorWalks` and `RacesAlonePanic`,
of `Spec`, for any number of reacting goroutines. The invariant is
`UntilRaced`: that of `CustodyProofs`, and `ChainInv` unless two goroutines raced
in `Consume`. `Announced` says that an announcement finds no anchor to overwrite;
`InHand` that whoever is past the check of `Next` still finds it as it was, and
that a link consumed and not yet sent is above `next` and below every link that
an ack under way may still make the anchor; `Descending` that those differ from
each other, are above `next`, and that one past its check is the link below the
anchor. The last two make the gap between `AckCheck` and `AckTrust` harmless: no
second ack can pass the check in it, since it would carry the same link. Several
goroutines may have consumed links and several acks may be under way at once;
only an overlap inside `Consume` itself lets two of them carry one.

**`RouteProofs`.** `RoutesMatchRowsAlways`, for any number of seeds, without a
further assumption. `RouteInv` follows the one fragment through a mutation:
while nobody reacted and nothing but the stream failed (`Calm`), there is one route, and the
event loop is resting at its pid, has read the row, has both rows, has only the
newer one, or waits for the ack that moves the route to it. A stale seed finds
no row and leaves the loop resting, and a lost one changes nothing but the
channel. Before the share is stored only `FirstPID`
is known, and a seed that arrives between announcement and store finds nothing
either.

**`SessionProofs`.** `SessionTypes`, `OpenChannels`, `OneRoot`,
`StreamIsAQueue` and `NoneTwice`, for any number of nodes and connections and buffers of any
size. The invariant says, besides types and `SubscribedIsOpen`, that a connection without a serving
handler has ended (`Open`), that buffers keep to their capacities (`Bounded`),
and that an event still to be sent to a connection is nowhere in its buffers
(`Fresh`), so that an `Append` to the orchestrator's channel is a `Push` of the
queue. A `Serve` moves the head of one buffer to the end of the other and
is a stutter; a cut or a restart keeps a prefix and is a `Lose`. The sequence
lemmas at the top say when two buffers in a row are one queue. `NoneTwice` adds
(`OnceInv`) that a stream is a connection of its node's own, and that no pusher
has two channels of one node's to send to, so that its send is the last there
will be of that event for that node. `RootInv` adds to
`StableRoot` how far a process is with the file.

**`GossipProofs`.** `GossipTypes` and `Behind`. `NeverAhead` is strengthened by
`UnderWay`: lists that a mutation copied, pseudonyms in notices, and lists a
handler has worked out are not ahead either. It then follows since `latest` only
grows and is raised by the statement that stores the row. How statements
interleave plays no role for it.

It does for `KnownWhenQuiet`, which states `InSync`: a list may be behind while
something is still to come, so the invariant (`SyncInv`) has to say what.
`RowLags` and `ManifestLags` say when `h`'s entry for `k` is out of date: `k` has
stored its new row and has not yet told `h` (`Due`), or the notice is on its way
(`Between`) - until the rows are written in one case, the manifest in the other.
Every entry then holds exactly what it is `Expected` to: `k`'s old pseudonym if
it lags, the latest otherwise; that goes for the rows, for the list `h`'s own
mutation copied and has not stored yet, and for the manifest. Every notice to a
holder that missed nothing is `Genuine`: its sender still waits for the answer,
and it names the sender's old and new pseudonym. What its handler has worked out
and not yet written differs from the table in the sender's entry alone
(`FoldsRows`, `FoldsManifest`), and no second handler is at the same stage
(`Alone`): two would each write back what the other has just replaced, which is
why `InSync` leaves out the holders to which this happened. When all is quiet
nothing lags.

**`WatchdogProofs`.** `WatchdogTypes`, `Spacing`, `Debounce`, `Warning` and
`Hearing`. `Cooling` relates the history to the code's clock: time since the
last reaction and cooldown left make up at least that reaction's cooldown.
`Counting` says that the streak never exceeds the run of high ticks, although
reactions reset it at any moment, and `Warned` that a streak is never begun
without a reaction decided on. `Alerting`, for `Hearing`, says that while the
limit set by an alert of the loop's lasts and that alert was not late, the
cooldown lasts as long: no new reaction can be decided, and the one under way has
been heard. It holds however long a reaction takes.

**`SharingProofs`.** `TypeCorrect`, `RecoverableAlways` and
`OnlyPublishedValuesAlways`, for any number of healers, forced re-shares and
notices at once. The invariant says of every group that the manifest or an
unfinished notice names that it is `Sound` - large enough, each of its members
has or had its share, its value was published - and of every goroutine what it
has established so far (`RowOK`): one that delivers has covered the members it
has crossed off, one that re-shares works with a published value, even if the
manifest has moved on since. `Grows` collects what no step takes away. Recovery
then follows by counting: the members of a sound group are its holders and its
losers.

`RegisterKept`, in the same module: with any number of
healers, forced re-shares and notices beside the command loop, every step is,
under the mapping in the module, a step of `SecretRegister` or a stutter, until a
store or backup records its split while another goroutine works with the row it
replaces - whatever peers, disks and timeouts do and whenever the owner
restarts. `Roles` says which goroutine may be in which function; `Current` that
until then every goroutine that has read the row, and every unfinished notice,
carries the value in force, so that writing it back changes nothing. What happens
after is `sharing_lost_store`.

**`ShamirProofs`.** `ThresholdRestores`, `DivisionByZeroOutOfReach`,
`OneShareHides`, `ShamirTypeCorrect` and `TablesGiveTheField`, for every set of
secrets and coefficients, every threshold from 2 and up to 255 shares, without a
hypothesis.

First the tables that `init` fills (`TheTables`). XOR is a group, bit by bit
(`XorFacts`), and `gfMulSlow`'s doubling distributes over it (`DblAdds`), so
tripling is injective (`ThriceInjective`). None of the first 254 powers of 3 is 1
(`Powers`, computed by the SMT solver), so no power repeats before
(`PowersDiffer`); there are as many of them as nonzero bytes, so they are all of
these (`EveryByteIsAPower`), and the two tables are inverse to each other
(`Logarithms`). That `gfMul` over the tables is `gfMulSlow` for all pairs of bytes
follows from the rounds of the slow loop (`DoubledIs`, `AddedIs`).

From there the argument is algebra.
`gfMul` adds logarithms modulo 255, so it is commutative and associative and
`gfDiv` undoes it (`MulLogs`, `MulFacts`, `DivFacts`); it distributes over XOR
because every nonzero byte is a power of 3 (`Distributes`). The recursive
functions are unfolded round by round (`ProductRounds`, `SumRounds`,
`HornerRounds`); inductions go over sets of natural numbers (`Induction`).
`AtZero` is Lagrange interpolation at 0 over a set of points. It is linear
(`AtZeroAdds`, `AtZeroScales`); what vanishes at a point is interpolated without
it (`AtZeroWithout`); and the constant 1 goes to 1 (`AtZeroOfOne`, by induction
on the number of points: leaving out either of two points gives 1). Hence a
polynomial evaluated by Horner's rule with more points than rounds goes to its
last coefficient added (`HornerAtZero`): one round turns `g` into `gx + c`, and
`gx` is `(x - b)g + bg` for any point `b`, whose parts come to `b` times `g` at 0
without `b` and with it, and cancel. `Combine` is `AtZero` over all coordinates, and its checks
make these nonzero and distinct, which is also why no divisor is zero. The
invariant `ShamirInv` says that the shares were dealt by `Split` and that the
result is `Combine`'s. `OneShareHides` solves one linear equation.

**Model-checked only:** the liveness properties (`MutationsEnd` of both modules,
`PushesEnd`, `PersistentSignalsConfirm`, `DegradedIsHealed`), which are out of
the prover's reach, and `ImplementsRegister` of `sharing_serial`, the case of
`RegisterKept` in which nobody is there to be overtaken.

## 5. What is not modelled

* `crypto/aead.go` and `crypto/wipe.go`, `mesh/` (renders a configuration), flags
  and printing: there is nothing for a state machine to say.
* The detectors of `client/watchdog_*.go` query the operating system; they
  appear as any set of signals.
* Heartbeats: the orchestrator only refreshes a timestamp nobody reads.
* The mesh directory (`mesh-add`) is a constant, so that duplicate endpoints and
  a mesh that grows while a backup is healed are not met.
* The two nested ten-second timeouts of a delivery whose announcement hangs
  (`client/node.go:161`) have no common clock; `SecretSharing` has their outcome,
  a share stored although its delivery timed out.
* Tokens are assumed right, and a node's endpoint does not change.
* `NextKey` and the ciphertext of a row: written by the statement that writes
  its pid, they can be neither older nor newer than it.

What a next step would add, most important first: the mesh directory as a
variable of `SecretSharing`; a composition of `SiblingGossip` with several
mutating goroutines per holder.
