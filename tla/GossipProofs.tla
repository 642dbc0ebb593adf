---------------------------- MODULE GossipProofs ----------------------------
(***************************************************************************)
(* What the gossip among any number of holders never gets wrong, for any   *)
(* number of mutations and any of the faults.                              *)
(***************************************************************************)
EXTENDS SiblingGossip, TLAPS

(* Type correctness, with the functions and records TypeOK looks into. *)
Types ==
  /\ rows \in [Holders -> Tables]
  /\ manifest = NoManifest \/ manifest \in Lists
  /\ latest \in Lists /\ old \in Lists /\ snap \in [Holders -> Lists]
  /\ pc \in [Holders -> {"idle", "put", "delete", "tell", "wait"}]
  /\ tell \in [Holders -> SUBSET Holders]
  /\ notices \subseteq Notice
  /\ disturbed \subseteq Holders /\ {mutations, faults} \subseteq Nat

(* What is under way - a list a mutation copied, a notice, and what its    *)
(* handler has worked out - does not run ahead of the holders either.      *)
Timely(nt) ==
  /\ nt.newPID <= latest[nt.from]
  /\ \A v \in DOMAIN nt.updates : Reached(nt.updates[v])
  /\ Reached(nt.list)
UnderWay ==
  /\ \A h \in Holders : Reached(snap[h])
  /\ \A nt \in notices : Timely(nt)

IInv == Types /\ NeverAhead /\ UnderWay

(***************************************************************************)
(* Lists and tables.                                                       *)
(***************************************************************************)
LEMMA TableFacts ==
  /\ \A t \in Tables : /\ DOMAIN t \subseteq Nat /\ t \in [DOMAIN t -> Lists]
                       /\ \A v \in DOMAIN t : t[v] \in Lists
  /\ \A pids \in SUBSET Nat : \A t \in [pids -> Lists] : t \in Tables /\ DOMAIN t = pids
  BY DEF Tables

LEMMA DealtFacts ==
  /\ Dealt \in Lists /\ NoRows \in Tables /\ DOMAIN NoRows = {}
  /\ latest \in Lists => Reached(Dealt)
  <1>1. Dealt \in Lists
    BY DEF Dealt, Lists
  <1>2. NoRows \in [{} -> Lists] /\ DOMAIN NoRows = {}
    BY DEF NoRows
  <1>3. latest \in Lists => Reached(Dealt)
    BY DEF Lists, Reached, Dealt
  <1> QED BY <1>1, <1>2, <1>3, TableFacts

LEMMA Records ==
  ASSUME NEW nt \in Notice, NEW s \in {"sent", "rows", "save"}, NEW u \in Tables, NEW l \in Lists
  PROVE  /\ [nt EXCEPT !.stage = s, !.updates = u] \in Notice
         /\ [nt EXCEPT !.stage = s, !.list = l] \in Notice
         /\ [nt EXCEPT !.updates = u] \in Notice
         /\ [nt EXCEPT !.awaited = FALSE] \in Notice
  BY DEF Notice

(* A list with one entry set to a pseudo-ID that is reached. *)
LEMMA SetEntry ==
  ASSUME NEW list \in Lists, NEW k \in Holders, NEW n \in Nat, latest \in Lists,
         Reached(list), n <= latest[k]
  PROVE  [list EXCEPT ![k] = n] \in Lists /\ Reached([list EXCEPT ![k] = n])
  BY DEF Lists, Reached

LEMMA InitIInv == Init => IInv
  <1> SUFFICES ASSUME Init
               PROVE  IInv
    OBVIOUS
  <1>1. latest \in Lists /\ latest = Dealt /\ notices = {} /\ Reached(Dealt)
    BY DealtFacts DEF Init
  <1>2. Types
    BY <1>1, DealtFacts DEF Init, Types
  <1>3. NeverAhead
    BY <1>1, DealtFacts DEF Init, NeverAhead
  <1>4. UnderWay
    BY <1>1 DEF Init, UnderWay
  <1> QED BY <1>2, <1>3, <1>4 DEF IInv

(***************************************************************************)
(* The steps.                                                              *)
(***************************************************************************)

(* A step at which no holder takes a pseudo-ID. *)
LEMMA NoNewPID ==
  ASSUME IInv, Types', latest' = latest,
         \A h \in Holders : \A v \in DOMAIN rows'[h] : Reached(rows'[h][v]),
         manifest' # NoManifest => Reached(manifest'),
         \A h \in Holders : Reached(snap'[h]),
         \A nt \in notices' : Timely(nt)
  PROVE  IInv'
  <1>1. \A list : Reached(list)' <=> Reached(list)
    BY DEF Reached
  <1>2. \A nt : Timely(nt)' <=> Timely(nt)
    BY <1>1 DEF Timely
  <1> QED BY <1>1, <1>2 DEF IInv, NeverAhead, UnderWay

(* The rows of one holder change. *)
LEMMA RowsStep ==
  ASSUME IInv, NEW h \in Holders, NEW t \in Tables, rows' = [rows EXCEPT ![h] = t],
         \A v \in DOMAIN t : Reached(t[v])
  PROVE  /\ rows' \in [Holders -> Tables]
         /\ \A g \in Holders : \A v \in DOMAIN rows'[g] : Reached(rows'[g][v])
  BY DEF IInv, Types, NeverAhead

LEMMA DeliverStep ==
  ASSUME IInv, NEW h \in Holders, Deliver(h)
  PROVE  IInv'
  <1> DEFINE t == [v \in {0} |-> Dealt]
  <1>1. t \in Tables /\ \A v \in DOMAIN t : Reached(t[v])
    <2>1. t \in [{0} -> Lists] /\ {0} \in SUBSET Nat
      BY DealtFacts
    <2> QED BY <2>1, TableFacts, DealtFacts DEF IInv, Types
  <1>2. rows' = [rows EXCEPT ![h] = t] /\ UNCHANGED <<manifest, latest, mutator, notices, disturbed, counters>>
    BY DEF Deliver
  <1> HIDE DEF t
  <1>3. /\ rows' \in [Holders -> Tables]
        /\ \A g \in Holders : \A v \in DOMAIN rows'[g] : Reached(rows'[g][v])
    BY <1>1, <1>2, RowsStep
  <1> QED BY <1>2, <1>3, NoNewPID DEF mutator, counters, IInv, Types, NeverAhead, UnderWay

LEMMA PutManifestStep == IInv /\ PutManifest => IInv'
  BY NoNewPID, DealtFacts DEF PutManifest, mutator, counters, IInv, Types, NeverAhead, UnderWay

LEMMA GetFragmentStep ==
  ASSUME IInv, NEW h \in Holders, NEW v \in DOMAIN rows[h], GetFragment(h, v)
  PROVE  IInv'
  <1>1. /\ v \in Nat /\ rows[h][v] \in Lists /\ Reached(rows[h][v])
    BY TableFacts DEF IInv, Types, NeverAhead
  <1>2. /\ UNCHANGED <<tables, tell, notices, faults>> /\ mutations' = mutations + 1
        /\ old' = [old EXCEPT ![h] = v] /\ snap' = [snap EXCEPT ![h] = rows[h][v]]
        /\ pc' = [pc EXCEPT ![h] = "put"] /\ disturbed' \subseteq disturbed \cup {h}
    BY DEF GetFragment, Disturb
  <1>3. Types'
    BY <1>1, <1>2 DEF IInv, Types, tables, Lists
  <1>4. \A g \in Holders : Reached(snap'[g])
    BY <1>1, <1>2 DEF IInv, Types, UnderWay
  <1> QED BY <1>2, <1>3, <1>4, NoNewPID DEF tables, IInv, NeverAhead, UnderWay

(* The one step at which a holder takes a pseudo-ID: it stores a row under *)
(* it, with the list it copied.                                            *)
LEMMA PutFragmentStep ==
  ASSUME IInv, NEW h \in Holders, PutFragment(h)
  PROVE  IInv'
  <1> DEFINE new == latest[h] + 1
             t == [v \in DOMAIN rows[h] \cup {new} |-> IF v = new THEN snap[h] ELSE rows[h][v]]
  <1>1. /\ latest' = [latest EXCEPT ![h] = new] /\ rows' = [rows EXCEPT ![h] = t]
        /\ pc' = [pc EXCEPT ![h] = "delete"]
        /\ UNCHANGED <<manifest, old, snap, tell, notices, disturbed, counters>>
    BY DEF PutFragment
  <1>2. new \in Nat /\ snap[h] \in Lists /\ latest \in [Holders -> Nat]
    BY DEF IInv, Types, Lists
  <1>3. DOMAIN t \subseteq Nat /\ t \in [DOMAIN t -> Lists] /\ \A v \in DOMAIN t : Reached(t[v])
    <2>1. rows[h] \in Tables /\ Reached(snap[h]) /\ \A v \in DOMAIN rows[h] : Reached(rows[h][v])
      BY DEF IInv, Types, NeverAhead, UnderWay
    <2> QED BY <1>2, <2>1, TableFacts
  <1>4. t \in Tables
    BY <1>3, TableFacts
  <1> HIDE DEF t
  <1>5. /\ rows' \in [Holders -> Tables]
        /\ \A g \in Holders : \A v \in DOMAIN rows'[g] : Reached(rows'[g][v])
    BY <1>1, <1>3, <1>4, RowsStep
  <1>6. latest' \in [Holders -> Nat] /\ \A k \in Holders : latest[k] <= latest'[k]
    BY <1>1, <1>2
  <1>7. Types'
    BY <1>1, <1>5, <1>6 DEF IInv, Types, Lists, counters
  <1>8. \A list \in Lists : Reached(list) => Reached(list)'
    BY <1>2, <1>6 DEF Reached, Lists
  <1>9. NeverAhead'
    <2>1. \A g \in Holders : \A v \in DOMAIN rows'[g] : rows'[g][v] \in Lists
      BY <1>5, TableFacts
    <2>2. manifest # NoManifest => manifest \in Lists /\ Reached(manifest)
      BY DEF IInv, Types, NeverAhead
    <2> QED BY <1>1, <1>5, <1>8, <2>1, <2>2 DEF NeverAhead
  <1>10. UnderWay'
    <2>1. \A g \in Holders : snap[g] \in Lists /\ Reached(snap[g])
      BY DEF IInv, Types, UnderWay
    <2>2. ASSUME NEW nt \in notices
          PROVE  Timely(nt)'
      <3>1. nt \in Notice /\ Timely(nt)
        BY DEF IInv, Types, UnderWay
      <3>2. nt.newPID \in Nat /\ nt.from \in Holders /\ nt.list \in Lists /\ nt.updates \in Tables
        BY <3>1 DEF Notice
      <3>3. \A v \in DOMAIN nt.updates : nt.updates[v] \in Lists
        BY <3>2, TableFacts
      <3>4. nt.newPID <= latest'[nt.from]
        BY <1>2, <1>6, <3>1, <3>2 DEF Timely
      <3> QED BY <1>8, <3>1, <3>2, <3>3, <3>4 DEF Timely
    <2> QED BY <1>1, <1>8, <2>1, <2>2 DEF UnderWay
  <1> QED BY <1>7, <1>9, <1>10 DEF IInv

LEMMA DeleteFragmentStep ==
  ASSUME IInv, NEW h \in Holders, DeleteFragment(h)
  PROVE  IInv'
  <1> DEFINE t == [v \in DOMAIN rows[h] \ {old[h]} |-> rows[h][v]]
  <1>1. /\ rows' = [rows EXCEPT ![h] = t] /\ pc' = [pc EXCEPT ![h] = "tell"]
        /\ tell' = [tell EXCEPT ![h] = Holders \ {h}]
        /\ UNCHANGED <<manifest, latest, old, snap, notices, disturbed, counters>>
    BY DEF DeleteFragment
  <1>2. DOMAIN t \subseteq Nat /\ t \in [DOMAIN t -> Lists] /\ \A v \in DOMAIN t : Reached(t[v])
    <2>1. rows[h] \in Tables /\ \A v \in DOMAIN rows[h] : Reached(rows[h][v])
      BY DEF IInv, Types, NeverAhead
    <2> QED BY <2>1, TableFacts
  <1>3. t \in Tables
    BY <1>2, TableFacts
  <1> HIDE DEF t
  <1>4. /\ rows' \in [Holders -> Tables]
        /\ \A g \in Holders : \A v \in DOMAIN rows'[g] : Reached(rows'[g][v])
    BY <1>1, <1>2, <1>3, RowsStep
  <1>5. Types'
    BY <1>1, <1>4 DEF IInv, Types, counters
  <1> QED BY <1>1, <1>4, <1>5, NoNewPID DEF IInv, NeverAhead, UnderWay

(* A step that leaves the tables alone; notices it adds or changes are     *)
(* timely.                                                                 *)
LEMMA TablesKept ==
  ASSUME IInv, Types', UNCHANGED tables, \A h \in Holders : Reached(snap'[h]),
         \A nt \in notices' : nt \in notices \/ Timely(nt)
  PROVE  IInv'
  BY NoNewPID DEF tables, IInv, NeverAhead, UnderWay

LEMMA ForgottenFacts ==
  ASSUME IInv, NEW nts \in SUBSET notices
  PROVE  Forgotten(nts) \subseteq Notice /\ \A nt \in Forgotten(nts) : Timely(nt)
  <1> SUFFICES ASSUME NEW nt \in nts
               PROVE  /\ [nt EXCEPT !.awaited = FALSE] \in Notice
                      /\ Timely([nt EXCEPT !.awaited = FALSE])
    BY DEF Forgotten
  <1>1. nt \in Notice /\ Timely(nt)
    BY DEF IInv, Types, UnderWay
  <1>2. [nt EXCEPT !.awaited = FALSE] \in Notice
    BY <1>1 DEF Notice
  <1>3. Timely([nt EXCEPT !.awaited = FALSE])
    BY <1>1 DEF Notice, Timely
  <1> QED BY <1>2, <1>3

LEMMA MutateStep ==
  ASSUME IInv, NEW h \in Holders, Mutate(h)
  PROVE  IInv'
  <1>0. Types /\ \A g \in Holders : Reached(snap[g])
    BY DEF IInv, UnderWay
  <1>1. CASE MutationEnds(h)
    <2>1. /\ UNCHANGED <<tables, tell, notices, disturbed, counters>>
          /\ pc' = [pc EXCEPT ![h] = "idle"]
          /\ old' = [old EXCEPT ![h] = 0] /\ snap' = [snap EXCEPT ![h] = Dealt]
      BY <1>1 DEF MutationEnds
    <2>2. Types'
      BY <1>0, <2>1, DealtFacts DEF Types, tables, counters, Lists
    <2>3. \A g \in Holders : Reached(snap'[g])
      BY <1>0, <2>1, DealtFacts DEF Types
    <2> QED BY <2>1, <2>2, <2>3, TablesKept
  <1>2. CASE NotifyTimesOut(h)
    <2>1. /\ UNCHANGED <<tables, old, snap, tell, counters>>
          /\ pc' = [pc EXCEPT ![h] = "tell"]
          /\ notices' = (notices \ Awaited(h)) \cup Forgotten(Awaited(h))
          /\ disturbed' = disturbed \cup {nt.to : nt \in Awaited(h)}
      BY <1>2 DEF NotifyTimesOut
    <2>2. Awaited(h) \subseteq notices /\ \A nt \in notices : nt.to \in Holders
      BY <1>0 DEF Awaited, Types, Notice
    <2>3. Forgotten(Awaited(h)) \subseteq Notice /\ \A nt \in Forgotten(Awaited(h)) : Timely(nt)
      BY <2>2, ForgottenFacts
    <2>4. Types'
      BY <1>0, <2>1, <2>2, <2>3 DEF Types, tables, counters
    <2> QED BY <1>0, <2>1, <2>3, <2>4, TablesKept
  <1>3. ASSUME NEW m \in Holders \ {h}, NotifyMutation(h, m)
        PROVE  IInv'
    <2> DEFINE nt == Told(h, m, latest[h])
    <2>1. /\ UNCHANGED <<tables, old, snap, disturbed, counters>>
          /\ tell' = [tell EXCEPT ![h] = @ \ {m}] /\ pc' = [pc EXCEPT ![h] = "wait"]
          /\ notices' = notices \cup {nt}
      BY <1>3 DEF NotifyMutation
    <2>2. nt \in Notice
      BY <1>0, DealtFacts DEF Told, Notice, Types, Lists
    <2>3. Timely(nt)
      BY <1>0, DealtFacts DEF Told, Timely, Types, Lists
    <2> HIDE DEF nt
    <2>4. Types'
      BY <1>0, <2>1, <2>2 DEF Types, tables, counters
    <2> QED BY <1>0, <2>1, <2>3, <2>4, TablesKept
  <1>4. ASSUME NEW m \in Holders \ {h}, NotifyFails(h, m)
        PROVE  IInv'
    <2>1. /\ UNCHANGED <<tables, pc, old, snap, notices, mutations>>
          /\ tell' = [tell EXCEPT ![h] = @ \ {m}] /\ faults' = faults + 1
          /\ disturbed' = disturbed \cup {m}
      BY <1>4 DEF NotifyFails, Fault
    <2>2. Types'
      BY <1>0, <2>1 DEF Types, tables
    <2> QED BY <1>0, <2>1, <2>2, TablesKept
  <1> QED BY <1>1, <1>2, <1>3, <1>4, PutFragmentStep, DeleteFragmentStep DEF Mutate

(* What a handler puts in the place of the notice it handles. *)
LEMMA BecomesStep ==
  ASSUME IInv, NEW nt \in notices, NEW new \in Notice, Timely(new), Becomes(nt, new),
         UNCHANGED <<tables, mutator, counters>>, disturbed' \subseteq disturbed \cup {nt.to}
  PROVE  IInv'
  <1>1. nt.to \in Holders
    BY DEF IInv, Types, Notice
  <1>2. Types'
    BY <1>1 DEF IInv, Types, Becomes, tables, mutator, counters
  <1> QED BY <1>2, TablesKept DEF IInv, UnderWay, Becomes, mutator

LEMMA AnswerTypes ==
  ASSUME Types, NEW nt \in notices, Answer(nt)
  PROVE  notices' \subseteq Notice /\ pc' \in [Holders -> {"idle", "put", "delete", "tell", "wait"}]
  BY DEF Types, Answer

LEMMA HandleStep ==
  ASSUME IInv, NEW nt \in notices, Handle(nt)
  PROVE  IInv'
  <1>0. /\ Types /\ nt \in Notice /\ Timely(nt) /\ \A g \in Holders : Reached(snap[g])
        /\ nt.to \in Holders /\ nt.from \in Holders /\ nt.newPID \in Nat
        /\ nt.updates \in Tables /\ nt.list \in Lists /\ latest \in Lists
    BY DEF IInv, UnderWay, Types, Notice
  <1>1. CASE SelectRows(nt)
    <2> DEFINE mine == rows[nt.to]
               hit  == {v \in DOMAIN mine : mine[v][nt.from] = nt.oldPID}
               new  == [v \in hit |-> [mine[v] EXCEPT ![nt.from] = nt.newPID]]
               next == [nt EXCEPT !.stage = "rows", !.updates = new]
    <2>1. Becomes(nt, next) /\ UNCHANGED <<tables, mutator, counters>>
          /\ disturbed' \subseteq disturbed \cup {nt.to}
      BY <1>1 DEF SelectRows, Disturb
    <2>2. mine \in Tables /\ \A v \in DOMAIN mine : mine[v] \in Lists /\ Reached(mine[v])
      BY <1>0, TableFacts DEF IInv, Types, NeverAhead
    <2>3. \A v \in hit : new[v] \in Lists /\ Reached(new[v])
      <3>1. \A v \in hit : mine[v] \in Lists /\ Reached(mine[v])
        BY <2>2
      <3> QED BY <1>0, <3>1, SetEntry DEF Timely
    <2>4. new \in Tables
      <3>1. hit \in SUBSET Nat
        BY <2>2, TableFacts
      <3>2. new \in [hit -> Lists]
        BY <2>3
      <3> QED BY <3>1, <3>2, TableFacts
    <2>5. DOMAIN new = hit
      OBVIOUS
    <2> HIDE DEF new, hit, mine
    <2>6. next \in Notice /\ next.updates = new /\ next.newPID = nt.newPID
          /\ next.from = nt.from /\ next.list = nt.list
      BY <1>0, <2>4 DEF Notice
    <2>7. Timely(next)
      BY <1>0, <2>3, <2>5, <2>6 DEF Timely
    <2> HIDE DEF next
    <2> QED BY <2>1, <2>6, <2>7, BecomesStep
  <1>2. ASSUME NEW v \in DOMAIN nt.updates, UpdateRow(nt, v)
        PROVE  IInv'
    <2> DEFINE rest == [w \in DOMAIN nt.updates \ {v} |-> nt.updates[w]]
               next == [nt EXCEPT !.updates = rest]
    <2>1. /\ notices' = (notices \ {nt}) \cup {next}
          /\ rows' = IF v \in DOMAIN rows[nt.to]
                     THEN [rows EXCEPT ![nt.to][v] = nt.updates[v]] ELSE rows
          /\ UNCHANGED <<manifest, latest, mutator, disturbed, counters>>
      BY <1>2 DEF UpdateRow, Becomes
    <2>2. /\ DOMAIN nt.updates \subseteq Nat
          /\ \A w \in DOMAIN nt.updates : nt.updates[w] \in Lists /\ Reached(nt.updates[w])
      BY <1>0, TableFacts DEF Timely
    <2>3. rest \in Tables /\ \A w \in DOMAIN rest : Reached(rest[w])
      <3>1. rest \in [DOMAIN nt.updates \ {v} -> Lists] /\ DOMAIN nt.updates \ {v} \in SUBSET Nat
        BY <2>2
      <3>2. rest \in Tables
        BY <3>1, TableFacts
      <3> QED BY <2>2, <3>2
    <2> HIDE DEF rest
    <2>4. next \in Notice /\ Timely(next)
      BY <1>0, <2>3 DEF Notice, Timely
    <2> HIDE DEF next
    <2>5. /\ rows' \in [Holders -> Tables]
          /\ \A g \in Holders : \A w \in DOMAIN rows'[g] : Reached(rows'[g][w])
      <3>1. CASE v \in DOMAIN rows[nt.to]
        <4> DEFINE t == [rows[nt.to] EXCEPT ![v] = nt.updates[v]]
        <4>1. rows[nt.to] \in Tables /\ \A w \in DOMAIN rows[nt.to] : Reached(rows[nt.to][w])
          BY <1>0 DEF IInv, Types, NeverAhead
        <4>2. DOMAIN t \subseteq Nat /\ t \in [DOMAIN t -> Lists] /\ \A w \in DOMAIN t : Reached(t[w])
          BY <2>2, <4>1, TableFacts
        <4>3. t \in Tables /\ rows' = [rows EXCEPT ![nt.to] = t]
          BY <2>1, <3>1, <4>2, TableFacts
        <4> HIDE DEF t
        <4> QED BY <1>0, <4>2, <4>3, RowsStep
      <3>2. CASE v \notin DOMAIN rows[nt.to]
        BY <2>1, <3>2 DEF IInv, Types, NeverAhead
      <3> QED BY <3>1, <3>2
    <2>6. Types'
      BY <1>0, <2>1, <2>4, <2>5 DEF Types, mutator, counters
    <2> QED BY <1>0, <2>1, <2>4, <2>5, <2>6, NoNewPID DEF IInv, NeverAhead, UnderWay, mutator
  <1>3. CASE NoManifestHere(nt)
    <2>1. /\ Answer(nt) /\ disturbed' \subseteq disturbed \cup {nt.to}
          /\ UNCHANGED <<tables, old, snap, tell, counters>>
      BY <1>3 DEF NoManifestHere, Disturb
    <2>2. Types'
      BY <1>0, <2>1, AnswerTypes DEF Types, tables, counters
    <2> QED BY <1>0, <2>1, <2>2, TablesKept DEF Answer
  <1>4. CASE ReadManifest(nt)
    <2> DEFINE list == Replace(manifest, nt.from, nt.oldPID, nt.newPID)
               next == [nt EXCEPT !.stage = "save", !.list = list]
    <2>1. /\ Becomes(nt, next) /\ UNCHANGED <<tables, mutator, counters>>
          /\ disturbed' \subseteq disturbed \cup {nt.to} /\ manifest # NoManifest
      BY <1>4 DEF ReadManifest, Disturb
    <2>2. manifest \in Lists /\ Reached(manifest)
      BY <1>0, <2>1 DEF IInv, Types, NeverAhead
    <2>3. list \in Lists /\ Reached(list)
      BY <1>0, <2>2, SetEntry DEF Replace, Timely
    <2> HIDE DEF list
    <2>4. next \in Notice /\ Timely(next)
      BY <1>0, <2>3 DEF Notice, Timely
    <2> HIDE DEF next
    <2> QED BY <2>1, <2>4, BecomesStep
  <1>5. CASE SaveManifest(nt)
    <2>1. /\ Answer(nt) /\ manifest' = nt.list
          /\ UNCHANGED <<rows, latest, old, snap, tell, disturbed, counters>>
      BY <1>5 DEF SaveManifest
    <2>2. Types'
      BY <1>0, <2>1, AnswerTypes DEF Types, counters
    <2>3. \A n \in notices' : n \in notices
      BY <2>1 DEF Answer
    <2> QED BY <1>0, <2>1, <2>2, <2>3, NoNewPID DEF IInv, NeverAhead, UnderWay, Timely
  <1> QED BY <1>1, <1>2, <1>3, <1>4, <1>5 DEF Handle

LEMMA RestartStep ==
  ASSUME IInv, NEW h \in Holders, Restart(h)
  PROVE  IInv'
  <1>0. Types /\ \A g \in Holders : Reached(snap[g])
    BY DEF IInv, UnderWay
  <1> DEFINE handled == {nt \in notices : nt.to = h}
             sent    == Awaited(h) \ handled
  <1>1. /\ notices' = (notices \ (handled \cup sent)) \cup Forgotten(sent)
        /\ pc' = [g \in Holders |->
                    IF g = h THEN "idle"
                    ELSE IF pc[g] = "wait" /\ Awaited(g) \cap handled # {}
                    THEN "tell" ELSE pc[g]]
        /\ old' = [old EXCEPT ![h] = 0] /\ snap' = [snap EXCEPT ![h] = Dealt]
        /\ tell' = [tell EXCEPT ![h] = {}]
        /\ disturbed' \subseteq Holders /\ faults' = faults + 1
        /\ UNCHANGED <<tables, mutations>>
    BY <1>0 DEF Restart, Fault, Types
  <1>2. sent \subseteq notices
    BY DEF Awaited
  <1> HIDE DEF handled, sent
  <1>3. Forgotten(sent) \subseteq Notice /\ \A nt \in Forgotten(sent) : Timely(nt)
    BY <1>2, ForgottenFacts
  <1>4. pc' \in [Holders -> {"idle", "put", "delete", "tell", "wait"}]
    BY <1>0, <1>1 DEF Types
  <1>5. Types'
    <2>1. old' \in Lists /\ snap' \in [Holders -> Lists]
      BY <1>0, <1>1, DealtFacts DEF Types, Lists
    <2>2. tell' \in [Holders -> SUBSET Holders]
      BY <1>0, <1>1 DEF Types
    <2>3. notices' \subseteq Notice /\ disturbed' \subseteq Holders /\ faults' \in Nat
      BY <1>0, <1>1, <1>3 DEF Types
    <2>4. UNCHANGED <<rows, manifest, latest, mutations>>
      BY <1>1 DEF tables
    <2> QED BY <1>0, <1>4, <2>1, <2>2, <2>3, <2>4 DEF Types
  <1>6. \A g \in Holders : Reached(snap'[g])
    BY <1>0, <1>1, DealtFacts DEF Types
  <1> QED BY <1>1, <1>3, <1>5, <1>6, TablesKept

LEMMA NextIInv == IInv /\ [Next]_vars => IInv'
  <1> SUFFICES ASSUME IInv, [Next]_vars
               PROVE  IInv'
    OBVIOUS
  <1>1. CASE UNCHANGED vars
    BY <1>1 DEF vars, tables, mutator, counters, IInv, Types, NeverAhead, UnderWay, Timely, Reached
  <1> QED BY <1>1, DeliverStep, PutManifestStep, GetFragmentStep, MutateStep, HandleStep,
             RestartStep DEF Next

LEMMA Invariance == Spec => []IInv
  BY InitIInv, NextIInv, PTL DEF Spec

(***************************************************************************)
(* The theorems.                                                           *)
(***************************************************************************)

(* Types: every row's list, the manifest's and every list a handler works  *)
(* out name each member of the group once, whatever goes wrong.            *)
THEOREM GossipTypes == Spec => []TypeOK
  <1>1. ASSUME IInv
        PROVE  TypeOK
    <2>1. \A h \in Holders : DOMAIN rows[h] \subseteq Nat /\ rows[h] \in [DOMAIN rows[h] -> Lists]
      BY <1>1, TableFacts DEF IInv, Types
    <2>2. ASSUME NEW nt \in notices
          PROVE  /\ nt.to \in Holders /\ nt.from \in Holders /\ nt.awaited \in BOOLEAN
                 /\ nt.oldPID \in Nat /\ nt.newPID \in Nat /\ nt.list \in Lists
                 /\ nt.stage \in {"sent", "rows", "save"} /\ nt.updates \in Tables
      <3>1. nt \in Notice
        BY <1>1 DEF IInv, Types
      <3> QED BY <3>1 DEF Notice
    <2>3. \A nt \in notices : /\ DOMAIN nt.updates \subseteq Nat
                              /\ nt.updates \in [DOMAIN nt.updates -> Lists]
      BY <2>2, TableFacts
    <2> QED BY <1>1, <2>1, <2>2, <2>3 DEF IInv, Types, TypeOK
  <1> QED BY <1>1, Invariance, PTL

(* No list ever names a pseudo-ID its holder has not stored a row under    *)
(* yet (applyMutation, UpdateSibling, UpdateManifestMember).               *)
THEOREM Behind == Spec => []NeverAhead
  <1>1. IInv => NeverAhead
    BY DEF IInv
  <1> QED BY <1>1, Invariance, PTL

(***************************************************************************)
(* How far the lists at a holder that missed nothing lag behind.           *)
(***************************************************************************)

(* k has taken a new pseudo-ID and has not yet told h. *)
Due(k, h) == \/ pc[k] = "delete"
             \/ pc[k] \in {"tell", "wait"} /\ h \in tell[k]
Between(k, h, stages) == {nt \in notices : nt.from = k /\ nt.to = h /\ nt.stage \in stages}
Expected(k, lags) == IF lags THEN old[k] ELSE latest[k]
RowLags(k, h) == Due(k, h) \/ Between(k, h, {"sent"}) # {}
ManifestLags(k, h) == Due(k, h) \/ Between(k, h, {"sent", "rows", "save"}) # {}
Unwritten(k, h, v) == \E nt \in Between(k, h, {"rows"}) : v \in DOMAIN nt.updates

(* What h's rows, the list its mutation copied and its manifest say of the *)
(* others.  Before there is a row or a manifest, they will start at 0.     *)
RowsFollow(h) == \A k \in Holders \ {h} :
  /\ \A v \in DOMAIN rows[h] : rows[h][v][k] = Expected(k, RowLags(k, h) \/ Unwritten(k, h, v))
  /\ pc[h] = "put" => snap[h][k] = Expected(k, RowLags(k, h))
  /\ rows[h] = NoRows => Expected(k, RowLags(k, h)) = 0
ManifestFollows(h) == h = Owner => \A k \in Holders \ {h} :
  Expected(k, ManifestLags(k, h)) = IF manifest = NoManifest THEN 0 ELSE manifest[k]

(* A notice to h tells of the mutation its sender is waiting with, and its *)
(* handler has the lists to itself.                                        *)
Genuine(nt) ==
  /\ nt.from # nt.to /\ nt.awaited /\ nt.to \notin tell[nt.from]
  /\ nt.oldPID = old[nt.from] /\ nt.newPID = latest[nt.from]
FoldsRows(nt) == nt.stage = "rows" =>
  /\ pc[nt.to] # "put" /\ rows[nt.to] # NoRows
  /\ \A v \in DOMAIN nt.updates \cap DOMAIN rows[nt.to] : \A k \in Holders \ {nt.to} :
       nt.updates[v][k] = IF k = nt.from THEN nt.newPID ELSE rows[nt.to][v][k]
FoldsManifest(nt) == nt.stage = "save" =>
  /\ manifest # NoManifest
  /\ \A k \in Holders \ {nt.to} :
       nt.list[k] = IF k = nt.from THEN nt.newPID ELSE manifest[k]
Alone(nt) == nt.stage \in {"rows", "save"} =>
  \A nu \in notices : nu.to = nt.to /\ nu.stage = nt.stage => nu = nt
NoticesFollow(h) == \A nt \in notices : nt.to = h =>
  Genuine(nt) /\ FoldsRows(nt) /\ FoldsManifest(nt) /\ Alone(nt)

Follows(h) == RowsFollow(h) /\ ManifestFollows(h) /\ NoticesFollow(h)

(* A goroutine waits for one notice at a time, and only the owner's        *)
(* handlers write a manifest.                                              *)
Waiting == \A nt \in notices :
  /\ nt.stage = "save" => nt.to = Owner
  /\ nt.awaited => /\ pc[nt.from] = "wait"
                   /\ \A nu \in notices : nu.awaited /\ nu.from = nt.from => nu = nt

(* Unless a mutation was cut short, a holder has one row, or two between   *)
(* put and delete.                                                         *)
OneRow(k) ==
  /\ rows[k] = NoRows => pc[k] = "idle" /\ latest[k] = 0
  /\ pc[k] = "idle" => DOMAIN rows[k] \subseteq {latest[k]}
  /\ pc[k] = "put" => old[k] = latest[k] /\ DOMAIN rows[k] = {latest[k]}
  /\ pc[k] = "delete" => latest[k] = old[k] + 1 /\ DOMAIN rows[k] = {old[k], latest[k]}
  /\ pc[k] \in {"tell", "wait"} => latest[k] = old[k] + 1 /\ DOMAIN rows[k] = {latest[k]}

SyncInv ==
  /\ Waiting
  /\ disturbed # Holders => \A k \in Holders : OneRow(k)
  /\ \A h \in Holders \ disturbed : Follows(h)

LEMMA InSyncFollows == SyncInv => InSync
  <1> SUFFICES ASSUME SyncInv, Quiet, NEW h \in Holders \ disturbed, NEW k \in Holders \ {h}
               PROVE  /\ \A v \in DOMAIN rows[h] : rows[h][v][k] = latest[k]
                      /\ h = Owner /\ manifest # NoManifest => manifest[k] = latest[k]
    BY DEF InSync, Current
  <1>1. notices = {} /\ pc[k] = "idle" /\ Follows(h)
    BY DEF Quiet, SyncInv
  <1>2. ~Due(k, h) /\ \A stages : Between(k, h, stages) = {}
    BY <1>1 DEF Due, Between
  <1>3. ~RowLags(k, h) /\ ~ManifestLags(k, h) /\ \A v : ~Unwritten(k, h, v)
    BY <1>2 DEF RowLags, ManifestLags, Unwritten
  <1> QED BY <1>1, <1>3 DEF Follows, RowsFollow, ManifestFollows, Expected

LEMMA InitSync == Init => SyncInv
  <1> SUFFICES ASSUME Init
               PROVE  SyncInv
    OBVIOUS
  <1>1. notices = {} /\ \A k \in Holders : /\ pc[k] = "idle" /\ rows[k] = NoRows
                                           /\ latest[k] = 0
    BY DEF Init, Dealt
  <1>2. \A k, h \in Holders : ~RowLags(k, h) /\ ~ManifestLags(k, h)
    BY <1>1 DEF RowLags, ManifestLags, Due, Between
  <1>3. \A h \in Holders : RowsFollow(h)
    BY <1>1, <1>2, DealtFacts DEF RowsFollow, Expected
  <1>4. \A h \in Holders : ManifestFollows(h) /\ NoticesFollow(h)
    BY <1>1, <1>2 DEF ManifestFollows, NoticesFollow, Expected, Init
  <1>5. Waiting /\ \A k \in Holders : OneRow(k)
    BY <1>1, DealtFacts DEF Waiting, OneRow
  <1> QED BY <1>3, <1>4, <1>5 DEF SyncInv, Follows

(***************************************************************************)
(* Steps that concern h's lists at most by what others take or send.       *)
(***************************************************************************)
Value(k, h) == Expected(k, Due(k, h))
NoneTo(k, h) == \A nt \in notices : nt.to = h => nt.from # k

(* k stays where it is, as far as h can tell ... *)
Same(k, h) == /\ Due(k, h)' <=> Due(k, h)
              /\ old'[k] = old[k] /\ latest'[k] = latest[k]
              /\ h \in tell'[k] <=> h \in tell[k]
(* ... or moves on with no notice to h under way. *)
Settled(k, h) == NoneTo(k, h) /\ Value(k, h)' = Value(k, h)

LEMMA NoneToFacts ==
  ASSUME NEW k, NEW h, NoneTo(k, h)
  PROVE  /\ \A stages : Between(k, h, stages) = {}
         /\ Expected(k, RowLags(k, h)) = Value(k, h)
         /\ Expected(k, ManifestLags(k, h)) = Value(k, h)
         /\ \A v : ~Unwritten(k, h, v)
  <1>1. \A stages : Between(k, h, stages) = {}
    BY DEF NoneTo, Between
  <1> QED BY <1>1 DEF RowLags, ManifestLags, Unwritten, Value, Expected

LEMMA Frame ==
  ASSUME NEW h \in Holders, Follows(h),
         rows'[h] = rows[h],
         pc'[h] = "put" => pc[h] = "put" /\ snap'[h] = snap[h],
         h = Owner => manifest' = manifest,
         \A nt : nt \in notices' /\ nt.to = h <=> nt \in notices /\ nt.to = h,
         \A k \in Holders \ {h} : Same(k, h) \/ Settled(k, h),
         \A nt \in notices : nt.from \in Holders /\ (nt.stage = "save" => nt.to = Owner)
  PROVE  Follows(h)'
  <1>1. \A k, stages : Between(k, h, stages)' = Between(k, h, stages)
    BY DEF Between
  <1>2. ASSUME NEW k \in Holders \ {h}
        PROVE  /\ Expected(k, RowLags(k, h))' = Expected(k, RowLags(k, h))
               /\ Expected(k, ManifestLags(k, h))' = Expected(k, ManifestLags(k, h))
               /\ \A v : Expected(k, RowLags(k, h) \/ Unwritten(k, h, v))'
                          = Expected(k, RowLags(k, h) \/ Unwritten(k, h, v))
    <2>1. CASE Same(k, h)
      BY <1>1, <2>1 DEF Same, Expected, RowLags, ManifestLags, Unwritten
    <2>2. CASE Settled(k, h)
      <3>1. NoneTo(k, h) /\ NoneTo(k, h)' /\ Value(k, h)' = Value(k, h)
        BY <2>2 DEF Settled, NoneTo
      <3>2. \A stages : Between(k, h, stages) = {} /\ Between(k, h, stages)' = {}
        BY <1>1, <3>1, NoneToFacts
      <3> QED BY <3>1, <3>2 DEF RowLags, ManifestLags, Unwritten, Value, Expected
    <2> QED BY <2>1, <2>2
  <1>3. RowsFollow(h)'
    BY <1>2 DEF Follows, RowsFollow
  <1>4. ManifestFollows(h)'
    BY <1>2 DEF Follows, ManifestFollows
  <1>5. ASSUME NEW nt \in notices', nt.to = h
        PROVE  (Genuine(nt) /\ FoldsRows(nt) /\ FoldsManifest(nt) /\ Alone(nt))'
    <2>1. nt \in notices /\ nt.from \in Holders \ {h}
          /\ Genuine(nt) /\ FoldsRows(nt) /\ FoldsManifest(nt) /\ Alone(nt)
      BY <1>5 DEF Follows, NoticesFollow, Genuine
    <2>2. Same(nt.from, h)
      BY <1>5, <2>1 DEF Settled, NoneTo
    <2>3. Genuine(nt)'
      BY <1>5, <2>1, <2>2 DEF Genuine, Same
    <2>4. FoldsRows(nt)'
      BY <1>5, <2>1 DEF FoldsRows
    <2>5. Alone(nt)'
      BY <1>5, <2>1 DEF Alone
    <2>6. FoldsManifest(nt)'
      BY <1>5, <2>1 DEF FoldsManifest
    <2> QED BY <2>3, <2>4, <2>5, <2>6
  <1> QED BY <1>3, <1>4, <1>5 DEF Follows, NoticesFollow

LEMMA SenderFacts ==
  ASSUME Types, Waiting
  PROVE  \A nt \in notices : /\ nt.from \in Holders /\ nt.to \in Holders
                             /\ nt.stage = "save" => nt.to = Owner
  BY DEF Types, Notice, Waiting

(* Whoever does not wait for an answer has no notice under way to a holder *)
(* that missed nothing.                                                    *)
LEMMA Untold ==
  ASSUME Waiting, NEW h, Follows(h), NEW k, pc[k] # "wait"
  PROVE  NoneTo(k, h)
  BY DEF Waiting, Follows, NoticesFollow, Genuine, NoneTo

(* A step at which no notice changes. *)
LEMMA WaitingStays ==
  ASSUME Waiting, notices' = notices, \A k \in Holders : pc[k] = "wait" => pc'[k] = "wait", Types
  PROVE  Waiting'
  BY DEF Waiting, Types, Notice

LEMMA DeliverSync ==
  ASSUME IInv, SyncInv, NEW g \in Holders, Deliver(g)
  PROVE  SyncInv'
  <1> DEFINE t == [v \in {0} |-> Dealt]
  <1>1. /\ rows[g] = NoRows /\ rows' = [rows EXCEPT ![g] = t]
        /\ UNCHANGED <<manifest, latest, pc, old, snap, tell, notices, disturbed>>
    BY DEF Deliver, mutator
  <1>2. Types /\ Waiting /\ rows \in [Holders -> Tables]
    BY DEF IInv, SyncInv, Types
  <1>3. DOMAIN t = {0} /\ t # NoRows /\ \A k \in Holders : t[0][k] = 0
    BY DealtFacts DEF Dealt
  <1> HIDE DEF t
  <1>4. Waiting'
    BY <1>1, <1>2, WaitingStays
  <1>5. ASSUME disturbed # Holders, NEW k \in Holders
        PROVE  OneRow(k)'
    <2>1. OneRow(k)
      BY <1>5 DEF SyncInv
    <2>2. k # g => rows'[k] = rows[k]
      BY <1>1, <1>2
    <2>3. rows'[g] = t
      BY <1>1, <1>2
    <2> QED BY <1>1, <1>3, <2>1, <2>2, <2>3 DEF OneRow
  <1>6. \A k, h : Same(k, h)
    BY <1>1 DEF Same, Due
  <1>7. ASSUME NEW h \in Holders \ disturbed
        PROVE  Follows(h)'
    <2>0. Follows(h)
      BY DEF SyncInv
    <2>1. CASE h # g
      BY <1>1, <1>2, <1>6, <2>0, <2>1, Frame, SenderFacts
    <2>2. CASE h = g
      <3>1. rows'[h] = t /\ OneRow(h)
        BY <1>1, <1>2, <2>2 DEF SyncInv
      <3>2. pc[h] = "idle" /\ \A nt \in notices : nt.to = h => nt.stage # "rows"
        BY <1>1, <2>0, <2>2, <3>1 DEF OneRow, Follows, NoticesFollow, FoldsRows
      <3>3. \A k, stages : Between(k, h, stages)' = Between(k, h, stages)
        BY <1>1 DEF Between
      <3>4. \A k, v : ~Unwritten(k, h, v)'
        BY <1>1, <3>2 DEF Unwritten, Between
      <3>5. \A k : Expected(k, RowLags(k, h))' = Expected(k, RowLags(k, h))
                  /\ Expected(k, ManifestLags(k, h))' = Expected(k, ManifestLags(k, h))
        BY <1>1, <3>3 DEF Expected, RowLags, ManifestLags, Due
      <3>6. RowsFollow(h)'
        <4> SUFFICES ASSUME NEW k \in Holders \ {h}
                     PROVE  t[0][k] = Expected(k, RowLags(k, h))'
          BY <1>1, <1>3, <3>1, <3>2, <3>4 DEF RowsFollow, Expected
        <4> QED BY <1>1, <1>3, <2>0, <2>2, <3>5 DEF Follows, RowsFollow
      <3>7. ManifestFollows(h)'
        BY <1>1, <2>0, <3>5 DEF Follows, ManifestFollows
      <3>8. NoticesFollow(h)'
        BY <1>1, <2>0, <3>2 DEF Follows, NoticesFollow, Genuine, FoldsRows, FoldsManifest, Alone
      <3> QED BY <3>6, <3>7, <3>8 DEF Follows
    <2> QED BY <2>1, <2>2
  <1> QED BY <1>1, <1>4, <1>5, <1>7 DEF SyncInv

LEMMA PutManifestSync ==
  ASSUME IInv, SyncInv, PutManifest
  PROVE  SyncInv'
  <1>1. /\ manifest = NoManifest /\ manifest' = Dealt
        /\ UNCHANGED <<rows, latest, pc, old, snap, tell, notices, disturbed>>
    BY DEF PutManifest, mutator
  <1>2. Types /\ Waiting
    BY DEF IInv, SyncInv
  <1>3. Waiting'
    BY <1>1, <1>2, WaitingStays
  <1>4. \A k \in Holders : OneRow(k)' <=> OneRow(k)
    BY <1>1 DEF OneRow
  <1>5. \A k, h : Same(k, h)
    BY <1>1 DEF Same, Due
  <1>6. ASSUME NEW h \in Holders \ disturbed
        PROVE  Follows(h)'
    <2>0. Follows(h)
      BY DEF SyncInv
    <2>1. CASE h # Owner
      BY <1>1, <1>2, <1>5, <2>0, <2>1, Frame, SenderFacts
    <2>2. CASE h = Owner
      <3>1. \A nt \in notices : nt.to = h => nt.stage # "save"
        BY <1>1, <2>0 DEF Follows, NoticesFollow, FoldsManifest
      <3>2. \A k, stages : Between(k, h, stages)' = Between(k, h, stages)
        BY <1>1 DEF Between
      <3>3. \A k : Expected(k, ManifestLags(k, h))' = Expected(k, ManifestLags(k, h))
        BY <1>1, <3>2 DEF Expected, ManifestLags, Due
      <3>4. RowsFollow(h)'
        BY <1>1, <2>0, <3>2 DEF Follows, RowsFollow, Expected, RowLags, Unwritten, Due
      <3>5. \A k \in Holders : Dealt[k] = 0
        BY DEF Dealt
      <3>6. ManifestFollows(h)'
        BY <1>1, <2>0, <3>3, <3>5 DEF Follows, ManifestFollows
      <3>7. NoticesFollow(h)'
        BY <1>1, <2>0, <3>1 DEF Follows, NoticesFollow, Genuine, FoldsRows, FoldsManifest, Alone
      <3> QED BY <3>4, <3>6, <3>7 DEF Follows
    <2> QED BY <2>1, <2>2
  <1> QED BY <1>1, <1>3, <1>4, <1>6 DEF SyncInv

(***************************************************************************)
(* A mutation, seen by the other holders and by its own.                   *)
(***************************************************************************)

(* A step of g's mutation that sends nothing, for another holder. *)
LEMMA Elsewhere ==
  ASSUME Types, Waiting, NEW g \in Holders, NEW h \in Holders \ {g}, Follows(h),
         rows'[h] = rows[h], pc'[h] = pc[h], snap'[h] = snap[h], manifest' = manifest,
         notices' = notices, pc[g] # "wait", Value(g, h)' = Value(g, h),
         \A k \in Holders \ {g} : /\ pc'[k] = pc[k] /\ old'[k] = old[k]
                                  /\ latest'[k] = latest[k] /\ tell'[k] = tell[k]
  PROVE  Follows(h)'
  <1>1. Settled(g, h)
    BY Untold DEF Settled
  <1>2. \A k \in Holders \ {g} : Same(k, h)
    BY DEF Same, Due
  <1> QED BY <1>1, <1>2, Frame, SenderFacts

LEMMA GetFragmentSync ==
  ASSUME IInv, SyncInv, NEW g \in Holders, NEW v \in DOMAIN rows[g], GetFragment(g, v)
  PROVE  SyncInv'
  <1>1. /\ pc[g] = "idle" /\ pc' = [pc EXCEPT ![g] = "put"]
        /\ old' = [old EXCEPT ![g] = v] /\ snap' = [snap EXCEPT ![g] = rows[g][v]]
        /\ UNCHANGED <<rows, manifest, latest, tell, notices>>
        /\ disturbed' = disturbed \cup (IF Folding(g, "rows") THEN {g} ELSE {})
    BY DEF GetFragment, Disturb, tables
  <1>2. Types /\ Waiting
    BY DEF IInv, SyncInv
  <1>3. Waiting'
    BY <1>1, <1>2, WaitingStays DEF Types
  <1>4. ASSUME disturbed # Holders, NEW k \in Holders
        PROVE  OneRow(k)'
    <2>1. OneRow(k)
      BY <1>4 DEF SyncInv
    <2>2. CASE k # g
      BY <1>1, <1>2, <2>1, <2>2 DEF OneRow, Types, Lists
    <2>3. CASE k = g
      <3>1. pc'[k] = "put" /\ old'[k] = v /\ rows[k] # NoRows
        BY <1>1, <1>2, <2>3, DealtFacts DEF Types, Lists
      <3>2. DOMAIN rows[k] = {v} /\ v = latest[k]
        BY <1>1, <2>1, <2>3 DEF OneRow
      <3> QED BY <1>1, <3>1, <3>2 DEF OneRow
    <2> QED BY <2>2, <2>3
  <1>5. ASSUME NEW h \in Holders \ disturbed'
        PROVE  Follows(h)'
    <2>0. Follows(h) /\ h \notin disturbed
      BY <1>1 DEF SyncInv
    <2>1. CASE h # g
      <3>1. Value(g, h)' = Value(g, h)
        BY <1>1, <1>2 DEF Value, Expected, Due, Types
      <3> QED BY <1>1, <1>2, <2>0, <2>1, <3>1, Elsewhere DEF Types, Lists
    <2>2. CASE h = g
      <3>1. \A nt \in notices : nt.to = h => nt.stage # "rows"
        BY <1>1, <2>2 DEF Folding
      <3>2. \A k, stages : Between(k, h, stages)' = Between(k, h, stages)
        BY <1>1 DEF Between
      <3>3. \A k \in Holders \ {h} : Same(k, h)
        BY <1>1, <1>2, <2>2 DEF Same, Due, Types, Lists
      <3>4. \A k, w : ~Unwritten(k, h, w) /\ ~Unwritten(k, h, w)'
        <4>1. \A k : Between(k, h, {"rows"}) = {}
          BY <3>1 DEF Between
        <4> QED BY <3>2, <4>1 DEF Unwritten
      <3>5. \A k \in Holders \ {h} :
              /\ Expected(k, RowLags(k, h))' = Expected(k, RowLags(k, h))
              /\ Expected(k, ManifestLags(k, h))' = Expected(k, ManifestLags(k, h))
        BY <3>2, <3>3 DEF Same, Expected, RowLags, ManifestLags
      <3>6. \A k \in Holders \ {h} : \A w \in DOMAIN rows[h] :
               rows[h][w][k] = Expected(k, RowLags(k, h))
        BY <2>0, <3>4 DEF Follows, RowsFollow, Expected
      <3>7. RowsFollow(h)'
        BY <1>1, <1>2, <2>0, <2>2, <3>4, <3>5, <3>6 DEF Follows, RowsFollow, Expected, Types
      <3>8. ManifestFollows(h)'
        BY <1>1, <2>0, <3>5 DEF Follows, ManifestFollows
      <3>9. NoticesFollow(h)'
        BY <1>1, <1>2, <2>0, <2>2, <3>1, SenderFacts
           DEF Follows, NoticesFollow, Genuine, FoldsRows, FoldsManifest, Alone, Types, Lists
      <3> QED BY <3>7, <3>8, <3>9 DEF Follows
    <2> QED BY <2>1, <2>2
  <1>6. disturbed' # Holders => disturbed # Holders
    BY <1>1, <1>2 DEF Types
  <1> QED BY <1>3, <1>4, <1>5, <1>6 DEF SyncInv

(* The row it stores has the list it copied; from now on its siblings lag. *)
LEMMA PutFragmentSync ==
  ASSUME IInv, SyncInv, NEW g \in Holders, PutFragment(g)
  PROVE  SyncInv'
  <1> DEFINE new == latest[g] + 1
             t == [v \in DOMAIN rows[g] \cup {new} |-> IF v = new THEN snap[g] ELSE rows[g][v]]
  <1>1. /\ pc[g] = "put" /\ pc' = [pc EXCEPT ![g] = "delete"]
        /\ latest' = [latest EXCEPT ![g] = new] /\ rows' = [rows EXCEPT ![g] = t]
        /\ UNCHANGED <<manifest, old, snap, tell, notices, disturbed>>
    BY DEF PutFragment
  <1>2. /\ Types /\ Waiting /\ rows \in [Holders -> Tables] /\ new \in Nat
        /\ latest \in [Holders -> Nat] /\ old \in [Holders -> Nat]
    BY DEF IInv, SyncInv, Types, Lists
  <1>3. /\ DOMAIN t = DOMAIN rows[g] \cup {new} /\ t[new] = snap[g] /\ t # NoRows
        /\ \A v \in DOMAIN rows[g] : v # new => t[v] = rows[g][v]
    BY DealtFacts
  <1> HIDE DEF t
  <1>4. Waiting'
    BY <1>1, <1>2, WaitingStays DEF Types
  <1>5. ASSUME disturbed # Holders, NEW k \in Holders
        PROVE  OneRow(k)'
    <2>1. OneRow(k)
      BY <1>5 DEF SyncInv
    <2>2. CASE k # g
      BY <1>1, <1>2, <2>1, <2>2 DEF OneRow, Types
    <2>3. CASE k = g
      <3>1. rows'[k] = t /\ pc'[k] = "delete" /\ latest'[k] = new /\ old'[k] = old[k]
        BY <1>1, <1>2, <2>3 DEF Types
      <3> QED BY <1>1, <1>2, <1>3, <2>1, <2>3, <3>1 DEF OneRow
    <2> QED BY <2>2, <2>3
  <1>6. ASSUME NEW h \in Holders \ disturbed
        PROVE  Follows(h)'
    <2>0. Follows(h) /\ OneRow(g)
      BY DEF SyncInv
    <2>1. CASE h # g
      <3>1. Value(g, h)' = Value(g, h)
        BY <1>1, <1>2, <2>0 DEF Value, Expected, Due, Types, OneRow
      <3> QED BY <1>1, <1>2, <2>0, <2>1, <3>1, Elsewhere DEF Types, Lists
    <2>2. CASE h = g
      <3>1. \A nt \in notices : nt.to = h => nt.stage # "rows"
        BY <1>1, <2>0, <2>2 DEF Follows, NoticesFollow, FoldsRows
      <3>2. \A k, stages : Between(k, h, stages)' = Between(k, h, stages)
        BY <1>1 DEF Between
      <3>3. \A k \in Holders \ {h} : Same(k, h)
        BY <1>1, <1>2, <2>2 DEF Same, Due, Types, Lists
      <3>4. \A k, w : ~Unwritten(k, h, w) /\ ~Unwritten(k, h, w)'
        <4>1. \A k : Between(k, h, {"rows"}) = {}
          BY <3>1 DEF Between
        <4> QED BY <3>2, <4>1 DEF Unwritten
      <3>5. \A k \in Holders \ {h} :
              /\ Expected(k, RowLags(k, h))' = Expected(k, RowLags(k, h))
              /\ Expected(k, ManifestLags(k, h))' = Expected(k, ManifestLags(k, h))
        BY <3>2, <3>3 DEF Same, Expected, RowLags, ManifestLags
      <3>6. \A k \in Holders \ {h} :
               /\ \A w \in DOMAIN rows[h] : rows[h][w][k] = Expected(k, RowLags(k, h))
               /\ snap[h][k] = Expected(k, RowLags(k, h))
        BY <1>1, <2>0, <2>2, <3>4 DEF Follows, RowsFollow, Expected
      <3>7. \A k \in Holders \ {h} : \A w \in DOMAIN rows'[h] :
               rows'[h][w][k] = Expected(k, RowLags(k, h))
        <4>1. rows'[h] = t
          BY <1>1, <1>2, <2>2
        <4> QED BY <1>3, <2>2, <3>6, <4>1
      <3>8. rows'[h] # NoRows /\ pc'[h] # "put"
        BY <1>1, <1>2, <1>3, <2>2 DEF Types
      <3>9. RowsFollow(h)'
        BY <3>4, <3>5, <3>7, <3>8 DEF RowsFollow, Expected
      <3>10. ManifestFollows(h)'
        BY <1>1, <2>0, <3>5 DEF Follows, ManifestFollows
      <3>11. NoticesFollow(h)'
        BY <1>1, <1>2, <2>0, <2>2, <3>1, SenderFacts
           DEF Follows, NoticesFollow, Genuine, FoldsRows, FoldsManifest, Alone, Types, Lists
      <3> QED BY <3>9, <3>10, <3>11 DEF Follows
    <2> QED BY <2>1, <2>2
  <1> QED BY <1>1, <1>4, <1>5, <1>6 DEF SyncInv

LEMMA DeleteFragmentSync ==
  ASSUME IInv, SyncInv, NEW g \in Holders, DeleteFragment(g)
  PROVE  SyncInv'
  <1> DEFINE t == [v \in DOMAIN rows[g] \ {old[g]} |-> rows[g][v]]
  <1>1. /\ pc[g] = "delete" /\ pc' = [pc EXCEPT ![g] = "tell"]
        /\ tell' = [tell EXCEPT ![g] = Holders \ {g}] /\ rows' = [rows EXCEPT ![g] = t]
        /\ UNCHANGED <<manifest, latest, old, snap, notices, disturbed>>
    BY DEF DeleteFragment
  <1>2. /\ Types /\ Waiting /\ rows \in [Holders -> Tables]
        /\ latest \in [Holders -> Nat] /\ old \in [Holders -> Nat]
    BY DEF IInv, SyncInv, Types, Lists
  <1>3. /\ DOMAIN t = DOMAIN rows[g] \ {old[g]}
        /\ \A v \in DOMAIN t : t[v] = rows[g][v]
    OBVIOUS
  <1> HIDE DEF t
  <1>4. Waiting'
    BY <1>1, <1>2, WaitingStays DEF Types
  <1>5. disturbed # Holders => DOMAIN t = {latest[g]} /\ t # NoRows
    <2> SUFFICES ASSUME disturbed # Holders
                 PROVE  DOMAIN t = {latest[g]}
      BY DealtFacts
    <2>1. OneRow(g)
      BY DEF SyncInv
    <2>2. DOMAIN rows[g] = {old[g], latest[g]} /\ old[g] # latest[g]
      BY <1>1, <1>2, <2>1 DEF OneRow
    <2> QED BY <1>3, <2>2
  <1>6. rows'[g] = t /\ \A k \in Holders \ {g} : rows'[k] = rows[k]
    BY <1>1, <1>2
  <1>7. ASSUME disturbed # Holders, NEW k \in Holders
        PROVE  OneRow(k)'
    <2>1. OneRow(k)
      BY <1>7 DEF SyncInv
    <2> QED BY <1>1, <1>2, <1>5, <1>6, <1>7, <2>1 DEF OneRow, Types
  <1>8. ASSUME NEW h \in Holders \ disturbed
        PROVE  Follows(h)'
    <2>0. Follows(h)
      BY DEF SyncInv
    <2>1. CASE h # g
      <3>1. Value(g, h)' = Value(g, h)
        BY <1>1, <1>2, <2>1 DEF Value, Expected, Due, Types
      <3> QED BY <1>1, <1>2, <1>6, <2>0, <2>1, <3>1, Elsewhere DEF Types, Lists
    <2>2. CASE h = g
      <3>2. \A k, stages : Between(k, h, stages)' = Between(k, h, stages)
        BY <1>1 DEF Between
      <3>3. \A k \in Holders \ {h} : Same(k, h)
        BY <1>1, <1>2, <2>2 DEF Same, Due, Types, Lists
      <3>4. \A k, w : Unwritten(k, h, w)' <=> Unwritten(k, h, w)
        BY <3>2 DEF Unwritten
      <3>5. \A k \in Holders \ {h} :
              /\ RowLags(k, h)' <=> RowLags(k, h)
              /\ ManifestLags(k, h)' <=> ManifestLags(k, h)
              /\ old'[k] = old[k] /\ latest'[k] = latest[k]
        BY <3>2, <3>3 DEF Same, RowLags, ManifestLags
      <3>6. rows'[h] = t /\ t # NoRows /\ pc'[h] # "put"
        BY <1>1, <1>2, <1>5, <1>6, <2>2 DEF Types
      <3>7. RowsFollow(h)'
        BY <1>3, <2>0, <2>2, <3>4, <3>5, <3>6 DEF Follows, RowsFollow, Expected
      <3>8. ManifestFollows(h)'
        BY <1>1, <2>0, <3>5 DEF Follows, ManifestFollows, Expected
      <3>9. ASSUME NEW nt \in notices, nt.to = h
            PROVE  (Genuine(nt) /\ FoldsRows(nt) /\ FoldsManifest(nt) /\ Alone(nt))'
        <4>1. Genuine(nt) /\ FoldsRows(nt) /\ FoldsManifest(nt) /\ Alone(nt) /\ nt.from \in Holders \ {h}
          BY <1>2, <2>0, <3>9, SenderFacts DEF Follows, NoticesFollow, Genuine
        <4>2. FoldsRows(nt)'
          BY <1>3, <2>2, <3>6, <3>9, <4>1 DEF FoldsRows
        <4>3. Genuine(nt)'
          BY <1>1, <1>2, <2>2, <3>5, <3>9, <4>1 DEF Genuine, Types
        <4> QED BY <1>1, <4>1, <4>2, <4>3 DEF FoldsManifest, Alone
      <3> QED BY <1>1, <3>7, <3>8, <3>9 DEF Follows, NoticesFollow
    <2> QED BY <2>1, <2>2
  <1> QED BY <1>1, <1>4, <1>7, <1>8 DEF SyncInv

(* Steps that neither store nor copy a list: the answer, the failure or    *)
(* the end of a notification.                                              *)
LEMMA MutationEndsSync ==
  ASSUME IInv, SyncInv, NEW g \in Holders, MutationEnds(g)
  PROVE  SyncInv'
  <1>1. /\ pc[g] = "tell" /\ tell[g] = {} /\ pc' = [pc EXCEPT ![g] = "idle"]
        /\ old' = [old EXCEPT ![g] = 0] /\ snap' = [snap EXCEPT ![g] = Dealt]
        /\ UNCHANGED <<rows, manifest, latest, tell, notices, disturbed>>
    BY DEF MutationEnds, tables
  <1>2. Types /\ Waiting
    BY DEF IInv, SyncInv
  <1>3. Waiting'
    BY <1>1, <1>2, WaitingStays DEF Types
  <1>4. ASSUME disturbed # Holders, NEW k \in Holders
        PROVE  OneRow(k)'
    <2>1. OneRow(k)
      BY <1>4 DEF SyncInv
    <2> QED BY <1>1, <1>2, <2>1 DEF OneRow, Types, Lists
  <1>5. ASSUME NEW h \in Holders \ disturbed
        PROVE  Follows(h)'
    <2>0. Follows(h)
      BY DEF SyncInv
    <2>1. CASE h # g
      <3>1. Value(g, h)' = Value(g, h)
        BY <1>1, <1>2 DEF Value, Expected, Due, Types
      <3> QED BY <1>1, <1>2, <2>0, <2>1, <3>1, Elsewhere DEF Types, Lists
    <2>2. CASE h = g
      <3>1. \A k \in Holders \ {h} : Same(k, h)
        BY <1>1, <1>2, <2>2 DEF Same, Due, Types, Lists
      <3> QED BY <1>1, <1>2, <2>0, <2>2, <3>1, Frame, SenderFacts DEF Types
    <2> QED BY <2>1, <2>2
  <1> QED BY <1>1, <1>3, <1>4, <1>5 DEF SyncInv

LEMMA NotifyFailsSync ==
  ASSUME IInv, SyncInv, NEW g \in Holders, NEW m \in Holders \ {g}, NotifyFails(g, m)
  PROVE  SyncInv'
  <1>1. /\ pc[g] = "tell" /\ tell' = [tell EXCEPT ![g] = @ \ {m}]
        /\ disturbed' = disturbed \cup {m}
        /\ UNCHANGED <<rows, manifest, latest, pc, old, snap, notices>>
    BY DEF NotifyFails, tables
  <1>2. Types /\ Waiting
    BY DEF IInv, SyncInv
  <1>3. Waiting'
    BY <1>1, <1>2, WaitingStays DEF Types
  <1>4. \A k \in Holders : OneRow(k)' <=> OneRow(k)
    BY <1>1 DEF OneRow
  <1>5. ASSUME NEW h \in Holders \ disturbed'
        PROVE  Follows(h)'
    <2>1. Follows(h) /\ h # m
      BY <1>1 DEF SyncInv
    <2>2. \A k \in Holders \ {h} : Same(k, h)
      BY <1>1, <1>2, <2>1 DEF Same, Due, Types
    <2> QED BY <1>1, <1>2, <2>1, <2>2, Frame, SenderFacts
  <1>6. disturbed' # Holders => disturbed # Holders
    BY <1>1, <1>2 DEF Types
  <1> QED BY <1>3, <1>4, <1>5, <1>6 DEF SyncInv

(* The notice takes the place of the debt. *)
LEMMA NotifyMutationSync ==
  ASSUME IInv, SyncInv, NEW g \in Holders, NEW m \in Holders \ {g}, NotifyMutation(g, m)
  PROVE  SyncInv'
  <1>1. /\ pc[g] = "tell" /\ m \in tell[g] /\ tell' = [tell EXCEPT ![g] = @ \ {m}]
        /\ pc' = [pc EXCEPT ![g] = "wait"]
        /\ notices' = notices \cup {Told(g, m, latest[g])}
        /\ UNCHANGED <<rows, manifest, latest, old, snap, disturbed>>
    BY DEF NotifyMutation, tables
  <1>2. PICK new : /\ notices' = notices \cup {new}
                   /\ new.to = m /\ new.from = g /\ new.awaited /\ new.stage = "sent"
                   /\ new.oldPID = old[g] /\ new.newPID = latest[g]
    <2> DEFINE x == Told(g, m, latest[g])
    <2>1. /\ x.to = m /\ x.from = g /\ x.awaited /\ x.stage = "sent"
          /\ x.oldPID = old[g] /\ x.newPID = latest[g]
      BY DEF Told
    <2>2. notices' = notices \cup {x}
      BY <1>1
    <2> HIDE DEF x
    <2> QED BY <2>1, <2>2, Zenon
  <1>3. Types /\ Waiting
    BY DEF IInv, SyncInv
  <1>4. Waiting'
    <2>1. \A nt \in notices : nt.awaited => nt.from # g /\ nt.from \in Holders
      BY <1>1, <1>3, SenderFacts DEF Waiting
    <2>2. pc'[g] = "wait" /\ \A k \in Holders : pc[k] = "wait" => pc'[k] = "wait"
      BY <1>1, <1>3 DEF Types
    <2>3. ASSUME NEW nt \in notices', nt.awaited
          PROVE  /\ pc'[nt.from] = "wait"
                 /\ \A nu \in notices' : nu.awaited /\ nu.from = nt.from => nu = nt
      <3>1. CASE nt = new
        BY <1>2, <2>1, <2>2, <3>1
      <3>2. CASE nt \in notices
        BY <1>2, <1>3, <2>1, <2>2, <2>3, <3>2 DEF Waiting
      <3> QED BY <1>2, <3>1, <3>2
    <2>4. \A nt \in notices' : nt.stage = "save" => nt.to = Owner
      BY <1>2, <1>3 DEF Waiting
    <2> QED BY <2>3, <2>4 DEF Waiting
  <1>5. ASSUME disturbed # Holders, NEW k \in Holders
        PROVE  OneRow(k)'
    <2>1. OneRow(k)
      BY <1>5 DEF SyncInv
    <2> QED BY <1>1, <1>3, <2>1 DEF OneRow, Types
  <1>6. ASSUME NEW h \in Holders \ disturbed
        PROVE  Follows(h)'
    <2>0. Follows(h)
      BY DEF SyncInv
    <2>1. CASE h # m
      <3>1. \A k \in Holders \ {h} : Same(k, h)
        BY <1>1, <1>3, <2>1 DEF Same, Due, Types
      <3> QED BY <1>1, <1>2, <1>3, <2>0, <2>1, <3>1, Frame, SenderFacts DEF Types
    <2>2. CASE h = m
      <3>1. NoneTo(g, h) /\ Due(g, h) /\ ~Due(g, h)'
        BY <1>1, <1>3, <2>0, <2>2, Untold DEF Due, Types
      <3>2. \A k \in Holders \ {g} : Due(k, h)' <=> Due(k, h)
        BY <1>1, <1>3 DEF Due, Types
      <3>3. /\ \A k \in Holders \ {g} : \A stages : Between(k, h, stages)' = Between(k, h, stages)
            /\ \A stages : Between(g, h, stages)' = IF "sent" \in stages THEN {new} ELSE {}
        BY <1>1, <1>2, <2>2, <3>1 DEF Between, NoneTo
      <3>4. \A k \in Holders : /\ RowLags(k, h)' <=> RowLags(k, h)
                               /\ ManifestLags(k, h)' <=> ManifestLags(k, h)
        BY <3>1, <3>2, <3>3 DEF RowLags, ManifestLags
      <3>5. \A k \in Holders : \A w : Unwritten(k, h, w)' <=> Unwritten(k, h, w)
        <4>1. Between(g, h, {"rows"}) = {} /\ Between(g, h, {"rows"})' = {}
          BY <3>1, <3>3, NoneToFacts
        <4> QED BY <3>3, <4>1 DEF Unwritten
      <3>6. RowsFollow(h)' /\ ManifestFollows(h)'
        BY <1>1, <1>3, <2>0, <2>2, <3>4, <3>5
           DEF Follows, RowsFollow, ManifestFollows, Expected, Types
      <3>7. ASSUME NEW nt \in notices, nt.to = h
            PROVE  (Genuine(nt) /\ FoldsRows(nt) /\ FoldsManifest(nt) /\ Alone(nt))'
        <4>1. /\ Genuine(nt) /\ FoldsRows(nt) /\ FoldsManifest(nt) /\ Alone(nt)
              /\ nt.from \in Holders \ {g}
          BY <1>3, <2>0, <3>1, <3>7, SenderFacts DEF Follows, NoticesFollow, NoneTo
        <4> QED BY <1>1, <1>2, <1>3, <2>2, <3>7, <4>1
                DEF Genuine, FoldsRows, FoldsManifest, Alone, Types
      <3>8. (Genuine(new) /\ FoldsRows(new) /\ FoldsManifest(new) /\ Alone(new))'
        BY <1>1, <1>2, <1>3 DEF Genuine, FoldsRows, FoldsManifest, Alone, Types
      <3> QED BY <1>2, <3>6, <3>7, <3>8 DEF Follows, NoticesFollow
    <2> QED BY <2>1, <2>2
  <1> QED BY <1>1, <1>4, <1>5, <1>6 DEF SyncInv

(* What becomes of a notice nobody waits for any longer. *)
LEMMA ForgottenCopies ==
  ASSUME Types, NEW nts \in SUBSET notices, NEW nt \in Forgotten(nts)
  PROVE  ~nt.awaited /\ \E nu \in nts : /\ nt.from = nu.from /\ nt.to = nu.to
                                         /\ nt.stage = nu.stage
  <1>1. PICK nu \in nts : nt = [nu EXCEPT !.awaited = FALSE]
    BY DEF Forgotten
  <1>2. nu \in Notice
    BY DEF Types
  <1>3. ~nt.awaited /\ nt.from = nu.from /\ nt.to = nu.to /\ nt.stage = nu.stage
    BY <1>1, <1>2 DEF Notice
  <1> QED BY <1>3

LEMMA NotifyTimesOutSync ==
  ASSUME IInv, SyncInv, NEW g \in Holders, NotifyTimesOut(g)
  PROVE  SyncInv'
  <1> DEFINE nts == Awaited(g)
  <1>1. /\ pc[g] = "wait" /\ pc' = [pc EXCEPT ![g] = "tell"]
        /\ notices' = (notices \ nts) \cup Forgotten(nts)
        /\ disturbed' = disturbed \cup {nt.to : nt \in nts}
        /\ UNCHANGED <<rows, manifest, latest, old, snap, tell>>
    BY DEF NotifyTimesOut, tables
  <1>2. Types /\ Waiting /\ nts \subseteq notices
    BY DEF IInv, SyncInv, Awaited
  <1>3. \A nt \in notices : nt.awaited => nt.from # g \/ nt \in nts
    BY DEF Awaited
  <1> HIDE DEF nts
  <1>4. \A nt \in notices' :
          nt \notin notices \ nts =>
            ~nt.awaited /\ \E nu \in nts : /\ nt.from = nu.from /\ nt.to = nu.to
                                           /\ nt.stage = nu.stage
    BY <1>1, <1>2, ForgottenCopies
  <1>5. Waiting'
    <2>1. \A nt \in notices' : nt.stage = "save" => nt.to = Owner
      BY <1>2, <1>4 DEF Waiting
    <2>2. \A nt \in notices' : nt.awaited => nt \in notices /\ nt.from # g
      BY <1>3, <1>4
    <2> QED BY <1>1, <1>2, <2>1, <2>2 DEF Waiting, Types, Notice
  <1>6. ASSUME disturbed # Holders, NEW k \in Holders
        PROVE  OneRow(k)'
    <2>1. OneRow(k)
      BY <1>6 DEF SyncInv
    <2> QED BY <1>1, <1>2, <2>1 DEF OneRow, Types
  <1>7. ASSUME NEW h \in Holders \ disturbed'
        PROVE  Follows(h)'
    <2>1. Follows(h) /\ \A nt \in nts : nt.to # h
      BY <1>1 DEF SyncInv
    <2>2. \A nt : nt \in notices' /\ nt.to = h <=> nt \in notices /\ nt.to = h
      BY <1>1, <1>2, <2>1, ForgottenCopies
    <2>3. \A k \in Holders \ {h} : Same(k, h)
      BY <1>1, <1>2 DEF Same, Due, Types
    <2> QED BY <1>1, <1>2, <2>1, <2>2, <2>3, Frame, SenderFacts DEF Types
  <1>8. disturbed' # Holders => disturbed # Holders
    BY <1>1, <1>2 DEF Types, Notice
  <1> QED BY <1>5, <1>6, <1>7, <1>8 DEF SyncInv

(***************************************************************************)
(* The handler of a notice.                                                *)
(***************************************************************************)

(* A handler's step, for a holder the notice is not addressed to: its      *)
(* sender may go on to the next member.                                    *)
Released(nt) == pc' = [pc EXCEPT ![nt.from] =
                         IF @ = "wait" /\ nt.awaited THEN "tell" ELSE @]
LEMMA HandledElsewhere ==
  ASSUME Types, Waiting, NEW nt \in notices, NEW h \in Holders, nt.to # h, Follows(h),
         rows'[h] = rows[h], h = Owner => manifest' = manifest,
         UNCHANGED <<latest, old, snap, tell>>, pc' = pc \/ Released(nt),
         \A nu : nu \in notices' /\ nu.to = h <=> nu \in notices /\ nu.to = h
  PROVE  Follows(h)'
  <1>1. \A k \in Holders : /\ pc'[k] # pc[k] => pc[k] = "wait" /\ pc'[k] = "tell"
    BY DEF Released, Types
  <1>2. \A k \in Holders \ {h} : Same(k, h)
    BY <1>1 DEF Same, Due
  <1> QED BY <1>1, <1>2, Frame, SenderFacts

LEMMA OneRowHandled ==
  ASSUME Types, NEW nt \in notices, NEW k \in Holders, OneRow(k),
         DOMAIN rows'[k] = DOMAIN rows[k], rows'[k] = NoRows => rows[k] = NoRows,
         UNCHANGED <<latest, old>>, pc' = pc \/ Released(nt)
  PROVE  OneRow(k)'
  <1>1. pc'[k] # pc[k] => pc[k] = "wait" /\ pc'[k] = "tell"
    BY DEF Released, Types
  <1> QED BY <1>1 DEF OneRow

(* The notice stays under way, at its next stage. *)
LEMMA WaitingBecomes ==
  ASSUME Waiting, NEW nt \in notices, NEW next, notices' = (notices \ {nt}) \cup {next},
         next.from = nt.from, next.to = nt.to, next.awaited = nt.awaited, pc' = pc,
         next.stage = "save" => next.to = Owner
  PROVE  Waiting'
  BY DEF Waiting

LEMMA WaitingAnswer ==
  ASSUME Types, Waiting, NEW nt \in notices, notices' = notices \ {nt}, Released(nt)
  PROVE  Waiting'
  <1>1. ASSUME NEW nu \in notices', nu.awaited
        PROVE  pc'[nu.from] = "wait"
    <2>1. nu \in notices /\ nu # nt /\ pc[nu.from] = "wait" /\ nu.from \in Holders
      BY <1>1, SenderFacts DEF Waiting
    <2>2. CASE nt.awaited
      <3>1. nu.from # nt.from
        BY <1>1, <2>1, <2>2 DEF Waiting
      <3> QED BY <2>1, <3>1 DEF Released, Types
    <2>3. CASE ~nt.awaited
      BY <2>1, <2>3 DEF Released, Types
    <2> QED BY <2>2, <2>3
  <1> QED BY <1>1 DEF Waiting

(* What a notice to a holder that missed nothing says of its sender. *)
LEMMA NoticeFacts ==
  ASSUME Types, Waiting, NEW nt \in notices, NEW h \in Holders, nt.to = h, Follows(h)
  PROVE  /\ nt.from \in Holders \ {h} /\ pc[nt.from] = "wait" /\ h \notin tell[nt.from]
         /\ nt.oldPID = old[nt.from] /\ nt.newPID = latest[nt.from] /\ nt.awaited
         /\ FoldsRows(nt) /\ FoldsManifest(nt) /\ Alone(nt)
         /\ ~Due(nt.from, h)
         /\ \A nu \in notices : nu.from = nt.from /\ nu.to = h => nu = nt
         /\ \A stages : Between(nt.from, h, stages) = IF nt.stage \in stages THEN {nt} ELSE {}
  <1>1. Genuine(nt) /\ FoldsRows(nt) /\ FoldsManifest(nt) /\ Alone(nt)
    BY DEF Follows, NoticesFollow
  <1>2. nt.from \in Holders \ {h} /\ pc[nt.from] = "wait" /\ nt.awaited
    BY <1>1, SenderFacts DEF Genuine, Waiting
  <1>3. \A nu \in notices : nu.from = nt.from /\ nu.to = h => nu = nt
    BY <1>2 DEF Follows, NoticesFollow, Genuine, Waiting
  <1>4. \A stages : Between(nt.from, h, stages) = IF nt.stage \in stages THEN {nt} ELSE {}
    BY <1>3 DEF Between
  <1> QED BY <1>1, <1>2, <1>3, <1>4 DEF Genuine, Due

(* A notice moves on: only what h knows of its sender is concerned. *)
Unmoved(f, h) == \A k \in Holders \ {f} :
  /\ RowLags(k, h)' <=> RowLags(k, h)
  /\ ManifestLags(k, h)' <=> ManifestLags(k, h)
  /\ \A v : Unwritten(k, h, v)' <=> Unwritten(k, h, v)
LEMMA BecomesBetween ==
  ASSUME Types, Waiting, NEW nt \in notices, NEW h \in Holders, nt.to = h, Follows(h),
         NEW next, notices' = (notices \ {nt}) \cup {next},
         next.from = nt.from, next.to = nt.to, UNCHANGED <<pc, tell>>
  PROVE  /\ Unmoved(nt.from, h)
         /\ \A stages : Between(nt.from, h, stages)' = IF next.stage \in stages THEN {next} ELSE {}
         /\ ~Due(nt.from, h)'
  <1>1. \A k \in Holders \ {nt.from} : \A stages : Between(k, h, stages)' = Between(k, h, stages)
    BY DEF Between
  <1>2. \A nu \in notices : nu.from = nt.from /\ nu.to = h => nu = nt
    BY NoticeFacts
  <1>3. \A stages : Between(nt.from, h, stages)' = IF next.stage \in stages THEN {next} ELSE {}
    BY <1>2 DEF Between
  <1>4. \A k : Due(k, h)' <=> Due(k, h)
    BY DEF Due
  <1>5. ~Due(nt.from, h)
    BY NoticeFacts
  <1> QED BY <1>1, <1>3, <1>4, <1>5 DEF Unmoved, RowLags, ManifestLags, Unwritten

LEMMA AnswerBetween ==
  ASSUME Types, Waiting, NEW nt \in notices, NEW h \in Holders, nt.to = h, Follows(h),
         notices' = notices \ {nt}, Released(nt), UNCHANGED tell
  PROVE  /\ Unmoved(nt.from, h)
         /\ \A stages : Between(nt.from, h, stages)' = {}
         /\ ~Due(nt.from, h)'
  <1>1. \A k \in Holders \ {nt.from} : \A stages : Between(k, h, stages)' = Between(k, h, stages)
    BY DEF Between
  <1>2. \A nu \in notices : nu.from = nt.from /\ nu.to = h => nu = nt
    BY NoticeFacts
  <1>3. \A stages : Between(nt.from, h, stages)' = {}
    BY <1>2 DEF Between
  <1>4. \A k \in Holders : Due(k, h)' <=> Due(k, h)
    BY DEF Due, Released, Types
  <1>5. ~Due(nt.from, h) /\ nt.from \in Holders
    BY NoticeFacts
  <1> QED BY <1>1, <1>3, <1>4, <1>5 DEF Unmoved, RowLags, ManifestLags, Unwritten

(* Every row h has still names the old pseudo-ID, so every row is selected. *)
LEMMA SelectRowsSync ==
  ASSUME IInv, SyncInv, NEW nt \in notices, SelectRows(nt)
  PROVE  SyncInv'
  <1> DEFINE mine == rows[nt.to]
             hit  == {v \in DOMAIN mine : mine[v][nt.from] = nt.oldPID}
             upd  == [v \in hit |-> [mine[v] EXCEPT ![nt.from] = nt.newPID]]
  <1>1. /\ nt.stage = "sent" /\ Becomes(nt, [nt EXCEPT !.stage = "rows", !.updates = upd])
        /\ UNCHANGED <<rows, manifest, latest, pc, old, snap, tell>>
        /\ disturbed' = disturbed \cup
             (IF \/ pc[nt.to] = "put" \/ Folding(nt.to, "rows") \/ rows[nt.to] = NoRows
              THEN {nt.to} ELSE {})
    BY DEF SelectRows, Disturb, tables, mutator
  <1>2. /\ Types /\ Waiting /\ nt \in Notice /\ nt.to \in Holders /\ nt.from \in Holders
        /\ rows[nt.to] \in Tables
    BY DEF IInv, SyncInv, Types, Notice
  <1>3. /\ DOMAIN upd = {v \in DOMAIN rows[nt.to] : rows[nt.to][v][nt.from] = nt.oldPID}
        /\ \A v \in DOMAIN upd : \A k \in Holders :
             upd[v][k] = IF k = nt.from THEN nt.newPID ELSE rows[nt.to][v][k]
    <2>1. \A v \in DOMAIN mine : mine[v] \in [Holders -> Nat]
      BY <1>2, TableFacts DEF Lists
    <2> QED BY <1>2, <2>1
  <1> HIDE DEF mine, hit, upd
  <1>4. PICK next : /\ notices' = (notices \ {nt}) \cup {next}
                    /\ next.from = nt.from /\ next.to = nt.to /\ next.awaited = nt.awaited
                    /\ next.oldPID = nt.oldPID /\ next.newPID = nt.newPID
                    /\ next.stage = "rows" /\ next.updates = upd
    <2> DEFINE x == [nt EXCEPT !.stage = "rows", !.updates = upd]
    <2>1. /\ x.from = nt.from /\ x.to = nt.to /\ x.awaited = nt.awaited
          /\ x.oldPID = nt.oldPID /\ x.newPID = nt.newPID
          /\ x.stage = "rows" /\ x.updates = upd
      BY <1>2 DEF Notice
    <2>2. notices' = (notices \ {nt}) \cup {x}
      BY <1>1 DEF Becomes
    <2> HIDE DEF x
    <2> QED BY <2>1, <2>2, Zenon
  <1>5. Waiting'
    BY <1>1, <1>2, <1>4, WaitingBecomes
  <1>6. ASSUME disturbed # Holders, NEW k \in Holders
        PROVE  OneRow(k)'
    BY <1>1, <1>2, <1>6, OneRowHandled DEF SyncInv
  <1>7. ASSUME NEW h \in Holders \ disturbed'
        PROVE  Follows(h)'
    <2>0. Follows(h)
      BY <1>1 DEF SyncInv
    <2>1. CASE h # nt.to
      BY <1>1, <1>2, <1>4, <2>0, <2>1, HandledElsewhere
    <2>2. CASE h = nt.to
      <3> DEFINE f == nt.from
      <3>1. /\ pc[h] # "put" /\ rows[h] # NoRows
            /\ \A nu \in notices : nu.to = h => nu.stage # "rows"
        BY <1>1, <2>2 DEF Folding
      <3>2. /\ f \in Holders \ {h} /\ nt.oldPID = old[f] /\ nt.newPID = latest[f]
            /\ nt.awaited /\ h \notin tell[f]
            /\ Between(f, h, {"sent"}) = {nt}
            /\ Between(f, h, {"sent", "rows", "save"}) = {nt}
        <4>1. /\ f \in Holders \ {h} /\ nt.oldPID = old[f] /\ nt.newPID = latest[f]
              /\ nt.awaited /\ h \notin tell[f]
              /\ \A stages : Between(f, h, stages) = IF nt.stage \in stages THEN {nt} ELSE {}
          BY <1>2, <2>0, <2>2, NoticeFacts
        <4> QED BY <1>1, <4>1
      <3>3. /\ Unmoved(f, h)
            /\ \A stages : Between(f, h, stages)' = IF "rows" \in stages THEN {next} ELSE {}
            /\ ~Due(f, h)'
        <4>0. /\ UNCHANGED <<pc, tell>> /\ nt.to = h /\ Types /\ Waiting
              /\ notices' = (notices \ {nt}) \cup {next}
              /\ next.from = nt.from /\ next.to = nt.to
          BY <1>1, <1>2, <1>4, <2>2
        <4>1. /\ Unmoved(f, h)
              /\ \A stages : Between(f, h, stages)' = IF next.stage \in stages THEN {next} ELSE {}
              /\ ~Due(f, h)'
          BY <2>0, <4>0, BecomesBetween
        <4> QED BY <1>4, <4>1
      <3>4. \A v \in DOMAIN rows[h] : rows[h][v][f] = old[f]
        BY <2>0, <3>2 DEF Follows, RowsFollow, Expected, RowLags
      <3>5. DOMAIN upd = DOMAIN rows[h]
        BY <1>3, <2>2, <3>2, <3>4
      <3>6. \A v \in DOMAIN rows[h] : Unwritten(f, h, v)'
        BY <1>4, <3>3, <3>5 DEF Unwritten
      <3>7. RowsFollow(h)'
        BY <1>1, <2>0, <3>1, <3>3, <3>4, <3>6 DEF Follows, RowsFollow, Expected, Unmoved
      <3>8. ManifestLags(f, h) /\ ManifestLags(f, h)'
        BY <3>2, <3>3 DEF ManifestLags
      <3>9. ManifestFollows(h)'
        BY <1>1, <2>0, <3>3, <3>8 DEF Follows, ManifestFollows, Expected, Unmoved
      <3>10. (Genuine(next) /\ FoldsRows(next) /\ FoldsManifest(next) /\ Alone(next))'
        <4>1. Genuine(next)'
          BY <1>1, <1>4, <2>2, <3>2 DEF Genuine
        <4>2. FoldsRows(next)'
          BY <1>1, <1>3, <1>4, <2>2, <3>1, <3>5 DEF FoldsRows
        <4>3. Alone(next)' /\ FoldsManifest(next)'
          BY <1>1, <1>4, <2>2, <3>1 DEF Alone, FoldsManifest
        <4> QED BY <4>1, <4>2, <4>3
      <3>11. ASSUME NEW nu \in notices \ {nt}, nu.to = h
             PROVE  (Genuine(nu) /\ FoldsRows(nu) /\ FoldsManifest(nu) /\ Alone(nu))'
        <4>1. Genuine(nu) /\ FoldsManifest(nu) /\ Alone(nu) /\ nu.stage # "rows"
          BY <2>0, <3>1, <3>11 DEF Follows, NoticesFollow
        <4> QED BY <1>1, <1>4, <4>1 DEF Genuine, FoldsRows, FoldsManifest, Alone
      <3> QED BY <1>4, <3>7, <3>9, <3>10, <3>11 DEF Follows, NoticesFollow
    <2> QED BY <2>1, <2>2
  <1>8. disturbed' # Holders => disturbed # Holders
    BY <1>1, <1>2 DEF Types
  <1> QED BY <1>5, <1>6, <1>7, <1>8 DEF SyncInv

LEMMA UpdateRowSync ==
  ASSUME IInv, SyncInv, NEW nt \in notices, NEW v \in DOMAIN nt.updates, UpdateRow(nt, v)
  PROVE  SyncInv'
  <1> DEFINE rest == [w \in DOMAIN nt.updates \ {v} |-> nt.updates[w]]
  <1>1. /\ nt.stage = "rows" /\ Becomes(nt, [nt EXCEPT !.updates = rest])
        /\ rows' = IF v \in DOMAIN rows[nt.to]
                   THEN [rows EXCEPT ![nt.to][v] = nt.updates[v]] ELSE rows
        /\ UNCHANGED <<manifest, latest, pc, old, snap, tell, disturbed>>
    BY DEF UpdateRow, mutator
  <1>2. /\ Types /\ Waiting /\ nt \in Notice /\ nt.to \in Holders /\ nt.from \in Holders
        /\ rows \in [Holders -> Tables]
    BY DEF IInv, SyncInv, Types, Notice
  <1>3. /\ DOMAIN rest = DOMAIN nt.updates \ {v}
        /\ \A w \in DOMAIN rest : rest[w] = nt.updates[w]
    OBVIOUS
  <1> HIDE DEF rest
  <1>4. PICK next : /\ notices' = (notices \ {nt}) \cup {next}
                    /\ next.from = nt.from /\ next.to = nt.to /\ next.awaited = nt.awaited
                    /\ next.oldPID = nt.oldPID /\ next.newPID = nt.newPID
                    /\ next.stage = "rows" /\ next.updates = rest
    <2> DEFINE x == [nt EXCEPT !.updates = rest]
    <2>1. /\ x.from = nt.from /\ x.to = nt.to /\ x.awaited = nt.awaited
          /\ x.oldPID = nt.oldPID /\ x.newPID = nt.newPID
          /\ x.stage = nt.stage /\ x.updates = rest
      BY <1>2 DEF Notice
    <2>2. notices' = (notices \ {nt}) \cup {x}
      BY <1>1 DEF Becomes
    <2> HIDE DEF x
    <2> QED BY <1>1, <2>1, <2>2, Zenon
  <1>5. Waiting'
    BY <1>1, <1>2, <1>4, WaitingBecomes
  <1>6. /\ \A k \in Holders \ {nt.to} : rows'[k] = rows[k]
        /\ DOMAIN rows'[nt.to] = DOMAIN rows[nt.to]
        /\ \A w \in DOMAIN rows[nt.to] :
             rows'[nt.to][w] = IF w = v THEN nt.updates[v] ELSE rows[nt.to][w]
    BY <1>1, <1>2
  <1>7. rows'[nt.to] = NoRows => rows[nt.to] = NoRows
    <2> SUFFICES ASSUME DOMAIN rows[nt.to] = {}
                 PROVE  rows'[nt.to] = rows[nt.to]
      BY <1>6, DealtFacts
    <2> QED BY <1>1
  <1>8. ASSUME disturbed # Holders, NEW k \in Holders
        PROVE  OneRow(k)'
    <2>1. DOMAIN rows'[k] = DOMAIN rows[k] /\ (rows'[k] = NoRows => rows[k] = NoRows)
      BY <1>6, <1>7
    <2> QED BY <1>1, <1>2, <1>8, <2>1, OneRowHandled DEF SyncInv
  <1>9. ASSUME NEW h \in Holders \ disturbed
        PROVE  Follows(h)'
    <2>0. Follows(h)
      BY DEF SyncInv
    <2>1. CASE h # nt.to
      BY <1>1, <1>2, <1>4, <1>6, <2>0, <2>1, HandledElsewhere
    <2>2. CASE h = nt.to
      <3> DEFINE f == nt.from
      <3>1. /\ f \in Holders \ {h} /\ nt.oldPID = old[f] /\ nt.newPID = latest[f]
            /\ nt.awaited /\ h \notin tell[f]
            /\ Between(f, h, {"sent"}) = {} /\ Between(f, h, {"rows"}) = {nt}
            /\ Between(f, h, {"sent", "rows", "save"}) = {nt}
            /\ FoldsRows(nt) /\ Alone(nt) /\ ~Due(f, h)
        <4>1. /\ f \in Holders \ {h} /\ nt.oldPID = old[f] /\ nt.newPID = latest[f]
              /\ nt.awaited /\ h \notin tell[f]
              /\ FoldsRows(nt) /\ Alone(nt) /\ ~Due(f, h)
              /\ \A stages : Between(f, h, stages) = IF nt.stage \in stages THEN {nt} ELSE {}
          BY <1>2, <2>0, <2>2, NoticeFacts
        <4> QED BY <1>1, <4>1
      <3>2. /\ pc[h] # "put" /\ rows'[h] # NoRows
            /\ \A w \in DOMAIN nt.updates \cap DOMAIN rows[h] : \A k \in Holders \ {h} :
                 nt.updates[w][k] = IF k = f THEN nt.newPID ELSE rows[h][w][k]
            /\ \A nu \in notices : nu.to = h /\ nu.stage = "rows" => nu = nt
        BY <1>1, <1>7, <2>2, <3>1 DEF FoldsRows, Alone
      <3>3. /\ Unmoved(f, h)
            /\ \A stages : Between(f, h, stages)' = IF "rows" \in stages THEN {next} ELSE {}
            /\ ~Due(f, h)'
        <4>0. /\ UNCHANGED <<pc, tell>> /\ nt.to = h /\ Types /\ Waiting
              /\ notices' = (notices \ {nt}) \cup {next}
              /\ next.from = nt.from /\ next.to = nt.to
          BY <1>1, <1>2, <1>4, <2>2
        <4>1. /\ Unmoved(f, h)
              /\ \A stages : Between(f, h, stages)' = IF next.stage \in stages THEN {next} ELSE {}
              /\ ~Due(f, h)'
          BY <2>0, <4>0, BecomesBetween
        <4> QED BY <1>4, <4>1
      <3>4. ~RowLags(f, h) /\ ~RowLags(f, h)'
        BY <3>1, <3>3 DEF RowLags
      <3>5. \A w : /\ Unwritten(f, h, w) <=> w \in DOMAIN nt.updates
                   /\ Unwritten(f, h, w)' <=> w \in DOMAIN nt.updates \ {v}
        BY <1>3, <1>4, <3>1, <3>3 DEF Unwritten
      <3>6. RowsFollow(h)'
        <4>1. ASSUME NEW k \in Holders \ {h}, NEW w \in DOMAIN rows[h]
              PROVE  rows'[h][w][k] = Expected(k, RowLags(k, h) \/ Unwritten(k, h, w))'
          <5>1. rows[h][w][k] = Expected(k, RowLags(k, h) \/ Unwritten(k, h, w))
            BY <2>0 DEF Follows, RowsFollow
          <5>2. CASE k # f
            <6>1. rows'[h][w][k] = rows[h][w][k]
              BY <1>6, <2>2, <3>2, <5>2
            <6> QED BY <1>1, <3>3, <5>1, <5>2, <6>1 DEF Expected, Unmoved
          <5>3. CASE k = f /\ w # v
            <6>1. rows'[h][w][k] = rows[h][w][k]
              BY <1>6, <2>2, <5>3
            <6> QED BY <1>1, <3>4, <3>5, <5>1, <5>3, <6>1 DEF Expected
          <5>4. CASE k = f /\ w = v
            <6>1. rows'[h][w][k] = latest[f]
              BY <1>6, <2>2, <3>1, <3>2, <5>4
            <6> QED BY <1>1, <3>4, <3>5, <5>4, <6>1 DEF Expected
          <5> QED BY <5>2, <5>3, <5>4
        <4> QED BY <1>1, <1>6, <2>2, <3>2, <4>1 DEF RowsFollow
      <3>7. ManifestLags(f, h) /\ ManifestLags(f, h)'
        BY <3>1, <3>3 DEF ManifestLags
      <3>8. ManifestFollows(h)'
        BY <1>1, <2>0, <3>3, <3>7 DEF Follows, ManifestFollows, Expected, Unmoved
      <3>9. (Genuine(next) /\ FoldsRows(next) /\ FoldsManifest(next) /\ Alone(next))'
        <4>1. Genuine(next)'
          BY <1>1, <1>4, <2>2, <3>1 DEF Genuine
        <4>2. ASSUME NEW w \in DOMAIN rest \cap DOMAIN rows[h], NEW k \in Holders \ {h}
              PROVE  rest[w][k] = IF k = f THEN nt.newPID ELSE rows'[h][w][k]
          BY <1>3, <1>6, <2>2, <3>2
        <4>3. FoldsRows(next)'
          BY <1>1, <1>4, <1>6, <2>2, <3>2, <4>2 DEF FoldsRows
        <4>4. Alone(next)' /\ FoldsManifest(next)'
          BY <1>1, <1>4, <2>2, <3>2 DEF Alone, FoldsManifest
        <4> QED BY <4>1, <4>3, <4>4
      <3>10. ASSUME NEW nu \in notices \ {nt}, nu.to = h
             PROVE  (Genuine(nu) /\ FoldsRows(nu) /\ FoldsManifest(nu) /\ Alone(nu))'
        <4>1. Genuine(nu) /\ FoldsManifest(nu) /\ Alone(nu) /\ nu.stage # "rows"
          BY <2>0, <3>2, <3>10 DEF Follows, NoticesFollow
        <4> QED BY <1>1, <1>4, <4>1 DEF Genuine, FoldsRows, FoldsManifest, Alone
      <3> QED BY <1>4, <3>6, <3>8, <3>9, <3>10 DEF Follows, NoticesFollow
    <2> QED BY <2>1, <2>2
  <1> QED BY <1>1, <1>5, <1>8, <1>9 DEF SyncInv

LEMMA NoManifestHereSync ==
  ASSUME IInv, SyncInv, NEW nt \in notices, NoManifestHere(nt)
  PROVE  SyncInv'
  <1>1. /\ nt.stage = "rows" /\ DOMAIN nt.updates = {}
        /\ notices' = notices \ {nt} /\ Released(nt)
        /\ UNCHANGED <<rows, manifest, latest, old, snap, tell>>
        /\ disturbed' = disturbed \cup (IF nt.to = Owner THEN {nt.to} ELSE {})
    BY DEF NoManifestHere, Answer, Released, Disturb, tables
  <1>2. Types /\ Waiting /\ nt.to \in Holders
    BY DEF IInv, SyncInv, Types, Notice
  <1>3. Waiting'
    BY <1>1, <1>2, WaitingAnswer
  <1>4. ASSUME disturbed # Holders, NEW k \in Holders
        PROVE  OneRow(k)'
    BY <1>1, <1>2, <1>4, OneRowHandled DEF SyncInv
  <1>5. ASSUME NEW h \in Holders \ disturbed'
        PROVE  Follows(h)'
    <2>0. Follows(h)
      BY <1>1 DEF SyncInv
    <2>1. CASE h # nt.to
      BY <1>1, <1>2, <2>0, <2>1, HandledElsewhere
    <2>2. CASE h = nt.to
      <3> DEFINE f == nt.from
      <3>0. Released(nt) /\ UNCHANGED tell /\ notices' = notices \ {nt}
        BY <1>1
      <3>1. /\ f \in Holders \ {h} /\ ~Due(f, h)
            /\ \A stages : Between(f, h, stages) = IF nt.stage \in stages THEN {nt} ELSE {}
        BY <1>2, <2>0, <2>2, NoticeFacts
      <3>2. /\ Unmoved(f, h)
            /\ \A stages : Between(f, h, stages)' = {}
            /\ ~Due(f, h)'
        BY <1>2, <2>0, <2>2, <3>0, AnswerBetween
      <3>3. ~RowLags(f, h) /\ ~RowLags(f, h)'
        BY <1>1, <3>1, <3>2 DEF RowLags
      <3>4. \A w : ~Unwritten(f, h, w) /\ ~Unwritten(f, h, w)'
        <4>1. Between(f, h, {"rows"}) = {nt} /\ Between(f, h, {"rows"})' = {}
          BY <1>1, <3>1, <3>2
        <4> QED BY <1>1, <4>1 DEF Unwritten
      <3>5. pc'[h] = "put" => pc[h] = "put"
        BY <1>1, <1>2 DEF Released, Types
      <3>6. RowsFollow(h)'
        BY <1>1, <2>0, <3>2, <3>3, <3>4, <3>5 DEF Follows, RowsFollow, Expected, Unmoved
      <3>7. ManifestFollows(h)'
        BY <1>1, <2>2 DEF ManifestFollows
      <3>8. ASSUME NEW nu \in notices \ {nt}, nu.to = h
            PROVE  (Genuine(nu) /\ FoldsRows(nu) /\ FoldsManifest(nu) /\ Alone(nu))'
        <4>1. Genuine(nu) /\ FoldsRows(nu) /\ FoldsManifest(nu) /\ Alone(nu)
          BY <2>0, <3>8 DEF Follows, NoticesFollow
        <4> QED BY <1>1, <3>5, <3>8, <4>1 DEF Genuine, FoldsRows, FoldsManifest, Alone
      <3> QED BY <1>1, <3>6, <3>7, <3>8 DEF Follows, NoticesFollow
    <2> QED BY <2>1, <2>2
  <1>6. disturbed' # Holders => disturbed # Holders
    BY <1>1, <1>2 DEF Types
  <1> QED BY <1>3, <1>4, <1>5, <1>6 DEF SyncInv

LEMMA ReadManifestSync ==
  ASSUME IInv, SyncInv, NEW nt \in notices, ReadManifest(nt)
  PROVE  SyncInv'
  <1> DEFINE new == Replace(manifest, nt.from, nt.oldPID, nt.newPID)
  <1>1. /\ nt.stage = "rows" /\ DOMAIN nt.updates = {} /\ nt.to = Owner
        /\ manifest # NoManifest /\ Becomes(nt, [nt EXCEPT !.stage = "save", !.list = new])
        /\ UNCHANGED <<rows, manifest, latest, pc, old, snap, tell>>
        /\ disturbed' = disturbed \cup (IF Folding(nt.to, "save") THEN {nt.to} ELSE {})
    BY DEF ReadManifest, Disturb, tables, mutator
  <1>2. /\ Types /\ Waiting /\ nt \in Notice /\ nt.to \in Holders /\ nt.from \in Holders
        /\ manifest \in [Holders -> Nat]
    BY <1>1 DEF IInv, SyncInv, Types, Notice, Lists
  <1>3. manifest[nt.from] = nt.oldPID =>
          \A k \in Holders : new[k] = IF k = nt.from THEN nt.newPID ELSE manifest[k]
    BY <1>2 DEF Replace
  <1> HIDE DEF new
  <1>4. PICK next : /\ notices' = (notices \ {nt}) \cup {next}
                    /\ next.from = nt.from /\ next.to = nt.to /\ next.awaited = nt.awaited
                    /\ next.oldPID = nt.oldPID /\ next.newPID = nt.newPID
                    /\ next.stage = "save" /\ next.list = new
    <2> DEFINE x == [nt EXCEPT !.stage = "save", !.list = new]
    <2>1. /\ x.from = nt.from /\ x.to = nt.to /\ x.awaited = nt.awaited
          /\ x.oldPID = nt.oldPID /\ x.newPID = nt.newPID
          /\ x.stage = "save" /\ x.list = new
      BY <1>2 DEF Notice
    <2>2. notices' = (notices \ {nt}) \cup {x}
      BY <1>1 DEF Becomes
    <2> HIDE DEF x
    <2> QED BY <2>1, <2>2, Zenon
  <1>5. Waiting'
    BY <1>1, <1>2, <1>4, WaitingBecomes
  <1>6. ASSUME disturbed # Holders, NEW k \in Holders
        PROVE  OneRow(k)'
    BY <1>1, <1>2, <1>6, OneRowHandled DEF SyncInv
  <1>7. ASSUME NEW h \in Holders \ disturbed'
        PROVE  Follows(h)'
    <2>0. Follows(h)
      BY <1>1 DEF SyncInv
    <2>1. CASE h # nt.to
      BY <1>1, <1>2, <1>4, <2>0, <2>1, HandledElsewhere
    <2>2. CASE h = nt.to
      <3> DEFINE f == nt.from
      <3>0. UNCHANGED <<pc, tell>> /\ \A nu \in notices : nu.to = h => nu.stage # "save"
        BY <1>1, <2>2 DEF Folding
      <3>1. /\ f \in Holders \ {h} /\ nt.oldPID = old[f] /\ nt.newPID = latest[f]
            /\ nt.awaited /\ h \notin tell[f] /\ ~Due(f, h)
            /\ \A stages : Between(f, h, stages) = IF nt.stage \in stages THEN {nt} ELSE {}
        BY <1>2, <2>0, <2>2, NoticeFacts
      <3>2. /\ Unmoved(f, h)
            /\ \A stages : Between(f, h, stages)' = IF next.stage \in stages THEN {next} ELSE {}
            /\ ~Due(f, h)'
        <4>0. /\ UNCHANGED <<pc, tell>> /\ nt.to = h /\ Types /\ Waiting
              /\ notices' = (notices \ {nt}) \cup {next}
              /\ next.from = nt.from /\ next.to = nt.to
          BY <1>2, <1>4, <2>2, <3>0
        <4> QED BY <2>0, <4>0, BecomesBetween
      <3>3. ~RowLags(f, h) /\ ~RowLags(f, h)'
        <4>1. Between(f, h, {"sent"}) = {} /\ Between(f, h, {"sent"})' = {}
          BY <1>1, <1>4, <3>1, <3>2
        <4> QED BY <3>1, <3>2, <4>1 DEF RowLags
      <3>4. \A w : ~Unwritten(f, h, w) /\ ~Unwritten(f, h, w)'
        <4>1. Between(f, h, {"rows"}) = {nt} /\ Between(f, h, {"rows"})' = {}
          BY <1>1, <1>4, <3>1, <3>2
        <4> QED BY <1>1, <4>1 DEF Unwritten
      <3>5. ManifestLags(f, h) /\ ManifestLags(f, h)'
        <4>1. Between(f, h, {"sent", "rows", "save"}) = {nt}
              /\ Between(f, h, {"sent", "rows", "save"})' = {next}
          BY <1>1, <1>4, <3>1, <3>2
        <4> QED BY <4>1 DEF ManifestLags
      <3>6. RowsFollow(h)'
        BY <1>1, <2>0, <3>2, <3>3, <3>4 DEF Follows, RowsFollow, Expected, Unmoved
      <3>7. ManifestFollows(h)'
        BY <1>1, <2>0, <3>2, <3>5 DEF Follows, ManifestFollows, Expected, Unmoved
      <3>8. manifest[f] = nt.oldPID
        BY <1>1, <2>0, <2>2, <3>1, <3>5 DEF Follows, ManifestFollows, Expected
      <3>9. (Genuine(next) /\ FoldsRows(next) /\ FoldsManifest(next) /\ Alone(next))'
        <4>1. Genuine(next)'
          BY <1>1, <1>4, <2>2, <3>1 DEF Genuine
        <4>2. FoldsManifest(next)'
          BY <1>1, <1>3, <1>4, <2>2, <3>8 DEF FoldsManifest
        <4>3. Alone(next)' /\ FoldsRows(next)'
          BY <1>4, <2>2, <3>0 DEF Alone, FoldsRows
        <4> QED BY <4>1, <4>2, <4>3
      <3>10. ASSUME NEW nu \in notices \ {nt}, nu.to = h
             PROVE  (Genuine(nu) /\ FoldsRows(nu) /\ FoldsManifest(nu) /\ Alone(nu))'
        <4>1. Genuine(nu) /\ FoldsRows(nu) /\ Alone(nu) /\ nu.stage # "save"
          BY <2>0, <3>0, <3>10 DEF Follows, NoticesFollow
        <4> QED BY <1>1, <1>4, <4>1 DEF Genuine, FoldsRows, FoldsManifest, Alone
      <3> QED BY <1>4, <3>6, <3>7, <3>9, <3>10 DEF Follows, NoticesFollow
    <2> QED BY <2>1, <2>2
  <1>8. disturbed' # Holders => disturbed # Holders
    BY <1>1, <1>2 DEF Types
  <1> QED BY <1>5, <1>6, <1>7, <1>8 DEF SyncInv

LEMMA SaveManifestSync ==
  ASSUME IInv, SyncInv, NEW nt \in notices, SaveManifest(nt)
  PROVE  SyncInv'
  <1>1. /\ nt.stage = "save" /\ manifest' = nt.list
        /\ notices' = notices \ {nt} /\ Released(nt)
        /\ UNCHANGED <<rows, latest, old, snap, tell, disturbed>>
    BY DEF SaveManifest, Answer, Released
  <1>2. Types /\ Waiting /\ nt.to = Owner /\ nt.list \in [Holders -> Nat]
    BY <1>1 DEF IInv, SyncInv, Waiting, Types, Notice, Lists
  <1>3. nt.list # NoManifest
    BY <1>2, GossipAssumption DEF NoManifest
  <1>4. Waiting'
    BY <1>1, <1>2, WaitingAnswer
  <1>5. ASSUME disturbed # Holders, NEW k \in Holders
        PROVE  OneRow(k)'
    BY <1>1, <1>2, <1>5, OneRowHandled DEF SyncInv
  <1>6. ASSUME NEW h \in Holders \ disturbed
        PROVE  Follows(h)'
    <2>0. Follows(h)
      BY DEF SyncInv
    <2>1. CASE h # nt.to
      BY <1>1, <1>2, <2>0, <2>1, HandledElsewhere
    <2>2. CASE h = nt.to
      <3> DEFINE f == nt.from
      <3>0. Released(nt) /\ UNCHANGED tell /\ notices' = notices \ {nt}
        BY <1>1
      <3>1. /\ f \in Holders \ {h} /\ ~Due(f, h) /\ nt.newPID = latest[f]
            /\ FoldsManifest(nt) /\ Alone(nt)
            /\ \A stages : Between(f, h, stages) = IF nt.stage \in stages THEN {nt} ELSE {}
        BY <1>2, <2>0, <2>2, NoticeFacts
      <3>2. /\ Unmoved(f, h)
            /\ \A stages : Between(f, h, stages)' = {}
            /\ ~Due(f, h)'
        BY <1>2, <2>0, <2>2, <3>0, AnswerBetween
      <3>3. ~RowLags(f, h) /\ ~RowLags(f, h)' /\ ~ManifestLags(f, h)'
        <4>1. Between(f, h, {"sent"}) = {}
          BY <1>1, <3>1
        <4> QED BY <3>1, <3>2, <4>1 DEF RowLags, ManifestLags
      <3>4. \A w : ~Unwritten(f, h, w) /\ ~Unwritten(f, h, w)'
        <4>1. Between(f, h, {"rows"}) = {} /\ Between(f, h, {"rows"})' = {}
          BY <1>1, <3>1, <3>2
        <4> QED BY <4>1 DEF Unwritten
      <3>5. pc'[h] = "put" => pc[h] = "put"
        BY <1>1, <1>2 DEF Released, Types
      <3>6. RowsFollow(h)'
        BY <1>1, <2>0, <3>2, <3>3, <3>4, <3>5 DEF Follows, RowsFollow, Expected, Unmoved
      <3>7. manifest # NoManifest /\ \A k \in Holders \ {h} :
              nt.list[k] = IF k = f THEN nt.newPID ELSE manifest[k]
        BY <1>1, <2>2, <3>1 DEF FoldsManifest
      <3>8. ManifestFollows(h)'
        <4> SUFFICES ASSUME NEW k \in Holders \ {h}
                     PROVE  Expected(k, ManifestLags(k, h))' = nt.list[k]
          BY <1>1, <1>3 DEF ManifestFollows
        <4>1. CASE k = f
          BY <1>1, <3>1, <3>3, <3>7, <4>1 DEF Expected
        <4>2. CASE k # f
          BY <1>1, <1>2, <2>0, <2>2, <3>2, <3>7, <4>2 DEF Expected, Follows, ManifestFollows, Unmoved
        <4> QED BY <4>1, <4>2
      <3>9. ASSUME NEW nu \in notices \ {nt}, nu.to = h
            PROVE  (Genuine(nu) /\ FoldsRows(nu) /\ FoldsManifest(nu) /\ Alone(nu))'
        <4>1. Genuine(nu) /\ FoldsRows(nu) /\ Alone(nu)
          BY <2>0, <3>9 DEF Follows, NoticesFollow
        <4>2. nu.stage # "save"
          BY <1>1, <2>2, <3>1, <3>9 DEF Alone
        <4> QED BY <1>1, <3>5, <3>9, <4>1, <4>2 DEF Genuine, FoldsRows, FoldsManifest, Alone
      <3> QED BY <1>1, <3>6, <3>8, <3>9 DEF Follows, NoticesFollow
    <2> QED BY <2>1, <2>2
  <1> QED BY <1>1, <1>4, <1>5, <1>6 DEF SyncInv

(* A restart while nothing is being mutated there costs the others nothing. *)
LEMMA RestartSync ==
  ASSUME IInv, SyncInv, NEW g \in Holders, Restart(g)
  PROVE  SyncInv'
  <1>1. PICK handled, sent :
          /\ handled = {nt \in notices : nt.to = g} /\ sent = Awaited(g) \ handled
          /\ notices' = (notices \ (handled \cup sent)) \cup Forgotten(sent)
          /\ pc' = [k \in Holders |->
                      IF k = g THEN "idle"
                      ELSE IF pc[k] = "wait" /\ Awaited(k) \cap handled # {}
                      THEN "tell" ELSE pc[k]]
    BY DEF Restart
  <1>2. /\ old' = [old EXCEPT ![g] = 0] /\ snap' = [snap EXCEPT ![g] = Dealt]
        /\ tell' = [tell EXCEPT ![g] = {}]
        /\ disturbed' = disturbed \cup {g} \cup (IF pc[g] = "idle" THEN {} ELSE Holders)
        /\ UNCHANGED <<rows, manifest, latest>>
    BY DEF Restart, tables
  <1>3. Types /\ Waiting /\ sent \subseteq notices
    BY <1>1 DEF IInv, SyncInv, Awaited
  <1>4. \A k \in Holders \ {g} : pc'[k] # pc[k] => pc[k] = "wait" /\ pc'[k] = "tell"
    BY <1>1
  <1>5. \A nt \in notices' :
          nt \notin notices \ (handled \cup sent) =>
            ~nt.awaited /\ \E nu \in sent : /\ nt.from = nu.from /\ nt.to = nu.to
                                            /\ nt.stage = nu.stage
    BY <1>1, <1>3, ForgottenCopies
  <1>6. Waiting'
    <2>1. \A nt \in notices' : nt.stage = "save" => nt.to = Owner
      BY <1>3, <1>5 DEF Waiting
    <2>2. ASSUME NEW nt \in notices', nt.awaited
          PROVE  nt \in notices /\ pc'[nt.from] = "wait"
      <3>1. nt \in notices /\ nt \notin handled /\ nt \notin sent
        BY <1>5, <2>2
      <3>2. nt.from \in Holders \ {g} /\ pc[nt.from] = "wait"
        BY <1>1, <1>3, <2>2, <3>1, SenderFacts DEF Awaited, Waiting
      <3>3. Awaited(nt.from) \cap handled = {}
        BY <1>3, <2>2, <3>1 DEF Awaited, Waiting
      <3> QED BY <1>1, <3>1, <3>2, <3>3
    <2> QED BY <1>3, <2>1, <2>2 DEF Waiting
  <1>7. disturbed' # Holders => disturbed # Holders /\ pc[g] = "idle"
    BY <1>2, <1>3 DEF Types
  <1>8. ASSUME disturbed' # Holders, NEW k \in Holders
        PROVE  OneRow(k)'
    <2>1. OneRow(k) /\ pc[g] = "idle" /\ pc'[g] = "idle"
      BY <1>1, <1>7, <1>8 DEF SyncInv
    <2> QED BY <1>2, <1>3, <1>4, <2>1 DEF OneRow, Types, Lists
  <1>9. ASSUME NEW h \in Holders \ disturbed'
        PROVE  Follows(h)'
    <2>1. Follows(h) /\ h # g /\ pc[g] = "idle"
      BY <1>2 DEF SyncInv
    <2>2. Awaited(g) = {}
      BY <1>3, <2>1 DEF Awaited, Waiting
    <2>3. notices' = notices \ handled
      BY <1>1, <2>2 DEF Forgotten
    <2>4. \A nt : nt \in notices' /\ nt.to = h <=> nt \in notices /\ nt.to = h
      BY <1>1, <2>1, <2>3
    <2>5. \A k \in Holders \ {g} : Same(k, h)
      BY <1>2, <1>3, <1>4 DEF Same, Due, Types, Lists
    <2>6. Settled(g, h)
      <3>1. NoneTo(g, h)
        BY <1>3, <2>1, Untold
      <3>2. ~Due(g, h) /\ ~Due(g, h)'
        BY <1>1, <2>1 DEF Due
      <3> QED BY <1>2, <3>1, <3>2 DEF Settled, Value, Expected
    <2>7. rows'[h] = rows[h] /\ manifest' = manifest /\ snap'[h] = snap[h]
          /\ (pc'[h] = "put" => pc[h] = "put")
      BY <1>2, <1>3, <1>4, <2>1 DEF Types
    <2> QED BY <1>3, <2>1, <2>4, <2>5, <2>6, <2>7, Frame, SenderFacts
  <1> QED BY <1>6, <1>7, <1>8, <1>9 DEF SyncInv

LEMMA NextSync == IInv /\ SyncInv /\ [Next]_vars => SyncInv'
  <1> SUFFICES ASSUME IInv, SyncInv, [Next]_vars
               PROVE  SyncInv'
    OBVIOUS
  <1>1. CASE UNCHANGED vars
    <2>1. /\ UNCHANGED <<rows, manifest, latest, pc, old, snap, tell, notices, disturbed>>
          /\ Types /\ Waiting
      BY <1>1 DEF vars, tables, mutator, IInv, SyncInv
    <2>2. Waiting' /\ \A k \in Holders : OneRow(k)' <=> OneRow(k)
      BY <2>1 DEF Waiting, OneRow
    <2>3. \A k, h : Same(k, h)
      BY <2>1 DEF Same, Due
    <2>4. ASSUME NEW h \in Holders \ disturbed
          PROVE  Follows(h)'
      BY <2>1, <2>3, Frame, SenderFacts DEF SyncInv
    <2> QED BY <2>1, <2>2, <2>4 DEF SyncInv
  <1>2. CASE \E h \in Holders : Mutate(h)
    BY <1>2, PutFragmentSync, DeleteFragmentSync, MutationEndsSync, NotifyTimesOutSync,
       NotifyMutationSync, NotifyFailsSync DEF Mutate
  <1>3. CASE \E nt \in notices : Handle(nt)
    BY <1>3, SelectRowsSync, UpdateRowSync, NoManifestHereSync, ReadManifestSync,
       SaveManifestSync DEF Handle
  <1> QED BY <1>1, <1>2, <1>3, DeliverSync, PutManifestSync, GetFragmentSync, RestartSync DEF Next

LEMMA SyncInvariance == Spec => []SyncInv
  BY InitSync, NextSync, Invariance, PTL DEF Spec

(* With nothing under way, a holder that missed no notice and mixed none   *)
(* up knows every other member's current pseudo-ID, in its rows and in the *)
(* manifest (notifySiblings, UpdateSibling, UpdateManifestMember).         *)
THEOREM KnownWhenQuiet == Spec => []InSync
  BY InSyncFollows, SyncInvariance, PTL
=============================================================================
