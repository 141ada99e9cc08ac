------------------------- MODULE AlertIntake_proofs -------------------------
(***************************************************************************)
(* What the purge promises, for any alerts, keys and any number of         *)
(* incidents, orders, failed writes and crashes: a purged incident never   *)
(* comes back, and the episode purged last of an alert stays gone while it *)
(* lasts.                                                                  *)
(***************************************************************************)
EXTENDS AlertIntake, TLAPS

(***************************************************************************)
(* The inductive invariant                                                 *)
(***************************************************************************)
\* The fields the maps and the tables have.
Shape ==
    /\ DOMAIN mem = {"incidents", "alerts", "incidentByKey", "alertByGroup", "alertByFinger",
                     "episodes"}
    /\ DOMAIN rows = {"incidents", "alerts", "episodes"}

\* An identifier that was handed out and not purged.
Extant(i) == i \in 1..made.incidents /\ i \notin gone

\* Every incident, in memory, in a row or about to be written, is one of those,
\* and so is the incident of every alert.
Clean(part) ==
    /\ \A i \in DOMAIN part.incidents : Extant(i)
    /\ \A a \in DOMAIN part.alerts : Extant(part.alerts[a].incident)
Pending ==
    /\ DOMAIN writing \subseteq Tables
    /\ "incidents" \in DOMAIN writing => Extant(writing["incidents"].id)
    /\ "alerts" \in DOMAIN writing =>
        /\ Extant(writing["alerts"].row.incident)
        /\ writing["alerts"].id \in DOMAIN mem.alerts
        /\ mem.alerts[writing["alerts"].id] = writing["alerts"].row

\* The tombstone of the episode purged last is in memory and in its table.
Marked ==
    \A f \in Fingerprints : buried[f] # 0 =>
        mem.episodes[f].firedAt = buried[f] /\ rows.episodes[f].firedAt = buried[f]

IInv ==
    /\ Shape
    /\ made.incidents \in Nat
    /\ gone \subseteq 1..made.incidents
    /\ Clean(mem) /\ Clean(rows)
    /\ Pending
    /\ Marked

\* What a step may do to the alert records: none is new, in memory or in a row,
\* for an episode purged last.
Faithful ==
    \A f \in Fingerprints : buried[f] # 0 /\ buried'[f] = buried[f] =>
        Everywhere(f, buried[f])' \subseteq Everywhere(f, buried[f])

\* With the writer lock free nothing is about to be written.
LEMMA NothingPending == ASSUME writing = Nothing PROVE Pending
BY DEF Pending, Nothing

\* The store starts empty.
LEMMA InitIInv == Init => IInv
BY DEF Init, IInv, Shape, Clean, Pending, Marked, Nothing, Extant

\* Clearing tombstones, with or without their rows, touches nothing else.
LEMMA ClearingKeeps ==
    ASSUME IInv, NEW F \in SUBSET Fingerprints,
           mem' = [mem EXCEPT !.episodes = Cleared(@, F)], ClearTombstones(F),
           UNCHANGED <<writing, made, gone>>
    PROVE  IInv' /\ Faithful
<1>1. PICK lost \in SUBSET F : rows' = [rows EXCEPT !.episodes = Cleared(@, F \ lost)]
  BY DEF ClearTombstones
<1>2. /\ DOMAIN mem' = DOMAIN mem /\ DOMAIN rows' = DOMAIN rows
      /\ mem'.incidents = mem.incidents /\ rows'.incidents = rows.incidents
      /\ mem'.alerts = mem.alerts /\ rows'.alerts = rows.alerts
      /\ mem'.episodes = Cleared(mem.episodes, F)
      /\ rows'.episodes = Cleared(rows.episodes, F \ lost)
  BY <1>1 DEF IInv, Shape
<1>3. buried' = [f \in Fingerprints |-> IF f \in F THEN 0 ELSE buried[f]]
  BY DEF ClearTombstones
<1>4. Marked'
  BY <1>2, <1>3 DEF IInv, Marked, Cleared
<1>5. Clean(mem)' /\ Clean(rows)' /\ Pending' /\ Shape'
  BY <1>2 DEF IInv, Clean, Pending, Shape, Extant
<1>6. Faithful
  BY <1>2 DEF Faithful, Everywhere, Shown
<1>7. QED
  BY <1>4, <1>5, <1>6 DEF IInv

\* A step that leaves the alerts, the tombstones and what is to be written, and
\* adds no incident but one there is, keeps everything.
LEMMA IncidentKeeps ==
    ASSUME IInv, NEW i \in DOMAIN mem.incidents,
           Shape', UNCHANGED <<writing, made, gone, buried>>,
           mem'.alerts = mem.alerts, rows'.alerts = rows.alerts,
           mem'.episodes = mem.episodes, rows'.episodes = rows.episodes,
           DOMAIN mem'.incidents \subseteq DOMAIN mem.incidents,
           DOMAIN rows'.incidents \subseteq DOMAIN rows.incidents \cup {i}
    PROVE  IInv' /\ Faithful
<1>1. Extant(i)
  BY DEF IInv, Clean
<1>2. Clean(mem)' /\ Clean(rows)'
  BY <1>1 DEF IInv, Clean, Extant
<1>3. Pending' /\ Marked'
  BY DEF IInv, Pending, Marked, Extant
<1>4. Faithful
  BY DEF Faithful, Everywhere, Shown
<1>5. QED
  BY <1>2, <1>3, <1>4 DEF IInv

\* persistIncidentLocked: the row of an incident that is in memory.
LEMMA PersistKeeps ==
    ASSUME IInv, NEW i \in DOMAIN mem.incidents, NEW incident, NEW ok, PersistIncident(i, incident, ok),
           UNCHANGED <<writing, made, gone, buried>>
    PROVE  IInv' /\ Faithful
<1>1. mem' = [mem EXCEPT !.incidents[i] = incident]
  BY DEF PersistIncident
<1>2. DOMAIN mem' = DOMAIN mem /\ DOMAIN mem'.incidents = DOMAIN mem.incidents
      /\ mem'.alerts = mem.alerts /\ mem'.episodes = mem.episodes
  BY <1>1 DEF IInv, Shape
<1>3. rows' = rows \/ rows' = [rows EXCEPT !.incidents = Put(@, i, Row(incident))]
  BY DEF PersistIncident
<1>4. DOMAIN rows' = DOMAIN rows /\ rows'.alerts = rows.alerts /\ rows'.episodes = rows.episodes
      /\ DOMAIN rows'.incidents \subseteq DOMAIN rows.incidents \cup {i}
  BY <1>3 DEF IInv, Shape, Put
<1>5. Shape'
  BY <1>2, <1>4 DEF IInv, Shape
<1>6. QED
  BY <1>2, <1>4, <1>5, IncidentKeeps

\* RestoreIncident fills in index entries, and those only.
LEMMA RestoreKeeps ==
    ASSUME IInv, NEW i, RestoreIncident(i)
    PROVE  IInv' /\ Faithful
<1>1. PICK ok \in BOOLEAN, order \in Orders(AlertsOf(i)) :
        LET back == [mem.incidents[i] EXCEPT !.deletedAt = 0, !.archived = FALSE] IN
        /\ mem' = Registered([mem EXCEPT !.incidents[i] = back], i, order)
        /\ rows' = IF ok THEN [rows EXCEPT !.incidents = Put(@, i, Row(back))] ELSE rows
  BY DEF RestoreIncident
<1> DEFINE back == [mem.incidents[i] EXCEPT !.deletedAt = 0, !.archived = FALSE]
<1> DEFINE m == [mem EXCEPT !.incidents[i] = back]
<1>2. DOMAIN m = DOMAIN mem /\ DOMAIN m.incidents = DOMAIN mem.incidents
      /\ m.alerts = mem.alerts /\ m.episodes = mem.episodes
  BY DEF IInv, Shape
<1>3. mem' = Registered(m, i, order)
  BY <1>1
<1> HIDE DEF m
<1>4. DOMAIN mem' = DOMAIN m /\ mem'.incidents = m.incidents
      /\ mem'.alerts = m.alerts /\ mem'.episodes = m.episodes
  BY <1>2, <1>3 DEF Registered, IInv, Shape
<1>5. \/ rows' = rows
      \/ rows' = [rows EXCEPT !.incidents = Put(@, i, Row(back))]
  BY <1>1
<1> HIDE DEF back
<1>6. DOMAIN rows' = DOMAIN rows /\ rows'.alerts = rows.alerts /\ rows'.episodes = rows.episodes
      /\ DOMAIN rows'.incidents \subseteq DOMAIN rows.incidents \cup {i}
  BY <1>5 DEF IInv, Shape, Put
<1>7. Shape' /\ i \in DOMAIN mem.incidents /\ UNCHANGED <<writing, made, gone, buried>>
  BY <1>2, <1>4, <1>6 DEF IInv, Shape, RestoreIncident, pastVars
<1>8. QED
  BY <1>2, <1>4, <1>6, <1>7, IncidentKeeps

\* A statement of a webhook brings into its table what memory holds already.
LEMMA WriteKeeps ==
    ASSUME IInv, NEW table, Write(table)
    PROVE  IInv' /\ Faithful
<1> DEFINE id == writing[table].id
<1>1. table \in DOMAIN writing /\ writing' = Without(writing, {table})
      /\ UNCHANGED <<mem, made, gone, buried>>
  BY DEF Write, pastVars
<1>2. rows' = rows \/ rows' = [rows EXCEPT ![table] = Put(@, id, writing[table].row)]
  BY DEF Write
<1>3. Pending'
  BY <1>1 DEF IInv, Pending, Without, Restrict, Extant
<1>4. CASE rows' = rows
  BY <1>1, <1>3, <1>4 DEF IInv, Shape, Clean, Marked, Extant, Faithful, Everywhere, Shown
<1>5. CASE table = "incidents" /\ rows' = [rows EXCEPT ![table] = Put(@, id, writing[table].row)]
  <2>1. rows' = [rows EXCEPT !["incidents"] = Put(@, id, writing[table].row)] /\ Extant(id)
    BY <1>1, <1>5 DEF IInv, Pending
  <2> HIDE DEF id
  <2>2. DOMAIN rows' = DOMAIN rows /\ rows'.alerts = rows.alerts /\ rows'.episodes = rows.episodes
        /\ DOMAIN rows'.incidents = DOMAIN rows.incidents \cup {id}
    BY <2>1 DEF IInv, Shape, Put
  <2>3. Shape' /\ Clean(mem)' /\ Clean(rows)'
    BY <1>1, <2>1, <2>2 DEF IInv, Shape, Clean, Extant
  <2>4. Marked' /\ Faithful
    BY <1>1, <2>2 DEF IInv, Marked, Faithful, Everywhere, Shown
  <2>5. QED
    BY <1>1, <1>3, <2>3, <2>4 DEF IInv
<1>6. CASE table = "alerts" /\ rows' = [rows EXCEPT ![table] = Put(@, id, writing[table].row)]
  <2> DEFINE row == writing[table].row
  <2>1. /\ rows' = [rows EXCEPT !["alerts"] = Put(@, id, row)]
        /\ Extant(row.incident) /\ id \in DOMAIN mem.alerts /\ mem.alerts[id] = row
    BY <1>1, <1>6 DEF IInv, Pending
  <2> HIDE DEF id, row
  <2>2. DOMAIN rows' = DOMAIN rows /\ rows'.incidents = rows.incidents
        /\ rows'.episodes = rows.episodes /\ rows'.alerts = Put(rows.alerts, id, row)
    BY <2>1 DEF IInv, Shape
  <2>3. Shape' /\ Clean(mem)' /\ Clean(rows)'
    BY <1>1, <2>1, <2>2 DEF IInv, Shape, Clean, Extant, Put
  <2>4. Marked'
    BY <1>1, <2>2 DEF IInv, Marked
  <2>5. ASSUME NEW f, NEW t PROVE Shown(rows', f, t) \subseteq Everywhere(f, t)
    BY <2>1, <2>2 DEF Everywhere, Shown, Put
  <2>6. Faithful
    BY <1>1, <2>5 DEF Faithful, Everywhere
  <2>7. QED
    BY <1>1, <1>3, <2>3, <2>4, <2>6 DEF IInv
<1>7. table \in {"incidents", "alerts"}
  BY <1>1 DEF IInv, Pending, Tables
<1>8. QED
  BY <1>2, <1>4, <1>5, <1>6, <1>7

\* A webhook reaches a live incident or a new one, and never the episode its
\* tombstone names (episodeTombstoneDropsLocked, resolveAlertRecordLocked).
LEMMA UpsertKeeps ==
    ASSUME IInv, NEW f \in Fingerprints, Upsert(f)
    PROVE  IInv' /\ Faithful
<1> DEFINE i == IncidentId(f)
           a == AlertId(f)
           fresh == IncidentFor(f) = 0
           record == RecordOf(f, i)
           incident == Informed(IF fresh THEN NewIncident(f) ELSE mem.incidents[i], record)
           F == {g \in {f} : Spent(g)}
<1>1. /\ ~Tombstoned(f) /\ (fresh \/ i \in DOMAIN mem.incidents)
      /\ made'.incidents = Later(made.incidents, i)
      /\ mem'.incidents = Put(mem.incidents, i, incident)
      /\ mem'.alerts = Put(mem.alerts, a, record)
      /\ mem'.episodes = Cleared(mem.episodes, F)
      /\ DOMAIN mem' = DOMAIN mem
      /\ ClearTombstones(F)
      /\ DOMAIN writing' = Tables /\ writing'["incidents"].id = i
      /\ writing'["alerts"].id = a /\ writing'["alerts"].row = record
      /\ gone' = gone
  BY DEF Upsert, IInv, Shape, Tables
<1>2. fresh => i = made.incidents + 1
  BY DEF IncidentId
<1>3. record.incident = i /\ record.fp = f /\ record.firedAt = alertmanager[f].start
  BY DEF RecordOf
<1> HIDE DEF i, a, record, incident, fresh
<1>4. PICK lost \in SUBSET F : rows' = [rows EXCEPT !.episodes = Cleared(@, F \ lost)]
  BY <1>1 DEF ClearTombstones
<1>5. DOMAIN rows' = DOMAIN rows /\ rows'.incidents = rows.incidents /\ rows'.alerts = rows.alerts
      /\ rows'.episodes = Cleared(rows.episodes, F \ lost)
  BY <1>4 DEF IInv, Shape
<1>6. buried' = [g \in Fingerprints |-> IF g \in F THEN 0 ELSE buried[g]]
  BY <1>1 DEF ClearTombstones
<1>7. /\ made'.incidents \in Nat /\ gone' \subseteq 1..made'.incidents
      /\ \A x : Extant(x) \/ x = i => Extant(x)'
  <2>1. CASE fresh
    <3>1. made'.incidents = made.incidents + 1 /\ i = made'.incidents
      BY <1>1, <1>2, <2>1 DEF IInv, Later
    <3>2. QED
      BY <1>1, <3>1 DEF IInv, Extant
  <2>2. CASE i \in DOMAIN mem.incidents
    <3>1. Extant(i)
      BY <2>2 DEF IInv, Clean
    <3>2. made'.incidents = made.incidents
      BY <1>1, <3>1 DEF IInv, Extant, Later
    <3>3. QED
      BY <1>1, <3>1, <3>2 DEF IInv, Extant
  <2>3. QED
    BY <1>1, <2>1, <2>2
<1>8. Clean(mem)' /\ Clean(rows)'
  BY <1>1, <1>3, <1>5, <1>7 DEF IInv, Clean, Put
<1>9. Pending'
  BY <1>1, <1>3, <1>7 DEF Pending, Put, Tables
<1>10. Shape' /\ Marked'
  BY <1>1, <1>5, <1>6 DEF IInv, Shape, Marked, Cleared
<1>11. Faithful
  <2> SUFFICES ASSUME NEW g \in Fingerprints, buried[g] # 0, buried'[g] = buried[g]
               PROVE  Shown(mem', g, buried[g]) \subseteq Everywhere(g, buried[g])
    BY <1>5 DEF Faithful, Everywhere, Shown
  <2>1. CASE g = f
    <3>1. alertmanager[f].start # buried[g]
      BY <1>1, <2>1 DEF IInv, Marked, Tombstoned
    <3>2. QED
      BY <1>1, <1>3, <3>1 DEF Shown, Everywhere, Put
  <2>2. CASE g # f
    BY <1>1, <1>3, <2>2 DEF Shown, Everywhere, Put
  <2>3. QED
    BY <2>1, <2>2
<1>12. QED
  BY <1>7, <1>8, <1>9, <1>10, <1>11 DEF IInv

\* HardDeleteIncident: with the writer lock free, the incident, its records and
\* their rows go together, and the tombstones come with them.
LEMMA PurgeKeeps ==
    ASSUME IInv, NEW i, HardDelete(i)
    PROVE  IInv' /\ Faithful
<1>1. writing = Nothing /\ i \in DOMAIN mem.incidents /\ UNCHANGED <<writing, made>>
  BY DEF HardDelete, Purge, WriterFree
<1>2. CASE UNCHANGED <<rows, mem, gone, buried>>
  BY <1>1, <1>2 DEF IInv, Shape, Clean, Pending, Marked, Extant, Faithful, Everywhere, Shown
<1>3. CASE \E graves \in Graves(i) :
            /\ rows' = PurgedRows(i, graves)
            /\ mem' = [Removed(i) EXCEPT !.episodes = Dug(@, graves)]
            /\ gone' = gone \cup {i}
            /\ buried' = [f \in Fingerprints |-> IF f \in DOMAIN graves THEN graves[f] ELSE buried[f]]
  <2>1. PICK graves \in Graves(i) :
            /\ rows' = PurgedRows(i, graves)
            /\ mem' = [Removed(i) EXCEPT !.episodes = Dug(@, graves)]
            /\ gone' = gone \cup {i}
            /\ buried' = [f \in Fingerprints |-> IF f \in DOMAIN graves THEN graves[f] ELSE buried[f]]
    BY <1>3
  <2>2. /\ DOMAIN rows' = DOMAIN rows
        /\ rows'.incidents = Without(rows.incidents, {i})
        /\ rows'.alerts = Without(rows.alerts, OfIncident(rows.alerts, i))
        /\ rows'.episodes = Dug(rows.episodes, graves)
    BY <2>1 DEF PurgedRows, IInv, Shape
  <2>3. /\ DOMAIN Removed(i) = DOMAIN mem
        /\ Removed(i).incidents = Without(mem.incidents, {i})
        /\ Removed(i).alerts = Without(mem.alerts, AlertsOf(i))
        /\ Removed(i).episodes = mem.episodes
    BY DEF Removed, IInv, Shape
  <2>4. /\ DOMAIN mem' = DOMAIN mem
        /\ mem'.incidents = Without(mem.incidents, {i})
        /\ mem'.alerts = Without(mem.alerts, AlertsOf(i))
        /\ mem'.episodes = Dug(mem.episodes, graves)
    BY <2>1, <2>3 DEF IInv, Shape
  <2>5. Extant(i) /\ \A x : Extant(x) /\ x # i => Extant(x)'
    BY <1>1, <2>1 DEF IInv, Clean, Extant
  <2>6. gone' \subseteq 1..made'.incidents
    BY <1>1, <2>1, <2>5 DEF IInv, Extant
  <2>7. Clean(mem)' /\ Clean(rows)'
    BY <2>2, <2>4, <2>5 DEF IInv, Clean, Without, Restrict, AlertsOf, OfIncident
  <2>8. Pending' /\ Shape'
    BY <1>1, <2>2, <2>4, NothingPending DEF IInv, Shape, Pending, Nothing
  <2>9. Marked'
    <3> SUFFICES ASSUME NEW f \in Fingerprints, buried'[f] # 0
                 PROVE  mem'.episodes[f].firedAt = buried'[f] /\ rows'.episodes[f].firedAt = buried'[f]
      BY DEF Marked
    <3>1. CASE f \in DOMAIN graves
      BY <2>1, <2>2, <2>4, <3>1 DEF Dug
    <3>2. CASE f \notin DOMAIN graves
      <4>1. buried'[f] = buried[f]
        BY <2>1, <3>2
      <4>2. mem'.episodes[f] = mem.episodes[f] /\ rows'.episodes[f] = rows.episodes[f]
        BY <2>2, <2>4, <3>2 DEF Dug
      <4>3. QED
        BY <4>1, <4>2 DEF IInv, Marked
    <3>3. QED
      BY <3>1, <3>2
  <2>10. Faithful
    BY <2>2, <2>4 DEF Faithful, Everywhere, Shown, Without, Restrict
  <2>11. QED
    BY <1>1, <2>6, <2>7, <2>8, <2>9, <2>10 DEF IInv
<1>4. QED
  BY <1>2, <1>3 DEF HardDelete, Purge

\* The next process starts from the rows.
LEMMA RestartKeeps ==
    ASSUME IInv, Restart
    PROVE  IInv' /\ Faithful
<1>1. PICK byRow \in Orders(DOMAIN rows.incidents), byAlert \in Orders(DOMAIN rows.alerts) :
        mem' = Loaded(byRow, byAlert)
  BY DEF Restart
<1>2. /\ DOMAIN mem' = DOMAIN mem
      /\ DOMAIN mem'.incidents = DOMAIN rows.incidents
      /\ mem'.alerts = rows.alerts /\ mem'.episodes = rows.episodes
  BY <1>1 DEF Loaded, LoadedIncidents, IInv, Shape
<1>3. writing' = Nothing /\ UNCHANGED <<rows, made, gone, buried>>
  BY DEF Restart, pastVars
<1>4. Pending'
  BY <1>3 DEF Pending, Nothing
<1>5. QED
  BY <1>2, <1>3, <1>4
     DEF IInv, Shape, Clean, Marked, Extant, Faithful, Everywhere, Shown

\* Steps of the environment, and those of the passes that only keep a list.
LEMMA IdleKeeps ==
    ASSUME IInv, UNCHANGED <<mem, rows, writing, made, gone, buried>>
    PROVE  IInv' /\ Faithful
BY DEF IInv, Shape, Clean, Pending, Marked, Extant, Faithful, Everywhere, Shown

(***************************************************************************)
(* Every step                                                              *)
(***************************************************************************)
\* Every step keeps the invariant and brings no purged episode back.
LEMMA StepKeeps ==
    ASSUME IInv, [Next]_vars
    PROVE  IInv' /\ Faithful
<1> USE DEF storeVars, pastVars
<1>1. CASE UNCHANGED vars
  BY <1>1, IdleKeeps DEF vars
<1>2. CASE Tick \/ ListExpired \/ ListTrash
  BY <1>2, IdleKeeps DEF Tick, ListExpired, ListTrash
<1>3. CASE Restart
  BY <1>3, RestartKeeps
<1>4. ASSUME NEW f \in Fingerprints, Fire(f) \/ Ends(f)
      PROVE  IInv' /\ Faithful
  BY <1>4, IdleKeeps DEF Fire, Ends
<1>5. ASSUME NEW f \in Fingerprints, Drop(f) \/ Panic(f)
      PROVE  IInv' /\ Faithful
  <2>1. {g \in {f} : Spent(g)} \in SUBSET Fingerprints
    OBVIOUS
  <2>2. QED
    BY <1>5, <2>1, ClearingKeeps DEF Drop, Panic
<1>6. ASSUME NEW f \in Fingerprints, Upsert(f)
      PROVE  IInv' /\ Faithful
  BY <1>6, UpsertKeeps
<1>7. ASSUME NEW table, Write(table)
      PROVE  IInv' /\ Faithful
  BY <1>7, WriteKeeps
<1>8. ASSUME NEW i, Trash(i)
      PROVE  IInv' /\ Faithful
  BY <1>8, PersistKeeps DEF Trash, Discard
<1>9. ASSUME NEW i, NEW archived, Archive(i, archived)
      PROVE  IInv' /\ Faithful
  BY <1>9, PersistKeeps DEF Archive
<1>10. ASSUME NEW i, RestoreIncident(i)
       PROVE  IInv' /\ Faithful
  BY <1>10, RestoreKeeps
<1>11. ASSUME NEW i, DeletePermanently(i)
       PROVE  IInv' /\ Faithful
  BY <1>11, PurgeKeeps DEF DeletePermanently
<1>12. ASSUME NEW p, NEW i, DeleteNext(p, i) \/ FindsNone(p, i)
       PROVE  IInv' /\ Faithful
  BY <1>12, PurgeKeeps, IdleKeeps DEF DeleteNext, FindsNone
<1>13. ASSUME NEW p, EndPass(p)
       PROVE  IInv' /\ Faithful
  <2> DEFINE old == IF p = "expired" THEN OldGraves(pass[p].at) ELSE {}
  <2>1. old \in SUBSET Fingerprints
    BY DEF OldGraves
  <2>2. /\ mem' = [mem EXCEPT !.episodes = Cleared(@, old)] /\ ClearTombstones(old)
        /\ UNCHANGED <<writing, made, gone>>
    BY <1>13 DEF EndPass
  <2> HIDE DEF old
  <2>3. QED
    BY <2>1, <2>2, ClearingKeeps
<1>14. QED
  BY <1>1, <1>2, <1>3, <1>4, <1>5, <1>6, <1>7, <1>8, <1>9, <1>10, <1>11, <1>12, <1>13 DEF Next

\* The invariant: identifiers purged stay out of memory, rows and writes, and the
\* tombstone of the episode purged last is in both places.
THEOREM IInvHolds == Spec => []IInv
<1>1. IInv /\ [Next]_vars => IInv'
  BY StepKeeps
<1>2. QED
  BY InitIInv, <1>1, PTL DEF Spec

(***************************************************************************)
(* Rows and memory                                                         *)
(***************************************************************************)
\* A row that is neither about to be written nor left behind by a failed write.
Settled(table, id) ==
    /\ <<table, id>> \notin stale
    /\ table \in DOMAIN writing => writing[table].id # id

IncidentsAgree ==
    \A i : Settled("incidents", i) =>
        /\ i \in DOMAIN rows.incidents <=> i \in DOMAIN mem.incidents
        /\ i \in DOMAIN rows.incidents => rows.incidents[i] = Row(mem.incidents[i])
AlertsAgree ==
    \A a : Settled("alerts", a) =>
        /\ a \in DOMAIN rows.alerts <=> a \in DOMAIN mem.alerts
        /\ a \in DOMAIN rows.alerts => rows.alerts[a] = mem.alerts[a]

\* What is about to be written is what memory holds, and no row has an activity.
WritesAgree ==
    "incidents" \in DOMAIN writing =>
        /\ writing["incidents"].id \in DOMAIN mem.incidents
        /\ writing["incidents"].row = Row(mem.incidents[writing["incidents"].id])
PlainRows == \A i \in DOMAIN rows.incidents : Row(rows.incidents[i]) = rows.incidents[i]

Agreement == IncidentsAgree /\ AlertsAgree /\ WritesAgree /\ PlainRows

\* The activity of an incident is not in its row, whatever it is in memory.
LEMMA RowForgets == \A incident, t : Row([incident EXCEPT !.latest = t]) = Row(incident)
BY DEF Row
\* A row is its own row.
LEMMA RowPlain == \A incident : Row(Row(incident)) = Row(incident)
BY DEF Row

\* The tables start empty, as the maps do.
LEMMA InitAgreement == Init => Agreement
BY DEF Init, Agreement, IncidentsAgree, AlertsAgree, WritesAgree, PlainRows, Nothing

\* Tombstones are neither incidents nor alerts.
LEMMA ClearingAgrees ==
    ASSUME IInv, Agreement, NEW F \in SUBSET Fingerprints,
           mem' = [mem EXCEPT !.episodes = Cleared(@, F)], ClearTombstones(F),
           UNCHANGED <<writing, stale>>
    PROVE  Agreement'
<1>1. PICK lost \in SUBSET F : rows' = [rows EXCEPT !.episodes = Cleared(@, F \ lost)]
  BY DEF ClearTombstones
<1>2. /\ mem'.incidents = mem.incidents /\ rows'.incidents = rows.incidents
      /\ mem'.alerts = mem.alerts /\ rows'.alerts = rows.alerts
  BY <1>1 DEF IInv, Shape
<1>3. QED
  BY <1>2 DEF Agreement, IncidentsAgree, AlertsAgree, WritesAgree, PlainRows, Settled

\* One incident changes, and its row follows or is left behind.
LEMMA IncidentAgrees ==
    ASSUME IInv, Agreement, writing = Nothing, UNCHANGED writing,
           NEW i \in DOMAIN mem.incidents, NEW incident,
           mem'.incidents = [mem.incidents EXCEPT ![i] = incident],
           mem'.alerts = mem.alerts, rows'.alerts = rows.alerts,
           \/ /\ rows'.incidents = Put(rows.incidents, i, Row(incident))
              /\ stale' = stale \ {<<"incidents", i>>}
           \/ /\ rows'.incidents = rows.incidents
              /\ stale' = stale \cup {<<"incidents", i>>}
    PROVE  Agreement'
<1>1. \A t, x : t # "incidents" \/ x # i => (<<t, x>> \in stale' <=> <<t, x>> \in stale)
  OBVIOUS
<1>2. DOMAIN writing = {} /\ DOMAIN writing' = {}
  BY DEF Nothing
<1>3. AlertsAgree'
  BY <1>1, <1>2 DEF Agreement, AlertsAgree, Settled
<1>4. IncidentsAgree'
  BY <1>1, <1>2 DEF Agreement, IncidentsAgree, Settled, Put
<1>5. PlainRows'
  BY RowPlain DEF Agreement, PlainRows, Put
<1>6. QED
  BY <1>2, <1>3, <1>4, <1>5 DEF Agreement, WritesAgree

\* persistIncidentLocked writes the incident it is given, or counts its row as left behind.
LEMMA PersistAgrees ==
    ASSUME IInv, Agreement, writing = Nothing, UNCHANGED writing,
           NEW i \in DOMAIN mem.incidents, NEW incident, NEW ok \in BOOLEAN,
           PersistIncident(i, incident, ok)
    PROVE  Agreement'
<1>1. mem'.incidents = [mem.incidents EXCEPT ![i] = incident] /\ mem'.alerts = mem.alerts
  BY DEF PersistIncident, IInv, Shape
<1>2. CASE ok
  <2>1. rows' = [rows EXCEPT !.incidents = Put(@, i, Row(incident))]
        /\ stale' = stale \ {<<"incidents", i>>}
    BY <1>2 DEF PersistIncident
  <2>2. rows'.incidents = Put(rows.incidents, i, Row(incident)) /\ rows'.alerts = rows.alerts
    BY <2>1 DEF IInv, Shape
  <2>3. QED
    BY <1>1, <2>1, <2>2, IncidentAgrees
<1>3. CASE ~ok
  BY <1>1, <1>3, IncidentAgrees DEF PersistIncident
<1>4. QED
  BY <1>2, <1>3

\* RestoreIncident writes the incident it changed, whatever indexes it fills in.
LEMMA RestoreAgrees ==
    ASSUME IInv, Agreement, NEW i, RestoreIncident(i)
    PROVE  Agreement'
<1> DEFINE back == [mem.incidents[i] EXCEPT !.deletedAt = 0, !.archived = FALSE]
           m == [mem EXCEPT !.incidents[i] = back]
<1>1. PICK ok \in BOOLEAN, order \in Orders(AlertsOf(i)) :
        /\ mem' = Registered(m, i, order)
        /\ rows' = IF ok THEN [rows EXCEPT !.incidents = Put(@, i, Row(back))] ELSE rows
        /\ stale' = IF ok THEN stale \ {<<"incidents", i>>} ELSE stale \cup {<<"incidents", i>>}
  BY DEF RestoreIncident
<1>2. writing = Nothing /\ writing' = writing /\ i \in DOMAIN mem.incidents
  BY DEF RestoreIncident, WriterFree
<1>3. DOMAIN m = DOMAIN mem /\ m.alerts = mem.alerts
      /\ m.incidents = [mem.incidents EXCEPT ![i] = back]
  BY DEF IInv, Shape
<1> HIDE DEF m, back
<1>4. mem'.incidents = m.incidents /\ mem'.alerts = m.alerts
  BY <1>1, <1>3 DEF Registered, IInv, Shape
<1>5. CASE ok
  <2>1. rows' = [rows EXCEPT !.incidents = Put(@, i, Row(back))]
    BY <1>1, <1>5
  <2>2. rows'.incidents = Put(rows.incidents, i, Row(back)) /\ rows'.alerts = rows.alerts
    BY <2>1 DEF IInv, Shape
  <2>3. QED
    BY <1>1, <1>2, <1>3, <1>4, <1>5, <2>2, IncidentAgrees
<1>6. CASE ~ok
  BY <1>1, <1>2, <1>3, <1>4, <1>6, IncidentAgrees
<1>7. QED
  BY <1>5, <1>6

\* A statement that succeeds settles its row, one that fails leaves it behind.
LEMMA WriteAgrees ==
    ASSUME IInv, Agreement, NEW table, Write(table)
    PROVE  Agreement'
<1>1. /\ table \in {"incidents", "alerts"} /\ table \in DOMAIN writing
      /\ DOMAIN writing' = DOMAIN writing \ {table}
      /\ \A t \in DOMAIN writing' : writing'[t] = writing[t]
      /\ mem' = mem
  BY DEF Write, IInv, Pending, Tables, Without, Restrict
<1> DEFINE id == writing[table].id
           row == writing[table].row
<1>2. PICK ok \in BOOLEAN :
        /\ rows' = IF ok THEN [rows EXCEPT ![table] = Put(@, id, row)] ELSE rows
        /\ stale' = IF ok THEN stale \ {<<table, id>>} ELSE stale \cup {<<table, id>>}
  BY DEF Write
<1>i. id = writing[table].id /\ row = writing[table].row
  OBVIOUS
<1> HIDE DEF id, row
<1>3. \A t, x : t # table \/ x # id => (<<t, x>> \in stale' <=> <<t, x>> \in stale)
  BY <1>2
<1>4. CASE ~ok
  <2>1. rows' = rows /\ <<table, id>> \in stale'
    BY <1>2, <1>4
  <2>2. \A t, x : Settled(t, x)' => Settled(t, x)
    BY <1>1, <1>i, <1>3, <2>1 DEF Settled
  <2>3. QED
    BY <1>1, <2>1, <2>2 DEF Agreement, IncidentsAgree, AlertsAgree, WritesAgree, PlainRows
<1>5. CASE ok /\ table = "incidents"
  <2>1. rows'.incidents = Put(rows.incidents, id, row) /\ rows'.alerts = rows.alerts
    BY <1>2, <1>5 DEF IInv, Shape
  <2>2. id \in DOMAIN mem.incidents /\ row = Row(mem.incidents[id])
    BY <1>1, <1>i, <1>5 DEF Agreement, WritesAgree
  <2>3. AlertsAgree'
    BY <1>1, <1>3, <1>5, <2>1 DEF Agreement, AlertsAgree, Settled
  <2>4. ASSUME NEW x, Settled("incidents", x)', x # id PROVE Settled("incidents", x)
    BY <1>1, <1>i, <1>3, <1>5, <2>4 DEF Settled
  <2>5. IncidentsAgree'
    BY <1>1, <2>1, <2>2, <2>4 DEF Agreement, IncidentsAgree, Put
  <2>6. PlainRows'
    BY <2>1, <2>2, RowPlain DEF Agreement, PlainRows, Put
  <2>7. QED
    BY <1>1, <1>5, <2>3, <2>5, <2>6 DEF Agreement, WritesAgree
<1>6. CASE ok /\ table = "alerts"
  <2>1. rows'.alerts = Put(rows.alerts, id, row) /\ rows'.incidents = rows.incidents
    BY <1>2, <1>6 DEF IInv, Shape
  <2>2. id \in DOMAIN mem.alerts /\ row = mem.alerts[id]
    BY <1>1, <1>i, <1>6 DEF IInv, Pending
  <2>3. IncidentsAgree' /\ WritesAgree' /\ PlainRows'
    BY <1>1, <1>3, <1>6, <2>1 DEF Agreement, IncidentsAgree, WritesAgree, PlainRows, Settled
  <2>4. ASSUME NEW x, Settled("alerts", x)', x # id PROVE Settled("alerts", x)
    BY <1>1, <1>i, <1>3, <1>6, <2>4 DEF Settled
  <2>5. AlertsAgree'
    BY <1>1, <2>1, <2>2, <2>4 DEF Agreement, AlertsAgree, Put
  <2>6. QED
    BY <2>3, <2>5 DEF Agreement
<1>7. QED
  BY <1>1, <1>4, <1>5, <1>6

\* What a webhook changed in memory is what is about to be written.
LEMMA UpsertAgrees ==
    ASSUME IInv, Agreement, NEW f \in Fingerprints, Upsert(f)
    PROVE  Agreement'
<1> DEFINE i == IncidentId(f)
           a == AlertId(f)
           record == RecordOf(f, i)
           incident == Informed(IF IncidentFor(f) = 0 THEN NewIncident(f) ELSE mem.incidents[i], record)
           F == {g \in {f} : Spent(g)}
<1>1. /\ mem'.incidents = Put(mem.incidents, i, incident)
      /\ mem'.alerts = Put(mem.alerts, a, record)
      /\ ClearTombstones(F)
      /\ DOMAIN writing = {} /\ DOMAIN writing' = Tables
      /\ writing'["incidents"].id = i /\ writing'["incidents"].row = Row(incident)
      /\ writing'["alerts"].id = a /\ writing'["alerts"].row = record
      /\ stale' = stale
  BY DEF Upsert, Told, WriterFree, Nothing, Tables
<1> HIDE DEF i, a, record, incident
<1>2. PICK lost \in SUBSET F : rows' = [rows EXCEPT !.episodes = Cleared(@, F \ lost)]
  BY <1>1 DEF ClearTombstones
<1>3. rows'.incidents = rows.incidents /\ rows'.alerts = rows.alerts
  BY <1>2 DEF IInv, Shape
<1>4. IncidentsAgree'
  BY <1>1, <1>3 DEF Agreement, IncidentsAgree, Settled, Put, Tables
<1>5. AlertsAgree'
  BY <1>1, <1>3 DEF Agreement, AlertsAgree, Settled, Put, Tables
<1>6. WritesAgree' /\ PlainRows'
  BY <1>1, <1>3 DEF Agreement, WritesAgree, PlainRows, Put, Tables
<1>7. QED
  BY <1>4, <1>5, <1>6 DEF Agreement

\* The records of an incident in memory and its rows are deleted together.
LEMMA PurgeAgrees ==
    ASSUME IInv, Agreement, NEW i, HardDelete(i)
    PROVE  Agreement'
<1>1. DOMAIN writing = {} /\ UNCHANGED <<writing, stale>>
  BY DEF HardDelete, Purge, WriterFree, Nothing
<1>2. CASE UNCHANGED <<rows, mem>>
  BY <1>1, <1>2 DEF Agreement, IncidentsAgree, AlertsAgree, WritesAgree, PlainRows, Settled
<1>3. CASE \E graves \in Graves(i) :
            /\ rows' = PurgedRows(i, graves)
            /\ mem' = [Removed(i) EXCEPT !.episodes = Dug(@, graves)]
  <2>1. PICK graves \in Graves(i) :
            /\ rows' = PurgedRows(i, graves)
            /\ mem' = [Removed(i) EXCEPT !.episodes = Dug(@, graves)]
    BY <1>3
  <2>2. /\ rows'.incidents = Without(rows.incidents, {i})
        /\ rows'.alerts = Without(rows.alerts, OfIncident(rows.alerts, i))
    BY <2>1 DEF PurgedRows, IInv, Shape
  <2>3. /\ DOMAIN Removed(i) = DOMAIN mem
        /\ Removed(i).incidents = Without(mem.incidents, {i})
        /\ Removed(i).alerts = Without(mem.alerts, AlertsOf(i))
    BY DEF Removed, IInv, Shape
  <2>4. /\ mem'.incidents = Without(mem.incidents, {i})
        /\ mem'.alerts = Without(mem.alerts, AlertsOf(i))
    BY <2>1, <2>3 DEF IInv, Shape
  <2>5. IncidentsAgree' /\ PlainRows'
    BY <1>1, <2>2, <2>4 DEF Agreement, IncidentsAgree, PlainRows, Settled, Without, Restrict
  <2>6. AlertsAgree'
    BY <1>1, <2>2, <2>4
       DEF Agreement, AlertsAgree, Settled, Without, Restrict, AlertsOf, OfIncident
  <2>7. QED
    BY <1>1, <2>5, <2>6 DEF Agreement, WritesAgree
<1>4. QED
  BY <1>2, <1>3 DEF HardDelete, Purge

\* A restart forgets what was about to be written, and what had failed.
LEMMA RestartAgrees ==
    ASSUME IInv, Agreement, Restart
    PROVE  Agreement'
<1>1. PICK byRow \in Orders(DOMAIN rows.incidents), byAlert \in Orders(DOMAIN rows.alerts) :
        mem' = Loaded(byRow, byAlert)
  BY DEF Restart
<1>2. mem'.incidents = LoadedIncidents /\ mem'.alerts = rows.alerts
  BY <1>1 DEF Loaded
<1>3. rows' = rows /\ DOMAIN writing' = {}
  BY DEF Restart, Nothing
<1>4. DOMAIN LoadedIncidents = DOMAIN rows.incidents
      /\ \A i \in DOMAIN rows.incidents : \E t : LoadedIncidents[i] = [rows.incidents[i] EXCEPT !.latest = t]
  BY DEF LoadedIncidents
<1>5. \A i \in DOMAIN rows.incidents : Row(LoadedIncidents[i]) = rows.incidents[i]
  <2> SUFFICES ASSUME NEW i \in DOMAIN rows.incidents
               PROVE  Row(LoadedIncidents[i]) = rows.incidents[i]
    OBVIOUS
  <2>1. PICK t : LoadedIncidents[i] = [rows.incidents[i] EXCEPT !.latest = t]
    BY <1>4
  <2>2. Row([rows.incidents[i] EXCEPT !.latest = t]) = Row(rows.incidents[i])
    BY RowForgets
  <2>3. QED
    BY <2>1, <2>2 DEF Agreement, PlainRows
<1>6. QED
  BY <1>2, <1>3, <1>4, <1>5 DEF Agreement, IncidentsAgree, AlertsAgree, WritesAgree, PlainRows

\* Steps that touch neither the store nor what is to be written.
LEMMA IdleAgrees ==
    ASSUME Agreement, UNCHANGED storeVars
    PROVE  Agreement'
BY DEF storeVars, Agreement, IncidentsAgree, AlertsAgree, WritesAgree, PlainRows, Settled

\* Every step keeps rows and memory in agreement.
LEMMA StepAgrees ==
    ASSUME IInv, Agreement, [Next]_vars
    PROVE  Agreement'
<1>1. CASE UNCHANGED vars
  BY <1>1, IdleAgrees DEF vars
<1>2. CASE Tick \/ ListExpired \/ ListTrash
  BY <1>2, IdleAgrees DEF Tick, ListExpired, ListTrash
<1>3. CASE Restart
  BY <1>3, RestartAgrees
<1>4. ASSUME NEW f \in Fingerprints, Fire(f) \/ Ends(f)
      PROVE  Agreement'
  BY <1>4, IdleAgrees DEF Fire, Ends
<1>5. ASSUME NEW f \in Fingerprints, Drop(f) \/ Panic(f)
      PROVE  Agreement'
  <2>1. {g \in {f} : Spent(g)} \in SUBSET Fingerprints
    OBVIOUS
  <2>2. QED
    BY <1>5, <2>1, ClearingAgrees DEF Drop, Panic
<1>6. ASSUME NEW f \in Fingerprints, Upsert(f)
      PROVE  Agreement'
  BY <1>6, UpsertAgrees
<1>7. ASSUME NEW table, Write(table)
      PROVE  Agreement'
  BY <1>7, WriteAgrees
<1>8. ASSUME NEW i, Trash(i)
      PROVE  Agreement'
  BY <1>8, PersistAgrees DEF Trash, Discard, WriterFree
<1>9. ASSUME NEW i, NEW archived, Archive(i, archived)
      PROVE  Agreement'
  BY <1>9, PersistAgrees DEF Archive, WriterFree
<1>10. ASSUME NEW i, RestoreIncident(i)
       PROVE  Agreement'
  BY <1>10, RestoreAgrees
<1>11. ASSUME NEW i, DeletePermanently(i)
       PROVE  Agreement'
  BY <1>11, PurgeAgrees DEF DeletePermanently
<1>12. ASSUME NEW p, NEW i, DeleteNext(p, i) \/ FindsNone(p, i)
       PROVE  Agreement'
  BY <1>12, PurgeAgrees, IdleAgrees DEF DeleteNext, FindsNone
<1>13. ASSUME NEW p, EndPass(p)
       PROVE  Agreement'
  <2> DEFINE old == IF p = "expired" THEN OldGraves(pass[p].at) ELSE {}
  <2>1. old \in SUBSET Fingerprints
    BY DEF OldGraves
  <2>2. /\ mem' = [mem EXCEPT !.episodes = Cleared(@, old)] /\ ClearTombstones(old)
        /\ UNCHANGED <<writing, stale>>
    BY <1>13 DEF EndPass
  <2> HIDE DEF old
  <2>3. QED
    BY <2>1, <2>2, ClearingAgrees
<1>14. QED
  BY <1>1, <1>2, <1>3, <1>4, <1>5, <1>6, <1>7, <1>8, <1>9, <1>10, <1>11, <1>12, <1>13 DEF Next

(***************************************************************************)
(* Results                                                                 *)
(***************************************************************************)
\* A purged incident never comes back, whatever webhook was still writing when
\* it was purged (HardDeleteIncident).
THEOREM GoneForGoodHolds == Spec => []GoneForGood
<1>1. IInv => GoneForGood
  BY DEF IInv, Clean, Extant, GoneForGood
<1>2. QED
  BY IInvHolds, <1>1, PTL

\* The episode purged last of an alert stays gone while its tombstone lasts,
\* through resends, failed statements and restarts (episodeTombstoneDropsLocked).
THEOREM LastPurgedStaysGoneHolds == Spec => LastPurgedStaysGone
<1>1. IInv /\ [Next]_vars => [Faithful]_vars
  BY StepKeeps
<1>2. QED
  BY IInvHolds, <1>1, PTL DEF Spec, LastPurgedStaysGone, Faithful

\* The lost update the writer lock is there for: with no write under way, the
\* rows are what memory holds, but for those whose last write failed.
THEOREM RowsAgreeHolds == Spec => []RowsAgree
<1>1. Agreement /\ IInv /\ [Next]_vars => Agreement'
  BY StepAgrees
<1>2. Agreement => RowsAgree
  <2> SUFFICES ASSUME Agreement, writing = Nothing, NEW table \in Tables
               PROVE  LET Stored(id) == IF table = "incidents" THEN Row(mem.incidents[id]) ELSE mem.alerts[id]
                          failed == {e[2] : e \in {x \in stale : x[1] = table}} IN
                      /\ DOMAIN rows[table] \ failed = DOMAIN mem[table] \ failed
                      /\ \A id \in DOMAIN rows[table] \ failed : rows[table][id] = Stored(id)
    BY DEF RowsAgree, WriterFree
  <2> DEFINE failed == {e[2] : e \in {x \in stale : x[1] = table}}
  <2>1. \A id : id \notin failed => Settled(table, id)
    <3>1. \A id : <<table, id>> \in stale => id \in failed
      OBVIOUS
    <3>2. QED
      BY <3>1 DEF Settled, Nothing
  <2> HIDE DEF failed
  <2>2. CASE table = "incidents"
    BY <2>1, <2>2 DEF Agreement, IncidentsAgree, failed
  <2>3. CASE table = "alerts"
    BY <2>1, <2>3 DEF Agreement, AlertsAgree, failed
  <2>4. QED
    BY <2>2, <2>3 DEF Tables
<1>3. QED
  BY InitAgreement, IInvHolds, <1>1, <1>2, PTL DEF Spec
=============================================================================
