----------------------------- MODULE AlertIntake -----------------------------
(***************************************************************************)
(* Alerts, incidents and the trash (backend/internal/server/store.go:      *)
(* UpsertAlertResult, the archive, the trash and the purge; their rows in  *)
(* store_postgres.go; the queue of handlers_alert.go).                     *)
(*                                                                         *)
(* Alertmanager tells the current episode of an alert - its StartsAt and   *)
(* its status - any number of times: webhooks are repeated and lost, but   *)
(* of one alert they arrive in order.  A webhook is applied to memory      *)
(* under mu; its two rows are written after mu is released, with writeMu   *)
(* held, which every other writer takes first; readers take only mu.       *)
(*                                                                         *)
(* Identifiers count up from 1, and 0 is the missing map entry or time.    *)
(* Severities, titles and the occurrence counters carry no decision but    *)
(* that of a new occurrence, and are left out.                             *)
(***************************************************************************)
EXTENDS Integers, FiniteSets, Functions

CONSTANTS
    Fingerprints,     \* the fingerprints of alerts
    Keys,             \* the correlation keys
    KeyOf,            \* [Fingerprints -> Keys]: correlationKey reads labels only
    FlapKeys,         \* the keys with the prefix "flap:"
    Window,           \* flappingWindow
    TrashRetention,   \* TRASH_RETENTION_DAYS
    EpisodeRetention, \* deletedEpisodeRetention
    MaxTime,          \* bound: the clock
    MaxIncidents,     \* bound: incidents ever made
    MaxAlerts,        \* bound: alert records ever made
    MaxOrders,        \* bound: what operators ask
    MaxDisruptions    \* bound: failed writes and crashes, together

ASSUME ConstantsAssumption ==
    /\ KeyOf \in [Fingerprints -> Keys]
    /\ FlapKeys \subseteq Keys
    /\ {Window, TrashRetention, EpisodeRetention} \subseteq Nat
    /\ {MaxTime, MaxIncidents, MaxAlerts} \subseteq Nat \ {0}
    /\ {MaxOrders, MaxDisruptions} \subseteq Nat

VARIABLES
    alertmanager, \* the current episode of each alert
    mem,          \* the store's maps: incidents, alerts, their indexes, the tombstones
    rows,         \* the tables incidents, alerts and deleted_alert_episodes
    writing,      \* the rows the holder of writeMu has still to write
    pass,         \* PurgeExpiredTrash and EmptyTrash, each with the ids it listed
    made,         \* the identifiers handed out
    now,          \* the clock
    asked,        \* the episodes queued for an automatic analysis so far
    stale,        \* rows whose last write failed
    gone,         \* incidents purged for good
    buried,       \* the last episode purged of each fingerprint, until it ends, 0 if none
    mourned,      \* every episode purged so far
    orders,       \* what operators asked so far
    disruptions   \* failed writes and crashes so far

storeVars == <<mem, rows, writing, stale>>
pastVars  == <<asked, gone, buried, mourned>>
vars == <<alertmanager, storeVars, pass, made, now, pastVars, orders, disruptions>>

IncidentIds == 1..MaxIncidents
AlertIds    == 1..MaxAlerts
Times       == 0..MaxTime
Episode     == [firedAt : Times, deletedAt : Times]
NoEpisode   == [firedAt |-> 0, deletedAt |-> 0]

Incident == [key : Keys, status : {"firing", "resolved"}, firedAt : Times, resolvedAt : Times,
             latest : Times, archived : BOOLEAN, deletedAt : Times]
AlertRecord == [incident : IncidentIds, fp : Fingerprints, status : {"firing", "resolved"},
                firedAt : Times, resolvedAt : Times]

Put(f, k, v) == [x \in DOMAIN f \cup {k} |-> IF x = k THEN v ELSE f[x]]
Without(f, S) == Restrict(f, DOMAIN f \ S)
Later(s, t) == IF s > t THEN s ELSE t
Distance(s, t) == IF s > t THEN s - t ELSE t - s

(***************************************************************************)
(* Type                                                                    *)
(***************************************************************************)
Tables == {"incidents", "alerts"}

\* Every identifier, time and index entry is one that was handed out.
TypeOK ==
    /\ alertmanager \in [Fingerprints -> [start : Times, status : {"firing", "resolved"}, ended : Times]]
    /\ \A part \in {mem, rows} :
        /\ DOMAIN part.incidents \subseteq IncidentIds /\ Range(part.incidents) \subseteq Incident
        /\ DOMAIN part.alerts \subseteq AlertIds /\ Range(part.alerts) \subseteq AlertRecord
        /\ part.episodes \in [Fingerprints -> Episode]
    /\ mem.incidentByKey \in [Keys -> IncidentIds \cup {0}]
    /\ mem.alertByGroup \in [Keys -> AlertIds \cup {0}]
    /\ mem.alertByFinger \in [Fingerprints -> AlertIds \cup {0}]
    /\ DOMAIN writing \subseteq Tables
    /\ pass \in [{"expired", "empty"} -> [open : BOOLEAN, todo : SUBSET IncidentIds, at : Times]]
    /\ stale \subseteq Tables \X Nat
    /\ gone \subseteq IncidentIds /\ buried \in [Fingerprints -> Times]
    /\ asked \cup mourned \subseteq Fingerprints \X Times

Nothing == <<>>
Idle    == [open |-> FALSE, todo |-> {}, at |-> 0]

Init ==
    /\ alertmanager = [f \in Fingerprints |-> [start |-> 0, status |-> "resolved", ended |-> 0]]
    /\ mem = [incidents |-> Nothing, alerts |-> Nothing,
              incidentByKey |-> [k \in Keys |-> 0], alertByGroup |-> [k \in Keys |-> 0],
              alertByFinger |-> [f \in Fingerprints |-> 0],
              episodes |-> [f \in Fingerprints |-> NoEpisode]]
    /\ rows = [incidents |-> Nothing, alerts |-> Nothing,
               episodes |-> [f \in Fingerprints |-> NoEpisode]]
    /\ writing = Nothing
    /\ pass = [p \in {"expired", "empty"} |-> Idle]
    /\ made = [incidents |-> 0, alerts |-> 0]
    /\ now = 1
    /\ asked = {} /\ stale = {} /\ gone = {} /\ mourned = {}
    /\ buried = [f \in Fingerprints |-> 0]
    /\ orders = 0 /\ disruptions = 0

(***************************************************************************)
(* The environment                                                         *)
(***************************************************************************)
Tick == now < MaxTime /\ now' = now + 1
        /\ UNCHANGED <<alertmanager, storeVars, pass, made, pastVars, orders, disruptions>>

\* A new episode has a new StartsAt.
Fire(f) ==
    /\ alertmanager[f].status = "resolved" /\ alertmanager[f].start < now
    /\ alertmanager' = [alertmanager EXCEPT ![f] = [start |-> now, status |-> "firing", ended |-> 0]]
    /\ UNCHANGED <<storeVars, pass, made, now, pastVars, orders, disruptions>>

Ends(f) ==
    /\ alertmanager[f].status = "firing"
    /\ alertmanager' = [alertmanager EXCEPT ![f].status = "resolved", ![f].ended = now]
    /\ UNCHANGED <<storeVars, pass, made, now, pastVars, orders, disruptions>>

(***************************************************************************)
(* Writes                                                                  *)
(***************************************************************************)
WriterFree == writing = Nothing     \* writeMu

\* A write either succeeds or is one of the bounded failures.
Fault(ok) ==
    IF ok THEN UNCHANGED disruptions
    ELSE disruptions < MaxDisruptions /\ disruptions' = disruptions + 1

Row(incident) == [incident EXCEPT !.latest = 0]     \* LatestActivityAt has no column

\* persistIncidentLocked in the call that changed the incident; when it fails
\* the change stays in memory.
PersistIncident(i, incident, ok) ==
    /\ Fault(ok)
    /\ mem' = [mem EXCEPT !.incidents[i] = incident]
    /\ IF ok THEN /\ rows' = [rows EXCEPT !.incidents = Put(@, i, Row(incident))]
                  /\ stale' = stale \ {<<"incidents", i>>}
       ELSE rows' = rows /\ stale' = stale \cup {<<"incidents", i>>}

\* One of the two statements of a webhook, after mu was released.
Write(table) ==
    /\ table \in DOMAIN writing
    /\ writing' = Without(writing, {table})
    /\ \E ok \in BOOLEAN :
        LET id == writing[table].id IN
        /\ Fault(ok)
        /\ rows' = IF ok THEN [rows EXCEPT ![table] = Put(@, id, writing[table].row)] ELSE rows
        /\ stale' = IF ok THEN stale \ {<<table, id>>} ELSE stale \cup {<<table, id>>}
    /\ UNCHANGED <<alertmanager, mem, pass, made, now, pastVars, orders>>

(***************************************************************************)
(* A webhook                                                               *)
(***************************************************************************)
Trashed(i) == i \in DOMAIN mem.incidents /\ mem.incidents[i].deletedAt # 0

\* shouldReuseIncidentForAlertLocked
Reuse(k, i, t) ==
    /\ i \in DOMAIN mem.incidents /\ ~Trashed(i)
    /\ k \in FlapKeys => Distance(t, mem.incidents[i].latest) <= Window

\* The tombstone has done its job: its episode ended, or a newer one started.
Spent(f) ==
    LET told == alertmanager[f]
        firedAt == mem.episodes[f].firedAt
    IN /\ firedAt # 0 /\ told.start >= firedAt
       /\ told.start = firedAt => told.status = "resolved"

Cleared(episodes, F) == [f \in Fingerprints |-> IF f \in F THEN NoEpisode ELSE episodes[f]]

\* clearEpisodeTombstoneLocked: a failed delete is only logged.
ClearTombstones(F) ==
    /\ \E lost \in SUBSET F :
        /\ Fault(lost = {})
        /\ rows' = [rows EXCEPT !.episodes = Cleared(@, F \ lost)]
    /\ buried' = [f \in Fingerprints |-> IF f \in F THEN 0 ELSE buried[f]]

\* The record a webhook may belong to: one per key, whatever the fingerprint.
Candidate(f) ==
    IF mem.alertByGroup[KeyOf[f]] # 0 THEN mem.alertByGroup[KeyOf[f]] ELSE mem.alertByFinger[f]

Held(f) == Candidate(f) \in DOMAIN mem.alerts
Home(f) == mem.alerts[Candidate(f)].incident
SameEpisode(f) == alertmanager[f].start <= mem.alerts[Candidate(f)].firedAt

Swallowed(f) == Held(f) /\ Trashed(Home(f)) /\ SameEpisode(f)
Joins(f) ==
    Held(f) /\ ~Trashed(Home(f)) /\ (SameEpisode(f) \/ Reuse(KeyOf[f], Home(f), alertmanager[f].start))

AlertFor(f) == IF Held(f) /\ ~Joins(f) THEN 0 ELSE Candidate(f)
IncidentFor(f) ==
    LET byKey == mem.incidentByKey[KeyOf[f]] IN
    IF Joins(f) THEN Home(f)
    ELSE IF Reuse(KeyOf[f], byKey, alertmanager[f].start) THEN byKey ELSE 0

NewIncident(f) ==
    [key |-> KeyOf[f], status |-> "firing", firedAt |-> alertmanager[f].start, resolvedAt |-> 0,
     latest |-> 0, archived |-> FALSE, deletedAt |-> 0]

RecordOf(f, i) ==
    LET told == alertmanager[f] IN
    [incident |-> i, fp |-> f, status |-> told.status, firedAt |-> told.start, resolvedAt |-> told.ended]

\* The incident after the webhook: out of the archive, resolved or firing again,
\* its activity moved to that of the record.
Informed(incident, record) ==
    LET active == Later(record.firedAt, record.resolvedAt)
        turned == IF record.status = "resolved"
                  THEN IF incident.resolvedAt = 0
                       THEN [incident EXCEPT !.status = "resolved", !.resolvedAt = record.resolvedAt]
                       ELSE incident
                  ELSE [incident EXCEPT !.status = "firing", !.resolvedAt =
                            IF incident.status = "resolved" THEN 0 ELSE @]
    IN [turned EXCEPT !.archived = FALSE, !.latest = Later(@, active)]

\* The identifiers of the incident and the record, new ones where none is reused.
IncidentId(f) == IF IncidentFor(f) = 0 THEN made.incidents + 1 ELSE IncidentFor(f)
AlertId(f)    == IF AlertFor(f) = 0 THEN made.alerts + 1 ELSE AlertFor(f)

NewOccurrence(f) ==
    LET a == AlertId(f) IN
    \/ a \notin DOMAIN mem.alerts
    \/ mem.alertByFinger[f] # a
    \/ /\ alertmanager[f].status = "firing"
       /\ mem.alerts[a].status = "resolved" \/ alertmanager[f].start > mem.alerts[a].firedAt

Changed(f) ==
    \/ NewOccurrence(f)
    \/ LET new == RecordOf(f, IncidentId(f)) IN
       [mem.alerts[AlertId(f)] EXCEPT !.fp = new.fp, !.incident = new.incident] # new

\* Queued for an automatic analysis: new information of an alert still firing.
Queued(f) == Changed(f) /\ alertmanager[f].status = "firing"

Told(f) == WriterFree /\ alertmanager[f].start # 0
Tombstoned(f) == mem.episodes[f].firedAt = alertmanager[f].start

\* The episode was purged or is in the trash.
Drop(f) ==
    /\ Told(f) /\ (Tombstoned(f) \/ Swallowed(f))
    /\ mem' = [mem EXCEPT !.episodes = Cleared(@, {g \in {f} : Spent(g)})]
    /\ ClearTombstones({g \in {f} : Spent(g)})
    /\ UNCHANGED <<alertmanager, writing, stale, pass, made, now, asked, gone, mourned, orders>>

\* The record's incident has no row: the handler panics on it, its locks
\* released by their defers, and net/http drops the request.
Panic(f) ==
    /\ Told(f) /\ ~Tombstoned(f) /\ ~Swallowed(f)
    /\ IncidentFor(f) # 0 /\ IncidentFor(f) \notin DOMAIN mem.incidents
    /\ mem' = [mem EXCEPT !.episodes = Cleared(@, {g \in {f} : Spent(g)})]
    /\ ClearTombstones({g \in {f} : Spent(g)})
    /\ UNCHANGED <<alertmanager, writing, stale, pass, made, now, asked, gone, mourned, orders>>

Upsert(f) ==
    LET i        == IncidentId(f)
        a        == AlertId(f)
        fresh    == IncidentFor(f) = 0
        record   == RecordOf(f, i)
        incident == Informed(IF fresh THEN NewIncident(f) ELSE mem.incidents[i], record)
    IN
    /\ Told(f) /\ ~Tombstoned(f) /\ ~Swallowed(f)
    /\ fresh \/ i \in DOMAIN mem.incidents
    /\ i \in IncidentIds /\ a \in AlertIds
    /\ made' = [incidents |-> Later(made.incidents, i), alerts |-> Later(made.alerts, a)]
    /\ mem' = [incidents     |-> Put(mem.incidents, i, incident),
               alerts        |-> Put(mem.alerts, a, record),
               incidentByKey |-> IF fresh THEN [mem.incidentByKey EXCEPT ![KeyOf[f]] = i]
                                 ELSE mem.incidentByKey,
               alertByGroup  |-> [mem.alertByGroup EXCEPT ![KeyOf[f]] = a],
               alertByFinger |-> [mem.alertByFinger EXCEPT ![f] = a],
               episodes      |-> Cleared(mem.episodes, {g \in {f} : Spent(g)})]
    /\ ClearTombstones({g \in {f} : Spent(g)})
    /\ writing' = [incidents |-> [id |-> i, row |-> Row(incident)], alerts |-> [id |-> a, row |-> record]]
    /\ asked' = IF Queued(f) THEN asked \cup {<<f, alertmanager[f].start>>} ELSE asked
    /\ UNCHANGED <<alertmanager, stale, pass, now, gone, mourned, orders>>

(***************************************************************************)
(* The operator: archive, trash, restore, purge                            *)
(***************************************************************************)
Order == orders < MaxOrders /\ orders' = orders + 1

Archive(i, archived) ==
    /\ Order /\ WriterFree
    /\ i \in DOMAIN mem.incidents /\ ~Trashed(i)
    /\ \E ok \in BOOLEAN : PersistIncident(i, [mem.incidents[i] EXCEPT !.archived = archived], ok)
    /\ UNCHANGED <<alertmanager, writing, pass, made, now, pastVars>>

Discard(i) ==
    /\ Order /\ i \in DOMAIN mem.incidents
    /\ \E ok \in BOOLEAN :
        PersistIncident(i, [mem.incidents[i] EXCEPT !.deletedAt = IF @ = 0 THEN now ELSE @], ok)
    /\ UNCHANGED <<alertmanager, writing, pass, made, now, pastVars>>

\* A bug: writeMu is not taken.
TrashAtOnce(i) == Discard(i)

\* SoftDeleteIncident: the indexes stay.
Trash(i) == WriterFree /\ Discard(i)

AlertsOf(i) == {a \in DOMAIN mem.alerts : mem.alerts[a].incident = i}

\* A total order of S, and of some of its members the one that decides.
Orders(S) == {order \in [S -> 1..Cardinality(S)] : IsInjective(order)}
LastOf(order, S) == IF S = {} THEN 0 ELSE CHOOSE x \in S : \A y \in S : order[y] <= order[x]

\* registerIncidentIndexesLocked: missing entries are filled in, and only those,
\* with the records of the incident in map order.
Registered(m, i, order) ==
    LET k == m.incidents[i].key
        Else(id, S) == IF id = 0 THEN LastOf(order, S) ELSE id
    IN [m EXCEPT
        !.incidentByKey[k] = IF @ = 0 THEN i ELSE @,
        !.alertByGroup[k] = Else(@, AlertsOf(i)),
        !.alertByFinger = [f \in Fingerprints |-> Else(@[f], {a \in AlertsOf(i) : m.alerts[a].fp = f})]]

RestoreIncident(i) ==
    /\ Order /\ WriterFree
    /\ i \in DOMAIN mem.incidents
    /\ \E ok \in BOOLEAN, order \in Orders(AlertsOf(i)) :
        LET back == [mem.incidents[i] EXCEPT !.deletedAt = 0, !.archived = FALSE] IN
        /\ Fault(ok)
        /\ mem' = Registered([mem EXCEPT !.incidents[i] = back], i, order)
        /\ rows' = IF ok THEN [rows EXCEPT !.incidents = Put(@, i, Row(back))] ELSE rows
        /\ stale' = IF ok THEN stale \ {<<"incidents", i>>} ELSE stale \cup {<<"incidents", i>>}
    /\ UNCHANGED <<alertmanager, writing, pass, made, now, pastVars>>

\* removeIncidentIndexesLocked, and the maps.
Removed(i) ==
    LET mine == AlertsOf(i)
        Forget(index, S) == [x \in DOMAIN index |-> IF index[x] \in S THEN 0 ELSE index[x]]
    IN [mem EXCEPT
        !.incidents = Without(@, {i}), !.alerts = Without(@, mine),
        !.incidentByKey = Forget(@, {i}),
        !.alertByGroup = [@ EXCEPT ![mem.incidents[i].key] = IF @ \in mine THEN 0 ELSE @],
        !.alertByFinger = [f \in Fingerprints |->
            IF @[f] \in mine /\ mem.alerts[@[f]].fp = f THEN 0 ELSE @[f]]]

\* The tombstones of the purged records: one per fingerprint, over any older one.
Graves(i) ==
    LET F == {mem.alerts[a].fp : a \in AlertsOf(i)} IN
    {graves \in [F -> {mem.alerts[a].firedAt : a \in AlertsOf(i)}] :
        \A f \in F : \E a \in AlertsOf(i) : mem.alerts[a].fp = f /\ mem.alerts[a].firedAt = graves[f]}

Dug(episodes, graves) ==
    [f \in Fingerprints |-> IF f \in DOMAIN graves THEN [firedAt |-> graves[f], deletedAt |-> now]
                            ELSE episodes[f]]

OfIncident(table, i) == {a \in DOMAIN table : table[a].incident = i}

\* A bug: the tombstones are not part of the transaction.
PurgedRowsAlone(i, graves) ==
    [rows EXCEPT !.incidents = Without(@, {i}), !.alerts = Without(@, OfIncident(@, i))]

\* persistHardDeleteIncidentLocked: one transaction.
PurgedRows(i, graves) ==
    [rows EXCEPT !.incidents = Without(@, {i}), !.alerts = Without(@, OfIncident(@, i)),
                 !.episodes = Dug(@, graves)]

Purge(i) ==
    /\ i \in DOMAIN mem.incidents
    /\ \/ \E graves \in Graves(i) :
            /\ rows' = PurgedRows(i, graves)
            /\ mem' = [Removed(i) EXCEPT !.episodes = Dug(@, graves)]
            /\ gone' = gone \cup {i}
            /\ buried' = [f \in Fingerprints |-> IF f \in DOMAIN graves THEN graves[f] ELSE buried[f]]
            /\ mourned' = mourned \cup {<<f, graves[f]>> : f \in DOMAIN graves}
            /\ UNCHANGED disruptions
       \/ Fault(FALSE) /\ UNCHANGED <<rows, mem, gone, buried, mourned>>
    /\ UNCHANGED <<alertmanager, writing, stale, made, now, asked>>

\* A bug: writeMu is not taken.
HardDeleteAtOnce(i) == Purge(i)

\* HardDeleteIncident.  When the transaction fails nothing changes.  It does not
\* look whether the incident is in the trash.
HardDelete(i) == WriterFree /\ Purge(i)

DeletePermanently(i) == Order /\ HardDelete(i) /\ UNCHANGED pass

(***************************************************************************)
(* The passes over the trash.  They list under the read lock, which a      *)
(* webhook that still writes does not hold, and delete one by one.         *)
(***************************************************************************)
InTrash == {i \in DOMAIN mem.incidents : Trashed(i)}

OldGraves(t) == {f \in Fingerprints : mem.episodes[f] # NoEpisode
                                      /\ mem.episodes[f].deletedAt + EpisodeRetention < t}

\* The hourly pass; one with nothing to do changes nothing and is left out.
ListExpired ==
    LET expired == {i \in InTrash : mem.incidents[i].deletedAt + TrashRetention <= now} IN
    /\ ~pass["expired"].open
    /\ expired # {} \/ OldGraves(now) # {}
    /\ pass' = [pass EXCEPT !["expired"] = [open |-> TRUE, at |-> now, todo |-> expired]]
    /\ UNCHANGED <<alertmanager, storeVars, made, now, pastVars, orders, disruptions>>

ListTrash ==
    /\ Order /\ ~pass["empty"].open
    /\ pass' = [pass EXCEPT !["empty"] = [open |-> TRUE, at |-> now, todo |-> InTrash]]
    /\ UNCHANGED <<alertmanager, storeVars, made, now, pastVars, disruptions>>

Step(p, i) == pass' = [pass EXCEPT ![p].todo = @ \ {i}]

DeleteNext(p, i) ==
    /\ i \in pass[p].todo /\ Step(p, i) /\ HardDelete(i)
    /\ UNCHANGED orders

FindsNone(p, i) ==
    /\ i \in pass[p].todo /\ Step(p, i)
    /\ WriterFree /\ i \notin DOMAIN mem.incidents
    /\ UNCHANGED <<alertmanager, storeVars, made, now, pastVars, orders, disruptions>>

\* The hourly pass ends with the tombstones no resolve ever cleared.
EndPass(p) ==
    LET old == IF p = "expired" THEN OldGraves(pass[p].at) ELSE {} IN
    /\ pass[p].open /\ pass[p].todo = {}
    /\ p = "expired" => WriterFree
    /\ pass' = [pass EXCEPT ![p] = Idle]
    /\ mem' = [mem EXCEPT !.episodes = Cleared(@, old)]
    /\ ClearTombstones(old)
    /\ UNCHANGED <<alertmanager, writing, stale, made, now, asked, gone, mourned, orders>>

(***************************************************************************)
(* A crash, and the start after it                                         *)
(***************************************************************************)
Alive(i) == ~(i \in DOMAIN rows.incidents /\ rows.incidents[i].deletedAt # 0)

\* The maps the rows give.  The SELECTs have no ORDER BY: of several rows for
\* one entry the one read last stays, in any order.
LoadedIncidents ==
    [i \in DOMAIN rows.incidents |->
        LET times == {0} \cup UNION {{rows.alerts[a].firedAt, rows.alerts[a].resolvedAt} :
                                        a \in OfIncident(rows.alerts, i)}
        IN [rows.incidents[i] EXCEPT !.latest = CHOOSE t \in times : \A s \in times : s <= t]]

Loaded(byRow, byAlert) ==
    LET live == {a \in DOMAIN rows.alerts : Alive(rows.alerts[a].incident)}
        Fp(S, f) == {a \in S : rows.alerts[a].fp = f}
        \* a trashed episode keeps its entry unless a live record has it
        Finger(f) == IF Fp(live, f) # {} THEN Fp(live, f) ELSE Fp(DOMAIN rows.alerts, f)
        InKey(k) == {a \in live : LET i == rows.alerts[a].incident IN
                                    i \in DOMAIN rows.incidents /\ rows.incidents[i].key = k}
    IN [incidents |-> LoadedIncidents, alerts |-> rows.alerts,
        incidentByKey |-> [k \in Keys |->
            LastOf(byRow, {i \in DOMAIN rows.incidents : Alive(i) /\ rows.incidents[i].key = k})],
        alertByGroup |-> [k \in Keys |-> LastOf(byAlert, InKey(k))],
        alertByFinger |-> [f \in Fingerprints |-> LastOf(byAlert, Finger(f))],
        episodes |-> rows.episodes]

Restart ==
    /\ disruptions < MaxDisruptions /\ disruptions' = disruptions + 1
    /\ \E byRow \in Orders(DOMAIN rows.incidents), byAlert \in Orders(DOMAIN rows.alerts) :
        mem' = Loaded(byRow, byAlert)
    /\ writing' = Nothing /\ stale' = {}
    /\ pass' = [p \in {"expired", "empty"} |-> Idle]
    /\ UNCHANGED <<alertmanager, rows, made, now, pastVars, orders>>

Next ==
    \/ Tick \/ Restart \/ ListExpired \/ ListTrash
    \/ \E f \in Fingerprints : Fire(f) \/ Ends(f) \/ Drop(f) \/ Panic(f) \/ Upsert(f)
    \/ \E table \in Tables : Write(table)
    \/ \E i \in IncidentIds : Trash(i) \/ RestoreIncident(i) \/ DeletePermanently(i)
    \/ \E i \in IncidentIds, archived \in BOOLEAN : Archive(i, archived)
    \/ \E p \in {"expired", "empty"} : EndPass(p)
    \/ \E p \in {"expired", "empty"}, i \in IncidentIds : DeleteNext(p, i) \/ FindsNone(p, i)

Spec == Init /\ [][Next]_vars

(***************************************************************************)
(* Properties                                                              *)
(***************************************************************************)
\* With no write under way, the rows are what memory holds, but for rows whose
\* last write failed: no webhook writes a row it read before another writer
\* changed it (the lost update the comment on UpsertAlertResult tells of).
RowsAgree ==
    WriterFree => \A table \in Tables :
        LET Stored(id) == IF table = "incidents" THEN Row(mem.incidents[id]) ELSE mem.alerts[id]
            failed == {e[2] : e \in {x \in stale : x[1] = table}} IN
        /\ DOMAIN rows[table] \ failed = DOMAIN mem[table] \ failed
        /\ \A id \in DOMAIN rows[table] \ failed : rows[table][id] = Stored(id)

\* A purged incident never comes back, in memory or in a row, and no alert
\* record belongs to it (HardDeleteIncident against a webhook that still writes,
\* and against a restart).
GoneForGood ==
    \A part \in {mem, rows} :
        /\ gone \cap DOMAIN part.incidents = {}
        /\ \A a \in DOMAIN part.alerts : part.alerts[a].incident \notin gone

Shown(part, f, t) == {a \in DOMAIN part.alerts : part.alerts[a].fp = f /\ part.alerts[a].firedAt = t}
Everywhere(f, t)  == Shown(mem, f, t) \cup Shown(rows, f, t)

\* No webhook brings back the episode purged last of a fingerprint while it
\* lasts, whatever fails and however often the backend restarts in between (the
\* tombstones: "the purged episode must stay gone").
LastPurgedStaysGone ==
    [][\A f \in Fingerprints : buried[f] # 0 /\ buried'[f] = buried[f] =>
        Everywhere(f, buried[f])' \subseteq Everywhere(f, buried[f])]_vars

(***************************************************************************)
(* Stated by the repository, and not what the code does (README)           *)
(***************************************************************************)
\* While a purged episode is firing no webhook brings it back, whichever was
\* purged last (the comment on deletedEpisodes).
PurgedStaysGone ==
    [][\A e \in mourned : alertmanager[e[1]].start = e[2] /\ alertmanager[e[1]].status = "firing" =>
        Everywhere(e[1], e[2])' \subseteq Everywhere(e[1], e[2])]_vars

\* An episode belongs to one incident ("mint an identical twin",
\* resolveAlertRecordLocked).
NoTwins ==
    \A f \in Fingerprints, t \in Times :
        Cardinality({mem.alerts[a].incident : a \in Shown(mem, f, t)} \cap DOMAIN mem.incidents) <= 1

\* A firing episode that is sent again is no new information (docs/OPERATING-MODEL.md).
ResendIsSilent ==
    [][\A f \in Fingerprints : Upsert(f) => ~(Queued(f) /\ <<f, alertmanager[f].start>> \in asked)]_vars

\* The passes purge what is in the trash (docs/CONFIGURATION.md).
OnlyTrashIsPurged ==
    [][\A i \in gone' \ gone : orders' = orders => Trashed(i)]_vars
=============================================================================
