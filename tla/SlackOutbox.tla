----------------------------- MODULE SlackOutbox -----------------------------
(***************************************************************************)
(* The delivery of completed analyses to Slack                             *)
(* (backend/internal/server/slack.go, completeAnalysisRun and              *)
(* FailAnalysisRun of store.go, the end of requestAnalysisRun).            *)
(*                                                                         *)
(* A completed attempt leaves an immutable snapshot, the delivery, in the  *)
(* outbox its run row keeps in its metadata, in the write that completes   *)
(* the row.  Once applied it is handed to a goroutine; a retry worker picks *)
(* up whatever is still pending.  All deliveries and resolution notices    *)
(* are made under one mutex (SlackNotifier.mu), held across the HTTP call, *)
(* but the store's own lock is released between any two of their steps.    *)
(*                                                                         *)
(* Attempts are numbered in the order they are created; a delivery has the *)
(* number of its attempt.  A message's timestamp is its place in channel.  *)
(***************************************************************************)
EXTENDS Integers, Sequences, FiniteSets, Functions

CONSTANTS
    Rows,           \* the analysis_runs rows
    Incidents,      \* the incidents
    IncidentOf,     \* [Rows -> Incidents]
    Batch,          \* limit of PendingSlackAnalysisDeliveries (50)
    OutboxCap,      \* maxSlackOutboxEntries (32)
    StartSeqs,      \* bound: the slack_sequence incidents start with
    MaxAttempts,    \* bound: analysis attempts
    MaxResolutions, \* bound: times an incident resolves
    MaxDisruptions  \* bound: faults and moves of an incident to the trash, together

Attempts == 1..MaxAttempts
Analyzing == -1      \* the row's status, where shown names no attempt
NoThread == 0       \* SlackThreadTS = ""
Firing   == 0       \* no ResolvedAt

ASSUME ConstantsAssumption ==
    /\ IncidentOf \in [Rows -> Incidents]
    /\ {Batch, OutboxCap, MaxAttempts} \subseteq Nat \ {0}
    /\ {MaxResolutions, MaxDisruptions} \cup StartSeqs \subseteq Nat

VARIABLES
    attempt,   \* the analysis attempts, as far as Slack is concerned
    shown,     \* the attempt whose completed result a row holds, 0 (no attempt, failed) or Analyzing
    outbox,    \* metadata["slack_analysis_outbox"] of each row, a sequence of deliveries
    entry,     \* the entry of each delivery
    stamp,     \* the last QueuedAt handed out
    inc,       \* the incident rows
    spawned,   \* deliveries whose goroutine waits for the mutex
    batch,     \* what the retry worker has still to deliver of its list
    notices,   \* resolution goroutines waiting for the mutex: <<incident, resolution>>
    notified,  \* SlackNotifier.lastResolvedNotification
    poster,    \* the holder of SlackNotifier.mu and its locals
    channel,   \* the messages in the Slack channel
    removed,   \* the messages deleted in Slack
    trashings, \* moves of an incident to the trash and purges so far
    faults     \* rejected writes, crashes, lost notices and deleted threads so far

storeVars == <<attempt, shown, outbox, entry, stamp, inc, trashings>>
slackVars == <<channel, removed, notified>>
workVars  == <<spawned, batch, notices, poster>>
vars      == <<storeVars, slackVars, workVars, faults>>

(***************************************************************************)
(* Records                                                                 *)
(***************************************************************************)
NoAttempt == [pc |-> "none"]
\* reply: the attempt's source is one an operator triggers (slackReplySources).
\* refused: its completed result was not applied and the row failed.
Attempt == [pc : {"running", "completed", "applied", "refused", "ended"}, row : Rows, reply : BOOLEAN]

NoEntry == [status |-> "none"]
\* cooling: slackRetryDelay since the last attempt is not over.  thread is the
\* root the message was posted under, its own timestamp for a root.
Entry == [status : {"pending", "delivered", "skipped"}, at : Nat, cooling : BOOLEAN,
          seq : Nat, ts : Nat, thread : Nat]

Incident == [state : {"live", "trash", "gone"}, resolved : 0..MaxResolutions,
             resolutions : 0..MaxResolutions, thread : Nat, seq : Nat]

Idle == [pc |-> "idle"]
\* detail: the copy of the incident read by IncidentDetail; at: when the delivery
\* had been queued, as Begin found it.
Poster == [pc : {"decide", "post", "commit", "reset", "notice"}, delivery : 0..MaxAttempts,
           detail : Incident, ts : Nat, at : Nat, inc : Incidents]

\* delivery 0 is a resolution notice, label its resolution; otherwise label is
\* the ordinal the message shows ("2nd Analysis").
Message == [inc : Incidents, delivery : 0..MaxAttempts, thread : Nat, label : Nat, at : Nat]

TypeOK ==
    /\ attempt \in [Attempts -> Attempt \cup {NoAttempt}]
    /\ shown \in [Rows -> -1..MaxAttempts]
    /\ outbox \in [Rows -> Seq(Attempts)]
    /\ \A r \in Rows : IsInjective(outbox[r])
    /\ entry \in [Attempts -> Entry \cup {NoEntry}]
    /\ stamp \in Nat
    /\ inc \in [Incidents -> Incident]
    /\ spawned \subseteq Attempts
    /\ batch \in Seq(Attempts)
    /\ notices \subseteq Incidents \X (1..MaxResolutions)
    /\ notified \in [Incidents -> 0..MaxResolutions]
    /\ poster \in Poster \cup {Idle}
    /\ channel \in Seq(Message)
    /\ removed \subseteq DOMAIN channel
    /\ trashings \in 0..MaxDisruptions
    /\ faults \in 0..MaxDisruptions

RowOf(k) == attempt[k].row
IncOf(k) == IncidentOf[RowOf(k)]
InTree(i) == inc[i].state # "gone"

\* A legacy incident may have a sequence number and no thread.
Init ==
    /\ attempt = [k \in Attempts |-> NoAttempt]
    /\ shown = [r \in Rows |-> 0]
    /\ outbox = [r \in Rows |-> <<>>]
    /\ entry = [k \in Attempts |-> NoEntry]
    /\ stamp = 0
    /\ \E legacy \in StartSeqs :
           inc = [i \in Incidents |-> [state |-> "live", resolved |-> Firing, resolutions |-> 0,
                                       thread |-> NoThread, seq |-> legacy]]
    /\ spawned = {} /\ batch = <<>> /\ notices = {} /\ poster = Idle
    /\ notified = [i \in Incidents |-> 0]
    /\ channel = <<>> /\ removed = {}
    /\ trashings = 0 /\ faults = 0

Disruptable == faults + trashings < MaxDisruptions

Fault == Disruptable /\ faults' = faults + 1

(***************************************************************************)
(* The outbox of a row                                                     *)
(***************************************************************************)
Queued(k)  == attempt[k] # NoAttempt /\ k \in Range(outbox[RowOf(k)])
Pending(k) == Queued(k) /\ entry[k].status = "pending"
PendingSet == {k \in Attempts : Pending(k)}

\* The elements of a list that are in S, in their order.
Selected(list, S) ==
    LET places  == {i \in DOMAIN list : list[i] \in S}
        rank(i) == Cardinality({j \in places : j <= i})
    IN  [n \in 1..Cardinality(places) |-> list[CHOOSE i \in places : rank(i) = n]]

\* metadataWithSlackOutbox: beyond the cap the oldest settled entries go, and
\* the pending ones are kept, after the settled ones.
Trimmed(list, ents) ==
    LET open == Selected(list, {k \in Attempts : ents[k].status = "pending"})
        done == Selected(list, {k \in Attempts : ents[k].status # "pending"})
        room == OutboxCap - Len(open)
        kept == IF room > 0 /\ Len(done) > room
                THEN SubSeq(done, Len(done) - room + 1, Len(done))
                ELSE done
    IN  IF Len(list) > OutboxCap THEN kept \o open ELSE list

WriteOutbox(r, list, ents) ==
    /\ outbox' = [outbox EXCEPT ![r] = Trimmed(list, ents)]
    /\ entry' = ents

UpdateEntry(k, e) == WriteOutbox(RowOf(k), outbox[RowOf(k)], [entry EXCEPT ![k] = e])

NewEntry(at) == [status |-> "pending", at |-> at, cooling |-> FALSE, seq |-> 0, ts |-> 0,
                 thread |-> NoThread]

\* queueSlackAnalysisDeliverySnapshotLocked
Enqueue(k) ==
    /\ WriteOutbox(RowOf(k), Append(outbox[RowOf(k)], k), [entry EXCEPT ![k] = NewEntry(stamp + 1)])
    /\ stamp' = stamp + 1

(***************************************************************************)
(* Attempts: what requestAnalysisRun does to a row and its outbox          *)
(***************************************************************************)
\* A new attempt takes a row over, with the outbox it has.  The row is not
\* analyzing, but the goroutine of an attempt the reaper has failed may live on.
Start(k, r, reply) ==
    /\ attempt[k] = NoAttempt
    /\ \A j \in 1..(k - 1) : attempt[j] # NoAttempt
    /\ inc[IncidentOf[r]].state = "live"
    /\ shown[r] # Analyzing
    /\ attempt' = [attempt EXCEPT ![k] = [pc |-> "running", row |-> r, reply |-> reply]]
    /\ shown' = [shown EXCEPT ![r] = Analyzing]
    /\ outbox' = [outbox EXCEPT ![r] = Trimmed(@, entry)]
    /\ UNCHANGED <<entry, stamp, inc, trashings, slackVars, workVars, faults>>

\* ReapStaleAnalyzingRuns
Reap(r) ==
    /\ shown[r] = Analyzing
    /\ shown' = [shown EXCEPT ![r] = 0]
    /\ UNCHANGED <<attempt, outbox, entry, stamp, inc, trashings, slackVars, workVars, faults>>

Goto(k, pc) == attempt' = [attempt EXCEPT ![k].pc = pc]

\* CompleteAnalysisRunWithSlackDelivery
Complete(k) ==
    /\ attempt[k].pc = "running"
    /\ \/ /\ InTree(IncOf(k))
          /\ Goto(k, "completed")
          /\ shown' = [shown EXCEPT ![RowOf(k)] = k]
          /\ Enqueue(k)
          /\ UNCHANGED faults
       \/ /\ ~InTree(IncOf(k))
          /\ Goto(k, "ended")
          /\ UNCHANGED <<shown, outbox, entry, stamp, faults>>
       \/ /\ InTree(IncOf(k))
          /\ Goto(k, "ended") /\ Fault
          /\ UNCHANGED <<shown, outbox, entry, stamp>>
    /\ UNCHANGED <<inc, trashings, slackVars, workVars>>

\* FailAnalysisRun: a row that is complete, by now, has the delivery of the
\* result it shows skipped.
MarkFailed(r) ==
    LET k == shown[r]
    IN  /\ shown' = [shown EXCEPT ![r] = 0]
        /\ IF k \in Attempts /\ Pending(k)
           THEN UpdateEntry(k, [entry[k] EXCEPT !.status = "skipped"])
           ELSE UNCHANGED <<outbox, entry>>

\* The agent call fails, or the completed result is refused (superseded, or the
\* alert could not be persisted): either way the row fails.
Fail(k) ==
    /\ attempt[k].pc \in {"running", "completed"}
    /\ Goto(k, IF attempt[k].pc = "completed" THEN "refused" ELSE "ended")
    /\ \/ InTree(IncOf(k)) /\ MarkFailed(RowOf(k)) /\ UNCHANGED faults
       \/ ~InTree(IncOf(k)) /\ UNCHANGED <<shown, outbox, entry, faults>>
       \/ InTree(IncOf(k)) /\ Fault /\ UNCHANGED <<shown, outbox, entry>>
    /\ UNCHANGED <<stamp, inc, trashings, slackVars, workVars>>

\* The applied result: notifySlackAnalysis finds the entry, or queues it again
\* if the cap evicted it, and spawns the goroutine while it is pending.
Notify(k) ==
    /\ attempt[k].pc = "completed"
    /\ Goto(k, "applied")
    /\ \/ /\ Pending(k)
          /\ spawned' = spawned \cup {k}
          /\ UNCHANGED <<outbox, entry, stamp, faults>>
       \/ /\ (Queued(k) /\ ~Pending(k)) \/ ~InTree(IncOf(k))
          /\ UNCHANGED <<outbox, entry, stamp, spawned, faults>>
       \/ /\ InTree(IncOf(k)) /\ ~Queued(k)
          /\ Enqueue(k)
          /\ spawned' = spawned \cup {k}
          /\ UNCHANGED faults
       \/ /\ InTree(IncOf(k)) /\ ~Queued(k) /\ Fault
          /\ UNCHANGED <<outbox, entry, stamp, spawned>>
    /\ UNCHANGED <<shown, inc, trashings, slackVars, batch, notices, poster>>

(***************************************************************************)
(* Incidents                                                               *)
(***************************************************************************)
\* A webhook resolves the incident; the handler spawns the notice.
Resolve(i) ==
    /\ InTree(i)
    /\ inc[i].resolved = Firing /\ inc[i].resolutions < MaxResolutions
    /\ inc' = [inc EXCEPT ![i].resolved = inc[i].resolutions + 1, ![i].resolutions = @ + 1]
    /\ notices' = notices \cup {<<i, inc'[i].resolved>>}
    /\ UNCHANGED <<attempt, shown, outbox, entry, stamp, trashings, slackVars, spawned, batch,
                   poster, faults>>

Refire(i) ==
    /\ inc[i].state = "live" /\ inc[i].resolved # Firing
    /\ inc' = [inc EXCEPT ![i].resolved = Firing]
    /\ UNCHANGED <<attempt, shown, outbox, entry, stamp, trashings, slackVars, workVars, faults>>

\* SoftDeleteIncident, RestoreIncident, HardDeleteIncident (with its runs).
Trash(i) ==
    /\ inc[i].state = "live" /\ Disruptable
    /\ inc' = [inc EXCEPT ![i].state = "trash"]
    /\ trashings' = trashings + 1
    /\ UNCHANGED <<attempt, shown, outbox, entry, stamp, slackVars, workVars, faults>>

Restore(i) ==
    /\ inc[i].state = "trash"
    /\ inc' = [inc EXCEPT ![i].state = "live"]
    /\ UNCHANGED <<attempt, shown, outbox, entry, stamp, trashings, slackVars, workVars, faults>>

Purge(i) ==
    /\ InTree(i) /\ Disruptable
    /\ inc' = [inc EXCEPT ![i].state = "gone"]
    /\ shown' = [r \in Rows |-> IF IncidentOf[r] = i THEN 0 ELSE shown[r]]
    /\ outbox' = [r \in Rows |-> IF IncidentOf[r] = i THEN <<>> ELSE outbox[r]]
    /\ trashings' = trashings + 1
    /\ UNCHANGED <<attempt, entry, stamp, slackVars, workVars, faults>>

(***************************************************************************)
(* The retry worker                                                        *)
(***************************************************************************)
\* slackRetryDelay has passed since the last attempt.
CoolOver(k) ==
    /\ Pending(k) /\ entry[k].cooling
    /\ entry' = [entry EXCEPT ![k].cooling = FALSE]
    /\ UNCHANGED <<attempt, shown, outbox, stamp, inc, trashings, slackVars, workVars, faults>>

\* PendingSlackAnalysisDeliveries: at most Batch, oldest QueuedAt first.
Due == {k \in PendingSet : ~entry[k].cooling}

RetryScan ==
    /\ batch = <<>> /\ Due # {}
    /\ \E n \in {IF Cardinality(Due) < Batch THEN Cardinality(Due) ELSE Batch} :
           batch' \in {list \in [1..n -> Due] :
                          /\ \A x, y \in 1..n : x < y => entry[list[x]].at < entry[list[y]].at
                          /\ \A k \in Due \ Range(list), x \in 1..n : entry[list[x]].at < entry[k].at}
    /\ UNCHANGED <<storeVars, slackVars, spawned, notices, poster, faults>>

(***************************************************************************)
(* deliverSlackAnalysisDelivery, under SlackNotifier.mu                    *)
(***************************************************************************)
\* Take the mutex and read the incident.
Lock(k) ==
    /\ poster = Idle
    /\ \/ k \in spawned /\ spawned' = spawned \ {k} /\ UNCHANGED batch
       \/ batch # <<>> /\ k = Head(batch) /\ batch' = Tail(batch) /\ UNCHANGED spawned
    /\ poster' = [pc |-> "decide", delivery |-> k, detail |-> inc[IncOf(k)], ts |-> 0, at |-> 0,
                  inc |-> IncOf(k)]
    /\ UNCHANGED <<storeVars, slackVars, notices, faults>>

Release == poster' = Idle

\* SlackAnalysisDeliveryPredatesThread: the attempt is older than the root's.
PredatesThread(k, thread) ==
    \E o \in Attempts : /\ Queued(o) /\ IncOf(o) = IncOf(k) /\ entry[o].status = "delivered"
                        /\ entry[o].seq = 1 /\ entry[o].ts = thread
                        /\ k <= o

\* Mutant: an automatic follow-up is posted like any other result.
NotDeliverableIfDead(k) == poster.detail.state # "live"

NotDeliverable(k) ==
    \/ poster.detail.state # "live"
    \/ /\ poster.detail.thread # NoThread /\ ~attempt[k].reply
       /\ ~PredatesThread(k, poster.detail.thread)

\* Mutant: the delivery of a deleted incident is left pending, untried.
SkipUnrecorded ==
    /\ poster.pc = "decide" /\ NotDeliverable(poster.delivery)
    /\ Release
    /\ UNCHANGED <<storeVars, slackVars, spawned, batch, notices, faults>>

\* SkipSlackAnalysisDelivery; a rejected write leaves the entry pending.
Skip ==
    LET k == poster.delivery
    IN  /\ poster.pc = "decide" /\ NotDeliverable(k)
        /\ \/ /\ Pending(k)
              /\ UpdateEntry(k, [entry[k] EXCEPT !.status = "skipped"])
              /\ UNCHANGED faults
           \/ ~Pending(k) /\ UNCHANGED <<outbox, entry, faults>>
           \/ Pending(k) /\ Fault /\ UNCHANGED <<outbox, entry>>
        /\ Release
        /\ UNCHANGED <<attempt, shown, stamp, inc, trashings, slackVars, spawned, batch, notices>>

\* Mutant: Begin trusts the list the worker read earlier.
IsHeadUnchecked(k) == Queued(k)

\* Mutant: nothing keeps the deliveries of an incident in order.
IsHeadOfNothing(k) == Pending(k)

\* BeginSlackAnalysisDelivery: still pending, and no older one is.
IsHead(k) ==
    /\ Pending(k)
    /\ \A o \in PendingSet \ {k} : IncOf(o) = IncOf(k) => entry[k].at < entry[o].at

Begin ==
    LET k == poster.delivery
    IN  /\ poster.pc = "decide" /\ ~NotDeliverable(k)
        /\ \/ /\ IsHead(k)
              /\ UpdateEntry(k, [entry[k] EXCEPT !.cooling = TRUE])
              /\ poster' = [poster EXCEPT !.pc = "post", !.at = entry[k].at]
              /\ UNCHANGED faults
           \/ ~IsHead(k) /\ Release /\ UNCHANGED <<outbox, entry, faults>>
           \/ IsHead(k) /\ Release /\ Fault /\ UNCHANGED <<outbox, entry>>
        /\ UNCHANGED <<attempt, shown, stamp, inc, trashings, slackVars, spawned, batch, notices>>

\* Mutant: a replacement root keeps counting from the legacy sequence.
NextLabelUnreset(detail) == detail.seq + 1

\* The ordinal in the message text.
NextLabel(detail) == IF detail.thread = NoThread THEN 1 ELSE detail.seq + 1

\* Slack: a message of a live thread or a new root; client_msg_id makes it
\* return the message it already has for the delivery.
Alive(m)  == m \notin removed /\ (channel[m].thread = NoThread \/ channel[m].thread \notin removed)
SameId(k) == {m \in DOMAIN channel : channel[m].delivery = k /\ Alive(m)}

Accept(msg, duplicates, ts) ==
    IF duplicates = {}
    THEN channel' = Append(channel, msg) /\ ts = Len(channel) + 1
    ELSE UNCHANGED channel /\ ts \in duplicates

AnalysisMessage(k) ==
    [inc |-> poster.inc, delivery |-> k, thread |-> poster.detail.thread,
     label |-> NextLabel(poster.detail), at |-> poster.at]

\* The HTTP call: accepted; accepted with the answer lost, or refused; refused
\* because the thread is gone.  FailSlackAnalysisDelivery only notes the error.
PostAccepted ==
    LET k == poster.delivery
    IN  /\ poster.pc = "post"
        /\ poster.detail.thread \notin removed
        /\ \E ts \in 1..(Len(channel) + 1) :
               /\ Accept(AnalysisMessage(k), SameId(k), ts)
               /\ poster' = [poster EXCEPT !.pc = "commit", !.ts = ts]
        /\ UNCHANGED <<storeVars, removed, notified, spawned, batch, notices, faults>>

PostFails ==
    LET k == poster.delivery
    IN  /\ poster.pc = "post"
        /\ \/ UNCHANGED channel
           \/ /\ poster.detail.thread \notin removed
              /\ \E ts \in 1..(Len(channel) + 1) : Accept(AnalysisMessage(k), SameId(k), ts)
        /\ Release
        /\ UNCHANGED <<storeVars, removed, notified, spawned, batch, notices, faults>>

PostFindsNoThread ==
    /\ poster.pc = "post"
    /\ poster.detail.thread \in removed
    /\ poster' = [poster EXCEPT !.pc = "reset"]
    /\ UNCHANGED <<storeVars, slackVars, spawned, batch, notices, faults>>

\* Mutant: a lost thread is only logged.
ResetForgotten ==
    /\ poster.pc = "reset"
    /\ Release
    /\ UNCHANGED <<storeVars, slackVars, spawned, batch, notices, faults>>

\* ResetIncidentSlackThread
Reset ==
    LET i == poster.inc
    IN  /\ poster.pc = "reset"
        /\ \/ /\ inc[i].state = "live" /\ inc[i].thread = poster.detail.thread
              /\ inc' = [inc EXCEPT ![i].thread = NoThread, ![i].seq = 0]
              /\ UNCHANGED faults
           \/ /\ inc[i].state # "live" \/ inc[i].thread # poster.detail.thread
              /\ UNCHANGED <<inc, faults>>
           \/ inc[i].state = "live" /\ Fault /\ UNCHANGED inc
        /\ Release
        /\ UNCHANGED <<attempt, shown, outbox, entry, stamp, trashings, slackVars, spawned, batch, notices>>

\* Mutant: the root's notice is left to the goroutine of the resolution.
CatchUpNever(detail) == FALSE

\* The root was posted for an incident that had resolved when it was read.
CatchUp(detail) == detail.thread = NoThread /\ detail.resolved # Firing

\* CompleteSlackAnalysisDelivery: the entry and the incident in one transaction.
Acknowledge(k, i) ==
    LET root == poster.detail.thread = NoThread /\ inc[i].thread = NoThread
        seq  == IF root THEN 1 ELSE inc[i].seq + 1
    IN  /\ inc' = [inc EXCEPT ![i].seq = seq, ![i].thread = IF root THEN poster.ts ELSE @]
        /\ UpdateEntry(k, [entry[k] EXCEPT !.status = "delivered", !.ts = poster.ts, !.seq = seq,
                                           !.thread = inc'[i].thread])

Commit ==
    LET k == poster.delivery
        i == poster.inc
        ok == Queued(k) /\ inc[i].state = "live"
        next == IF CatchUp(poster.detail)
                THEN poster' = [poster EXCEPT !.pc = "notice", !.detail.thread = poster.ts]
                ELSE Release
    IN  /\ poster.pc = "commit"
        /\ \/ /\ ok /\ entry[k].status # "delivered"
              /\ Acknowledge(k, i)
              /\ next
              /\ UNCHANGED faults
           \/ ok /\ entry[k].status = "delivered" /\ next /\ UNCHANGED <<inc, outbox, entry, faults>>
           \/ ~ok /\ Release /\ UNCHANGED <<inc, outbox, entry, faults>>
           \/ ok /\ Release /\ Fault /\ UNCHANGED <<inc, outbox, entry>>
        /\ UNCHANGED <<attempt, shown, stamp, trashings, slackVars, spawned, batch, notices>>

(***************************************************************************)
(* Resolution notices                                                      *)
(***************************************************************************)
\* deliverSlackResolution takes the mutex and reads the incident.
LockNotice(i) ==
    /\ poster = Idle
    /\ \E n \in 1..MaxResolutions :
           <<i, n>> \in notices /\ notices' = notices \ {<<i, n>>}
    /\ IF InTree(i)
       THEN poster' = [pc |-> "notice", delivery |-> 0, detail |-> inc[i], ts |-> 0, at |-> 0,
                       inc |-> i]
       ELSE UNCHANGED poster
    /\ UNCHANGED <<storeVars, slackVars, spawned, batch, faults>>

\* Mutant: the notice is posted every time.
NoticeWanted(i) == poster.detail.resolved # Firing /\ poster.detail.thread # NoThread

NoticeDue(i) ==
    /\ poster.detail.resolved # Firing /\ poster.detail.thread # NoThread
    /\ notified[i] # poster.detail.resolved

\* deliverSlackResolutionLocked; a notice that fails is not tried again.
PostNotice ==
    LET i == poster.inc
        msg == [inc |-> i, delivery |-> 0, thread |-> poster.detail.thread,
                label |-> poster.detail.resolved, at |-> 0]
    IN  /\ poster.pc = "notice"
        /\ \/ ~NoticeDue(i) /\ UNCHANGED <<channel, notified, faults>>
           \/ /\ NoticeDue(i) /\ poster.detail.thread \notin removed
              /\ channel' = Append(channel, msg)
              /\ notified' = [notified EXCEPT ![i] = poster.detail.resolved]
              /\ UNCHANGED faults
           \/ NoticeDue(i) /\ Fault /\ UNCHANGED <<channel, notified>>
           \/ NoticeDue(i) /\ poster.detail.thread \in removed /\ UNCHANGED <<channel, notified, faults>>
        /\ Release
        /\ UNCHANGED <<storeVars, removed, spawned, batch, notices>>

(***************************************************************************)
(* Slack and the process                                                   *)
(***************************************************************************)
\* Someone deletes an incident's root message in Slack.
ThreadRemoved(m) ==
    /\ m \in DOMAIN channel \ removed
    /\ channel[m].thread = NoThread
    /\ Fault
    /\ removed' = removed \cup {m}
    /\ UNCHANGED <<storeVars, channel, notified, workVars>>

\* The process dies: goroutines, the worker's list, the mutex and the notices'
\* memory go; rows, entries and threads are in Postgres.
Crash ==
    /\ Fault
    /\ attempt' = [k \in Attempts |->
                      IF attempt[k].pc \in {"running", "completed"}
                      THEN [attempt[k] EXCEPT !.pc = "ended"] ELSE attempt[k]]
    /\ spawned' = {} /\ batch' = <<>> /\ notices' = {} /\ poster' = Idle
    /\ notified' = [i \in Incidents |-> 0]
    /\ UNCHANGED <<shown, outbox, entry, stamp, inc, trashings, channel, removed>>

Deliver == Skip \/ Begin \/ PostAccepted \/ PostFails \/ PostFindsNoThread \/ Reset \/ Commit \/ PostNotice

Next ==
    \/ \E k \in Attempts, r \in Rows, reply \in BOOLEAN : Start(k, r, reply)
    \/ \E k \in Attempts : Complete(k) \/ Fail(k) \/ Notify(k) \/ CoolOver(k) \/ Lock(k)
    \/ \E i \in Incidents :
           Resolve(i) \/ Refire(i) \/ Trash(i) \/ Restore(i) \/ Purge(i) \/ LockNotice(i)
    \/ \E r \in Rows : Reap(r)
    \/ RetryScan
    \/ Deliver
    \/ \E m \in DOMAIN channel : ThreadRemoved(m)
    \/ Crash

Spec == Init /\ [][Next]_vars

\* Whoever holds the mutex goes on and a delivery that waits for it gets it; the
\* retry ticker and the delays run out.  Slack's outages end: a delivery that is
\* tried again and again is answered in the end.  Nothing is assumed of the
\* attempts, the resolutions and the operators.
Fairness ==
    /\ WF_vars(Deliver) /\ SF_vars(PostAccepted \/ PostFindsNoThread)
    /\ WF_vars(RetryScan)
    /\ \A k \in Attempts : WF_vars(CoolOver(k)) /\ SF_vars(Lock(k))

FairSpec == Spec /\ Fairness

(***************************************************************************)
(* Properties                                                              *)
(***************************************************************************)
Analyses(i) == {m \in DOMAIN channel : channel[m].inc = i /\ channel[m].delivery # 0}

\* The messages of an incident appear in the order their results were queued,
\* whatever is retried, lost or picked up by the worker first.
PostedInOrder ==
    \A i \in Incidents : \A m, n \in Analyses(i) : m < n => channel[m].at <= channel[n].at

\* What the channel shows is what the store recorded: the ordinals of a thread
\* are those of its acknowledged deliveries, all different, 1 for the root.
NumberedInThread ==
    \A k \in Attempts :
        entry[k].status = "delivered" =>
            /\ channel[entry[k].ts].delivery = k
            /\ channel[entry[k].ts].label = entry[k].seq
            /\ (entry[k].seq = 1) <=> (entry[k].thread = entry[k].ts)
            /\ \A o \in Attempts \ {k} :
                   entry[o].status = "delivered" /\ entry[o].thread = entry[k].thread
                       => entry[o].seq # entry[k].seq

\* An automatic result never follows the root analysis into its thread, unless
\* it is older than the root: a delayed first completion is not lost.
AutoFollowUpsSilent ==
    \A m \in DOMAIN channel :
        LET k == channel[m].delivery
        IN  k # 0 /\ channel[m].thread # NoThread /\ ~attempt[k].reply
                => k <= channel[channel[m].thread].delivery

\* A delivery Slack has acknowledged is not posted a second time, although the
\* worker's list and the attempt's goroutine may both hold it.
DeliveredNotReposted ==
    poster.pc = "post" => entry[poster.delivery].status # "delivered"

\* One resolution gives one notice, from the webhook's goroutine or from the
\* root that came later (only a crash forgets it).
NoticedOnce ==
    faults = 0 =>
        \A m, n \in DOMAIN channel :
            channel[m].delivery = 0 /\ channel[n].delivery = 0 /\ channel[m].inc = channel[n].inc
                /\ channel[m].label = channel[n].label => m = n

\* A resolved incident with a thread has its notice once nothing is under way,
\* whichever of the resolution and the root came first.
ResolutionNoticed ==
    faults = 0 /\ poster = Idle =>
        \A i \in Incidents :
            /\ inc[i].resolved # Firing /\ inc[i].thread # NoThread /\ InTree(i)
            /\ \A n \in 1..MaxResolutions : <<i, n>> \notin notices
            => notified[i] = inc[i].resolved

\* A completed result is delivered or skipped in the end, across outages, lost
\* threads, crashes and the trash.
DeliveriesSettle == \A k \in Attempts : Pending(k) ~> ~Pending(k)

(***************************************************************************)
(* What the documentation says and the code does not do                    *)
(***************************************************************************)
\* ARCHITECTURE, delivery rules: failed runs never reach Slack.
FailedNeverPosted ==
    \A m \in DOMAIN channel : channel[m].delivery # 0 => attempt[channel[m].delivery].pc # "refused"
=============================================================================
