------------------------- MODULE SlackOutbox_proofs -------------------------
(***************************************************************************)
(* What holds of deliveries and notices for any rows, incidents, attempts, *)
(* outages, deleted threads and crashes.                                   *)
(***************************************************************************)
EXTENDS SlackOutbox, FiniteSetTheorems, SequenceTheorems, TLAPS

-----------------------------------------------------------------------------
(* Types *)

Made == {k \in Attempts : attempt[k] # NoAttempt}

\* Whoever waits for the mutex, or holds it, works for an attempt that exists.
TInv ==
    /\ attempt \in [Attempts -> Attempt \cup {NoAttempt}]
    /\ entry \in [Attempts -> Entry \cup {NoEntry}]
    /\ stamp \in Nat
    /\ inc \in [Incidents -> Incident]
    /\ spawned \subseteq Made
    /\ batch \in Seq(Made)
    /\ notified \in [Incidents -> 0..MaxResolutions]
    /\ poster \in Poster \cup {Idle}
    /\ channel \in Seq(Message)
    /\ faults \in Nat
    /\ poster.pc \in {"decide", "post", "commit", "reset"} => poster.delivery \in Made
    /\ poster.pc \in {"post", "commit"} => entry[poster.delivery] # NoEntry

LEMMA AttemptPlace ==
    ASSUME NEW k \in Attempts, attempt[k] \in Attempt
    PROVE  attempt[k] # NoAttempt /\ RowOf(k) \in Rows /\ IncOf(k) \in Incidents
BY ConstantsAssumption DEF Attempt, NoAttempt, RowOf, IncOf

LEMMA EntryKnown ==
    ASSUME TInv, NEW k \in Attempts, entry[k].status # "none"
    PROVE  entry[k] \in Entry
BY DEF TInv, NoEntry

LEMMA PosterFields ==
    ASSUME TInv, poster.pc # "idle"
    PROVE  /\ poster \in Poster /\ poster.detail \in Incident /\ poster.inc \in Incidents
           /\ poster.delivery \in 0..MaxAttempts /\ poster.ts \in Nat /\ poster.at \in Nat
           /\ poster.pc \in {"decide", "post", "commit", "reset", "notice"}
BY DEF TInv, Poster, Idle

\* What an attempt is for does not change once it exists.
AttemptStep ==
    /\ attempt' \in [Attempts -> Attempt \cup {NoAttempt}]
    /\ \A k \in Made : k \in Made' /\ attempt'[k].reply = attempt[k].reply /\ attempt'[k].row = attempt[k].row

LEMMA GotoStep ==
    ASSUME TInv, NEW k \in Attempts, attempt[k].pc # "none",
           NEW pc \in {"running", "completed", "applied", "refused", "ended"}, Goto(k, pc)
    PROVE  AttemptStep
<1>1. attempt[k] \in Attempt
  BY DEF TInv, NoAttempt
<1>2. [attempt[k] EXCEPT !.pc = pc] \in Attempt
  BY <1>1 DEF Attempt
<1>3. attempt' = [attempt EXCEPT ![k] = [attempt[k] EXCEPT !.pc = pc]]
  BY DEF Goto
<1>4. \A j \in Attempts : j # k => attempt'[j] = attempt[j]
  BY <1>3 DEF TInv
<1>5. attempt'[k] = [attempt[k] EXCEPT !.pc = pc]
  BY <1>3 DEF TInv
<1>6. /\ attempt'[k] # NoAttempt /\ attempt'[k].reply = attempt[k].reply /\ attempt'[k].row = attempt[k].row
      /\ attempt[k] # NoAttempt
  BY <1>1, <1>2, <1>5 DEF Attempt, NoAttempt
<1>7. attempt' \in [Attempts -> Attempt \cup {NoAttempt}]
  BY <1>2, <1>3 DEF TInv
<1>8. QED
  BY <1>4, <1>6, <1>7 DEF AttemptStep, Made

LEMMA AttemptsStep ==
    ASSUME TInv, [Next]_vars
    PROVE  AttemptStep
<1>1. CASE UNCHANGED attempt
  BY <1>1 DEF AttemptStep, TInv, Made
<1>2. ASSUME NEW k \in Attempts, NEW r \in Rows, NEW reply \in BOOLEAN, Start(k, r, reply)
      PROVE  AttemptStep
  <2>1. attempt[k] = NoAttempt /\ attempt' = [attempt EXCEPT ![k] = [pc |-> "running", row |-> r, reply |-> reply]]
    BY <1>2 DEF Start
  <2>2. [pc |-> "running", row |-> r, reply |-> reply] \in Attempt
    BY DEF Attempt
  <2>3. QED
    BY <2>1, <2>2 DEF AttemptStep, TInv, Made
<1>3. ASSUME NEW k \in Attempts, Complete(k) \/ Fail(k) \/ Notify(k) PROVE AttemptStep
  <2>1. attempt[k].pc # "none"
    BY <1>3 DEF Complete, Fail, Notify
  <2>2. \E pc \in {"running", "completed", "applied", "refused", "ended"} : Goto(k, pc)
    BY <1>3 DEF Complete, Fail, Notify
  <2>3. QED
    BY <2>1, <2>2, GotoStep
<1>4. CASE Crash
  <2> DEFINE New(k) == IF attempt[k].pc \in {"running", "completed"}
                       THEN [attempt[k] EXCEPT !.pc = "ended"] ELSE attempt[k]
  <2>1. attempt' = [k \in Attempts |-> New(k)]
    BY <1>4 DEF Crash
  <2>2. ASSUME NEW k \in Attempts
        PROVE  /\ New(k) \in Attempt \cup {NoAttempt}
               /\ attempt[k] # NoAttempt => /\ New(k) # NoAttempt /\ New(k).reply = attempt[k].reply
                                            /\ New(k).row = attempt[k].row
    <3>1. CASE attempt[k].pc \in {"running", "completed"}
      <4>1. attempt[k] \in Attempt
        BY <3>1 DEF TInv, NoAttempt
      <4>2. New(k) = [attempt[k] EXCEPT !.pc = "ended"]
        BY <3>1
      <4>3. QED
        BY <4>1, <4>2 DEF Attempt, NoAttempt
    <3>2. CASE attempt[k].pc \notin {"running", "completed"}
      BY <3>2 DEF TInv
    <3>3. QED
      BY <3>1, <3>2
  <2> HIDE DEF New
  <2>3. QED
    BY <2>1, <2>2 DEF AttemptStep, Made
<1>5. ASSUME NEW k \in Attempts, CoolOver(k) \/ Lock(k) PROVE UNCHANGED attempt
  BY <1>5 DEF CoolOver, Lock, storeVars
<1>6. ASSUME NEW i \in Incidents,
             Resolve(i) \/ Refire(i) \/ Trash(i) \/ Restore(i) \/ Purge(i) \/ LockNotice(i)
      PROVE  UNCHANGED attempt
  BY <1>6 DEF Resolve, Refire, Trash, Restore, Purge, LockNotice, storeVars
<1>7. ASSUME (\E r \in Rows : Reap(r)) \/ RetryScan \/ \E m \in DOMAIN channel : ThreadRemoved(m)
      PROVE  UNCHANGED attempt
  BY <1>7 DEF Reap, RetryScan, ThreadRemoved, storeVars
<1>8. ASSUME Deliver PROVE UNCHANGED attempt
  BY <1>8 DEF Deliver, Skip, Begin, PostAccepted, PostFails, PostFindsNoThread, Reset, Commit, PostNotice, storeVars
<1>9. QED
  BY <1>1, <1>2, <1>3, <1>4, <1>5, <1>6, <1>7, <1>8 DEF Next, vars, storeVars

(* Entries *)

\* An entry that is delivered was before, or is acknowledged by the holder of
\* the mutex.
EntryStep ==
    /\ entry' \in [Attempts -> Entry \cup {NoEntry}]
    /\ \A k \in Attempts :
          /\ entry[k] # NoEntry => entry'[k] # NoEntry
          /\ entry'[k].status = "delivered" =>
                \/ entry[k].status = "delivered" /\ entry'[k].ts = entry[k].ts
                \/ poster.pc = "commit" /\ poster.delivery = k /\ entry'[k].ts = poster.ts

LEMMA OneEntry ==
    ASSUME TInv, NEW k \in Attempts, NEW e \in Entry, entry' = [entry EXCEPT ![k] = e],
           e.status = "delivered" =>
                \/ entry[k].status = "delivered" /\ e.ts = entry[k].ts
                \/ poster.pc = "commit" /\ poster.delivery = k /\ e.ts = poster.ts
    PROVE  EntryStep
<1>1. e # NoEntry
  BY DEF Entry, NoEntry
<1>2. entry'[k] = e /\ \A j \in Attempts : j # k => entry'[j] = entry[j]
  BY DEF TInv
<1>3. entry' \in [Attempts -> Entry \cup {NoEntry}]
  BY DEF TInv
<1>4. QED
  BY <1>1, <1>2, <1>3 DEF EntryStep

LEMMA NewEntryStep ==
    ASSUME TInv, NEW k \in Attempts, Enqueue(k)
    PROVE  EntryStep /\ stamp' \in Nat
<1>1. stamp + 1 \in Nat /\ stamp' = stamp + 1
  BY DEF TInv, Enqueue
<1>2. NewEntry(stamp + 1) \in Entry /\ NewEntry(stamp + 1).status = "pending"
  BY <1>1 DEF NewEntry, Entry, NoThread
<1>3. entry' = [entry EXCEPT ![k] = NewEntry(stamp + 1)]
  BY DEF Enqueue, WriteOutbox
<1>4. QED
  BY <1>1, <1>2, <1>3, OneEntry

LEMMA SettledEntryStep ==
    ASSUME TInv, NEW k \in Attempts, entry[k].status = "pending",
           NEW st \in {"pending", "skipped"}, NEW cool \in BOOLEAN, NEW e,
           e \in {[entry[k] EXCEPT !.status = st], [entry[k] EXCEPT !.cooling = cool]},
           entry' = [entry EXCEPT ![k] = e]
    PROVE  EntryStep
<1>1. entry[k] \in Entry
  BY EntryKnown
<1>2. e \in Entry /\ e.status # "delivered"
  BY <1>1 DEF Entry
<1>3. QED
  BY <1>2, OneEntry

LEMMA AcknowledgeStep ==
    ASSUME TInv, poster.pc = "commit", NEW k, k = poster.delivery, NEW i, i = poster.inc,
           Queued(k), entry[k] # NoEntry, Acknowledge(k, i)
    PROVE  EntryStep /\ inc' \in [Incidents -> Incident]
<1> DEFINE root == poster.detail.thread = NoThread /\ inc[i].thread = NoThread
           seq == IF root THEN 1 ELSE inc[i].seq + 1
           th == IF root THEN poster.ts ELSE inc[i].thread
           new == [inc[i] EXCEPT !.seq = seq, !.thread = th]
           e == [entry[k] EXCEPT !.status = "delivered", !.ts = poster.ts, !.seq = seq, !.thread = inc'[i].thread]
<1>1. k \in Attempts /\ i \in Incidents /\ poster.ts \in Nat
  BY PosterFields DEF TInv, Made
<1>2. inc[i] \in Incident /\ entry[k] \in Entry
  BY <1>1 DEF TInv
<1>3. seq \in Nat /\ th \in Nat
  BY <1>1, <1>2 DEF Incident
<1>4. inc' = [inc EXCEPT ![i] = new]
  BY DEF Acknowledge
<1>5. new \in Incident /\ new.thread = th
  BY <1>2, <1>3 DEF Incident
<1>6. inc' \in [Incidents -> Incident] /\ inc'[i].thread = th
  BY <1>1, <1>4, <1>5 DEF TInv
<1>7. entry' = [entry EXCEPT ![k] = e]
  BY DEF Acknowledge, UpdateEntry, WriteOutbox
<1>8. e \in Entry /\ e.ts = poster.ts
  BY <1>1, <1>2, <1>3, <1>6 DEF Entry
<1> HIDE DEF e
<1>9. QED
  BY <1>1, <1>6, <1>7, <1>8, OneEntry

LEMMA SkipStep ==
    ASSUME TInv, NEW k \in Attempts, Pending(k), UpdateEntry(k, [entry[k] EXCEPT !.status = "skipped"])
    PROVE  EntryStep
BY SettledEntryStep DEF UpdateEntry, WriteOutbox, Pending

LEMMA EntriesStep ==
    ASSUME TInv, [Next]_vars
    PROVE  EntryStep /\ stamp' \in Nat
<1> USE DEF TInv
<1>1. CASE UNCHANGED <<entry, stamp>>
  BY <1>1 DEF EntryStep
<1>2. ASSUME NEW k \in Attempts, Complete(k) \/ Notify(k) PROVE EntryStep /\ stamp' \in Nat
  BY <1>1, <1>2, NewEntryStep DEF Complete, Notify
<1>3. ASSUME NEW k \in Attempts, Fail(k) PROVE EntryStep /\ stamp' \in Nat
  <2>1. CASE MarkFailed(RowOf(k))
    BY <1>1, <1>3, <2>1, SkipStep DEF MarkFailed, Fail
  <2>2. CASE UNCHANGED entry
    BY <1>1, <1>3, <2>2 DEF Fail
  <2>3. QED
    BY <1>3, <2>1, <2>2 DEF Fail
<1>4. ASSUME NEW k \in Attempts, CoolOver(k) PROVE EntryStep /\ stamp' \in Nat
  <2>1. entry[k].status = "pending" /\ entry' = [entry EXCEPT ![k] = [entry[k] EXCEPT !.cooling = FALSE]]
    BY <1>4 DEF CoolOver, Pending
  <2>2. QED
    BY <1>4, <2>1, SettledEntryStep DEF CoolOver
<1>5. CASE Skip
  BY <1>1, <1>5, SkipStep DEF Skip, Made
<1>6. CASE Begin
  <2> DEFINE k == poster.delivery
  <2>1. k \in Attempts
    BY <1>6 DEF Begin, Made
  <2>2. CASE IsHead(k) /\ UpdateEntry(k, [entry[k] EXCEPT !.cooling = TRUE])
    BY <1>6, <2>1, <2>2, SettledEntryStep DEF Begin, IsHead, Pending, UpdateEntry, WriteOutbox
  <2>3. CASE UNCHANGED entry
    BY <1>1, <1>6, <2>3 DEF Begin
  <2>4. QED
    BY <1>6, <2>2, <2>3 DEF Begin
<1>7. CASE Commit
  <2>1. CASE Queued(poster.delivery) /\ Acknowledge(poster.delivery, poster.inc)
    BY <1>7, <2>1, AcknowledgeStep DEF Commit
  <2>2. CASE UNCHANGED entry
    BY <1>1, <1>7, <2>2 DEF Commit
  <2>3. QED
    BY <1>7, <2>1, <2>2 DEF Commit
<1>8. ASSUME NEW k \in Attempts, (\E r \in Rows, reply \in BOOLEAN : Start(k, r, reply)) \/ Lock(k)
      PROVE  UNCHANGED <<entry, stamp>>
  BY <1>8 DEF Start, Lock, storeVars
<1>9. ASSUME NEW i \in Incidents,
             Resolve(i) \/ Refire(i) \/ Trash(i) \/ Restore(i) \/ Purge(i) \/ LockNotice(i)
      PROVE  UNCHANGED <<entry, stamp>>
  BY <1>9 DEF Resolve, Refire, Trash, Restore, Purge, LockNotice, storeVars
<1>10. ASSUME (\E r \in Rows : Reap(r)) \/ RetryScan \/ Crash \/ \E m \in DOMAIN channel : ThreadRemoved(m)
      PROVE  UNCHANGED <<entry, stamp>>
  BY <1>10 DEF Reap, RetryScan, Crash, ThreadRemoved, storeVars
<1>11. ASSUME PostAccepted \/ PostFails \/ PostFindsNoThread \/ Reset \/ PostNotice
      PROVE  UNCHANGED <<entry, stamp>>
  BY <1>11 DEF PostAccepted, PostFails, PostFindsNoThread, Reset, PostNotice, storeVars
<1>12. QED
  BY <1>1, <1>2, <1>3, <1>4, <1>5, <1>6, <1>7, <1>8, <1>9, <1>10, <1>11 DEF Next, Deliver, vars, storeVars

(* Incidents *)

LEMMA IncidentsStep ==
    ASSUME TInv, [Next]_vars
    PROVE  inc' \in [Incidents -> Incident]
<1>0. inc \in [Incidents -> Incident] /\ MaxResolutions \in Nat
  BY ConstantsAssumption DEF TInv
<1>1. CASE UNCHANGED inc
  BY <1>0, <1>1
<1>2. ASSUME NEW i \in Incidents, Resolve(i) \/ Refire(i) \/ Trash(i) \/ Restore(i) \/ Purge(i)
      PROVE  inc' \in [Incidents -> Incident]
  <2>1. inc[i] \in Incident
    BY <1>0
  <2>2. PICK e \in Incident : inc' = [inc EXCEPT ![i] = e]
    <3>1. CASE Resolve(i)
      <4> DEFINE n == inc[i].resolutions + 1
      <4>1. n \in 0..MaxResolutions
        BY <1>0, <2>1, <3>1 DEF Resolve, Incident
      <4>2. inc' = [inc EXCEPT ![i] = [inc[i] EXCEPT !.resolved = n, !.resolutions = n]]
        BY <1>0, <3>1 DEF Resolve
      <4> HIDE DEF n
      <4>3. QED
        BY <2>1, <4>1, <4>2 DEF Incident
    <3>2. CASE Refire(i)
      <4>1. inc' = [inc EXCEPT ![i] = [inc[i] EXCEPT !.resolved = Firing]]
        BY <1>0, <3>2 DEF Refire
      <4>2. Firing \in 0..MaxResolutions
        BY <1>0 DEF Firing
      <4>3. QED
        BY <2>1, <4>1, <4>2 DEF Incident
    <3>3. CASE Trash(i) \/ Restore(i) \/ Purge(i)
      BY <2>1, <3>3 DEF Trash, Restore, Purge, Incident
    <3>4. QED
      BY <1>2, <3>1, <3>2, <3>3
  <2>3. QED
    BY <1>0, <2>2
<1>3. CASE Commit
  BY <1>1, <1>3, AcknowledgeStep DEF Commit, TInv
<1>4. CASE Reset
  <2>1. poster.inc \in Incidents
    BY <1>4, PosterFields DEF Reset
  <2>2. inc[poster.inc] \in Incident
    BY <1>0, <2>1
  <2>3. [inc[poster.inc] EXCEPT !.thread = NoThread, !.seq = 0] \in Incident
    BY <2>2 DEF Incident, NoThread
  <2>4. CASE inc' = [inc EXCEPT ![poster.inc].thread = NoThread, ![poster.inc].seq = 0]
    <3>1. inc' = [inc EXCEPT ![poster.inc] = [inc[poster.inc] EXCEPT !.thread = NoThread, !.seq = 0]]
      BY <1>0, <2>1, <2>4
    <3>2. QED
      BY <1>0, <2>3, <3>1
  <2>5. QED
    BY <1>1, <1>4, <2>4 DEF Reset
<1>5. ASSUME NEW k \in Attempts,
             \/ \E r \in Rows, reply \in BOOLEAN : Start(k, r, reply)
             \/ Complete(k) \/ Fail(k) \/ Notify(k) \/ CoolOver(k) \/ Lock(k)
      PROVE  UNCHANGED inc
  BY <1>5 DEF Start, Complete, Fail, Notify, CoolOver, Lock, storeVars
<1>6. ASSUME \/ \E i \in Incidents : LockNotice(i)
             \/ \E r \in Rows : Reap(r)
             \/ RetryScan \/ Crash \/ \E m \in DOMAIN channel : ThreadRemoved(m)
      PROVE  UNCHANGED inc
  BY <1>6 DEF LockNotice, Reap, RetryScan, Crash, ThreadRemoved, storeVars
<1>7. ASSUME Skip \/ Begin \/ PostAccepted \/ PostFails \/ PostFindsNoThread \/ PostNotice
      PROVE  UNCHANGED inc
  BY <1>7 DEF Skip, Begin, PostAccepted, PostFails, PostFindsNoThread, PostNotice, storeVars
<1>8. QED
  BY <1>1, <1>2, <1>3, <1>4, <1>5, <1>6, <1>7 DEF Next, Deliver, vars, storeVars

(* The channel *)

\* Messages stay; one more may come, from the holder of the mutex.
Posted(msg) == channel' = Append(channel, msg)

LEMMA AppendStep ==
    ASSUME TInv, NEW msg \in Message, Posted(msg)
    PROVE  /\ channel' \in Seq(Message)
           /\ Len(channel) \in Nat /\ Len(channel') = Len(channel) + 1
           /\ DOMAIN channel = 1..Len(channel) /\ DOMAIN channel' = 1..(Len(channel) + 1)
           /\ \A m \in DOMAIN channel : channel'[m] = channel[m]
           /\ channel'[Len(channel) + 1] = msg
<1>1. channel \in Seq(Message) /\ channel' = Append(channel, msg)
  BY DEF TInv, Posted
<1>2. QED
  BY <1>1, AppendProperties, LenProperties

LEMMA AnalysisMessageType ==
    ASSUME TInv, poster.pc = "post"
    PROVE  /\ AnalysisMessage(poster.delivery) \in Message
           /\ AnalysisMessage(poster.delivery).delivery = poster.delivery
           /\ AnalysisMessage(poster.delivery).thread = poster.detail.thread
           /\ poster.delivery \in Made
<1>1. poster.delivery \in Made /\ entry[poster.delivery] \in Entry /\ poster.delivery \in 0..MaxAttempts
  BY PosterFields DEF TInv, Made
<1>2. poster.inc \in Incidents /\ poster.detail \in Incident
  BY PosterFields
<1>3. entry[poster.delivery].at \in Nat /\ poster.detail.thread \in Nat /\ poster.detail.seq \in Nat
  BY <1>1, <1>2 DEF Entry, Incident
<1>4. NextLabel(poster.detail) \in Nat
  BY <1>3 DEF NextLabel
<1>5. QED
  BY <1>1, <1>2, <1>3, <1>4, PosterFields DEF AnalysisMessage, Message

LEMMA NoticeType ==
    ASSUME TInv, poster.pc = "notice"
    PROVE  LET msg == [inc |-> poster.inc, delivery |-> 0, thread |-> poster.detail.thread,
                       label |-> poster.detail.resolved, at |-> 0] IN
           msg \in Message
<1>1. poster.inc \in Incidents /\ poster.detail \in Incident /\ MaxResolutions \in Nat /\ MaxAttempts \in Nat
  BY PosterFields, ConstantsAssumption
<1>2. poster.detail.thread \in Nat /\ poster.detail.resolved \in Nat
  BY <1>1 DEF Incident
<1>3. QED
  BY <1>1, <1>2 DEF Message

\* What a step may add.
ChannelStep ==
    \/ UNCHANGED channel
    \/ poster.pc = "post" /\ Posted(AnalysisMessage(poster.delivery))
    \/ /\ poster.pc = "notice" /\ NoticeDue(poster.inc)
       /\ notified' = [notified EXCEPT ![poster.inc] = poster.detail.resolved]
       /\ Posted([inc |-> poster.inc, delivery |-> 0, thread |-> poster.detail.thread,
                  label |-> poster.detail.resolved, at |-> 0])

LEMMA ChannelSteps ==
    ASSUME TInv, [Next]_vars
    PROVE  ChannelStep
<1>1. CASE UNCHANGED channel
  BY <1>1 DEF ChannelStep
<1>2. CASE PostAccepted \/ PostFails
  BY <1>2 DEF PostAccepted, PostFails, Accept, ChannelStep, Posted
<1>3. CASE PostNotice
  BY <1>3 DEF PostNotice, ChannelStep, Posted
<1>4. ASSUME NEW k \in Attempts,
             \/ \E r \in Rows, reply \in BOOLEAN : Start(k, r, reply)
             \/ Complete(k) \/ Fail(k) \/ Notify(k) \/ CoolOver(k) \/ Lock(k)
      PROVE  UNCHANGED channel
  BY <1>4 DEF Start, Complete, Fail, Notify, CoolOver, Lock, slackVars
<1>5. ASSUME NEW i \in Incidents,
             Resolve(i) \/ Refire(i) \/ Trash(i) \/ Restore(i) \/ Purge(i) \/ LockNotice(i)
      PROVE  UNCHANGED channel
  BY <1>5 DEF Resolve, Refire, Trash, Restore, Purge, LockNotice, slackVars
<1>6. ASSUME (\E r \in Rows : Reap(r)) \/ RetryScan \/ Crash \/ \E m \in DOMAIN channel : ThreadRemoved(m)
      PROVE  UNCHANGED channel
  BY <1>6 DEF Reap, RetryScan, Crash, ThreadRemoved, slackVars
<1>7. ASSUME Skip \/ Begin \/ PostFindsNoThread \/ Reset \/ Commit
      PROVE  UNCHANGED channel
  BY <1>7 DEF Skip, Begin, PostFindsNoThread, Reset, Commit, slackVars
<1>8. QED
  BY <1>1, <1>2, <1>3, <1>4, <1>5, <1>6, <1>7 DEF Next, Deliver, vars, slackVars

LEMMA ChannelType ==
    ASSUME TInv, ChannelStep
    PROVE  /\ channel' \in Seq(Message)
           /\ \A m \in DOMAIN channel : m \in DOMAIN channel' /\ channel'[m] = channel[m]
<1>1. CASE UNCHANGED channel
  BY <1>1 DEF TInv
<1>2. CASE UNCHANGED channel \/ \E msg \in Message : Posted(msg)
  BY <1>1, <1>2, AppendStep
<1>3. QED
  BY <1>2, AnalysisMessageType, NoticeType DEF ChannelStep

\* Without faults the messages in Slack stay.
FaultFree == faults' = faults /\ removed' = removed

LEMMA FaultsStep ==
    ASSUME [Next]_vars
    PROVE  faults' = faults + 1 \/ FaultFree
<1>1. ASSUME NEW k \in Attempts,
             \/ \E r \in Rows, reply \in BOOLEAN : Start(k, r, reply)
             \/ Complete(k) \/ Fail(k) \/ Notify(k) \/ CoolOver(k) \/ Lock(k)
      PROVE  faults' = faults + 1 \/ FaultFree
  BY <1>1 DEF Start, Complete, Fail, Notify, CoolOver, Lock, Fault, FaultFree, slackVars
<1>2. ASSUME NEW i \in Incidents,
             Resolve(i) \/ Refire(i) \/ Trash(i) \/ Restore(i) \/ Purge(i) \/ LockNotice(i)
      PROVE  FaultFree
  BY <1>2 DEF Resolve, Refire, Trash, Restore, Purge, LockNotice, FaultFree, slackVars
<1>3. ASSUME (\E r \in Rows : Reap(r)) \/ RetryScan \/ Crash \/ \E m \in DOMAIN channel : ThreadRemoved(m)
      PROVE  faults' = faults + 1 \/ FaultFree
  BY <1>3 DEF Reap, RetryScan, Crash, ThreadRemoved, Fault, FaultFree, slackVars
<1>4. ASSUME Deliver PROVE faults' = faults + 1 \/ FaultFree
  BY <1>4 DEF Deliver, Skip, Begin, PostAccepted, PostFails, PostFindsNoThread, Reset, Commit, PostNotice,
              Fault, FaultFree, slackVars
<1>5. QED
  BY <1>1, <1>2, <1>3, <1>4 DEF Next, vars, slackVars, FaultFree

(* Who waits and who works *)

WorkStep ==
    /\ spawned' \subseteq Made
    /\ batch' \in Seq(Made)
    /\ notified' \in [Incidents -> 0..MaxResolutions]
    /\ faults' \in Nat

LEMMA ScanStep ==
    ASSUME TInv, RetryScan
    PROVE  batch' \in Seq(Made)
<1>1. Due \subseteq Made /\ Due \subseteq 1..MaxAttempts
  BY DEF Due, PendingSet, Pending, Queued, Made, Attempts
<1>2. IsFiniteSet(Due)
  <2>1. MaxAttempts \in Int
    BY ConstantsAssumption
  <2>2. IsFiniteSet(1..MaxAttempts)
    BY <2>1, FS_Interval
  <2>3. QED
    BY <1>1, <2>2, FS_Subset
<1>3. Cardinality(Due) \in Nat
  BY <1>2, FS_CardinalityType
<1>4. \E n \in Nat : batch' \in [1..n -> Due]
  <2> DEFINE size == IF Cardinality(Due) < Batch THEN Cardinality(Due) ELSE Batch
  <2>1. size \in Nat
    BY <1>3, ConstantsAssumption
  <2>2. batch' \in [1..size -> Due]
    BY DEF RetryScan
  <2>3. QED
    BY <2>1, <2>2
<1>5. \E n \in Nat : batch' \in [1..n -> Made]
  BY <1>1, <1>4
<1>6. QED
  BY <1>5, SeqDef

LEMMA LockStep ==
    ASSUME TInv, NEW k \in Attempts, Lock(k)
    PROVE  /\ k \in Made /\ spawned' \subseteq Made /\ batch' \in Seq(Made)
           /\ poster' \in Poster /\ poster'.pc = "decide" /\ poster'.delivery = k
           /\ poster'.inc = IncOf(k) /\ poster'.detail = inc[IncOf(k)]
<1>1. batch # <<>> => Head(batch) \in Made /\ Tail(batch) \in Seq(Made)
  BY HeadTailProperties DEF TInv
<1>2. k \in Made /\ spawned' \subseteq Made /\ batch' \in Seq(Made)
  BY <1>1 DEF Lock, TInv
<1>3. IncOf(k) \in Incidents /\ inc[IncOf(k)] \in Incident
  BY <1>2, AttemptPlace DEF TInv, Made
<1>4. poster' = [pc |-> "decide", delivery |-> k, detail |-> inc[IncOf(k)], ts |-> 0, at |-> 0, inc |-> IncOf(k)]
  BY DEF Lock
<1>5. k \in 0..MaxAttempts
  BY ConstantsAssumption DEF Attempts
<1>6. QED
  BY <1>2, <1>3, <1>4, <1>5 DEF Poster

LEMMA WorksStep ==
    ASSUME TInv, [Next]_vars
    PROVE  WorkStep
<1>0. /\ spawned \subseteq Made /\ batch \in Seq(Made) /\ notified \in [Incidents -> 0..MaxResolutions]
      /\ faults \in Nat /\ MaxResolutions \in Nat
  BY ConstantsAssumption DEF TInv
<1>1. faults' \in Nat
  BY <1>0, FaultsStep DEF FaultFree
<1>2. CASE UNCHANGED <<spawned, batch, notified>>
  BY <1>0, <1>1, <1>2 DEF WorkStep
<1>3. ASSUME NEW k \in Attempts, Notify(k) PROVE WorkStep
  <2>1. attempt[k].pc = "completed" /\ k \in Made
    BY <1>3 DEF Notify, Made, NoAttempt
  <2>2. spawned' \subseteq Made /\ UNCHANGED <<batch, notified>>
    BY <1>0, <1>3, <2>1 DEF Notify, slackVars
  <2>3. QED
    BY <1>0, <1>1, <2>2 DEF WorkStep
<1>4. ASSUME NEW k \in Attempts, Lock(k) PROVE WorkStep
  BY <1>0, <1>1, <1>4, LockStep DEF Lock, slackVars, WorkStep
<1>5. CASE RetryScan
  BY <1>0, <1>1, <1>5, ScanStep DEF RetryScan, slackVars, WorkStep
<1>6. CASE Crash
  <2>1. 0 \in 0..MaxResolutions
    BY <1>0
  <2>2. QED
    BY <1>1, <1>6, <2>1, EmptySeq DEF Crash, WorkStep
<1>7. CASE PostNotice
  <2>1. poster.detail \in Incident
    BY <1>7, PosterFields DEF PostNotice
  <2>2. poster.detail.resolved \in 0..MaxResolutions
    BY <2>1 DEF Incident
  <2>3. notified' \in [Incidents -> 0..MaxResolutions] /\ UNCHANGED <<spawned, batch>>
    BY <1>0, <1>7, <2>2 DEF PostNotice
  <2>4. QED
    BY <1>0, <1>1, <2>3 DEF WorkStep
<1>8. ASSUME NEW k \in Attempts,
             \/ \E r \in Rows, reply \in BOOLEAN : Start(k, r, reply)
             \/ Complete(k) \/ Fail(k) \/ CoolOver(k)
      PROVE  UNCHANGED <<spawned, batch, notified>>
  BY <1>8 DEF Start, Complete, Fail, CoolOver, slackVars, workVars
<1>9. ASSUME NEW i \in Incidents,
             Resolve(i) \/ Refire(i) \/ Trash(i) \/ Restore(i) \/ Purge(i) \/ LockNotice(i)
      PROVE  UNCHANGED <<spawned, batch, notified>>
  BY <1>9 DEF Resolve, Refire, Trash, Restore, Purge, LockNotice, slackVars, workVars
<1>10. ASSUME (\E r \in Rows : Reap(r)) \/ \E m \in DOMAIN channel : ThreadRemoved(m)
      PROVE  UNCHANGED <<spawned, batch, notified>>
  BY <1>10 DEF Reap, ThreadRemoved, slackVars, workVars
<1>11. ASSUME Skip \/ Begin \/ PostAccepted \/ PostFails \/ PostFindsNoThread \/ Reset \/ Commit
      PROVE  UNCHANGED <<spawned, batch, notified>>
  BY <1>11 DEF Skip, Begin, PostAccepted, PostFails, PostFindsNoThread, Reset, Commit, slackVars
<1>12. QED
  BY <1>2, <1>3, <1>4, <1>5, <1>6, <1>7, <1>8, <1>9, <1>10, <1>11 DEF Next, Deliver, vars, slackVars, workVars

\* The holder of the mutex: it stays, lets go, takes the mutex for a delivery or
\* a notice, or goes on with what it has read.
PosterStep ==
    \/ poster' = poster
    \/ poster' = Idle
    \/ \E k \in Attempts : Lock(k)
    \/ \E i \in Incidents : LockNotice(i) /\ InTree(i)
    \/ /\ poster.pc = "decide" /\ poster' = [poster EXCEPT !.pc = "post", !.at = entry[poster.delivery].at]
       /\ IsHead(poster.delivery) /\ Pending(poster.delivery) /\ ~NotDeliverable(poster.delivery)
    \/ PostAccepted
    \/ poster.pc = "post" /\ poster' = [poster EXCEPT !.pc = "reset"] /\ PostFindsNoThread
    \/ /\ poster.pc = "commit" /\ poster' = [poster EXCEPT !.pc = "notice", !.detail.thread = poster.ts]
       /\ CatchUp(poster.detail) /\ Commit

LEMMA PosterSteps ==
    ASSUME TInv, [Next]_vars
    PROVE  PosterStep
<1>1. ASSUME NEW k \in Attempts,
             \/ \E r \in Rows, reply \in BOOLEAN : Start(k, r, reply)
             \/ Complete(k) \/ Fail(k) \/ Notify(k) \/ CoolOver(k)
      PROVE  poster' = poster
  BY <1>1 DEF Start, Complete, Fail, Notify, CoolOver, workVars
<1>2. ASSUME NEW i \in Incidents, Resolve(i) \/ Refire(i) \/ Trash(i) \/ Restore(i) \/ Purge(i)
      PROVE  poster' = poster
  BY <1>2 DEF Resolve, Refire, Trash, Restore, Purge, workVars
<1>3. ASSUME NEW i \in Incidents, LockNotice(i) PROVE poster' = poster \/ InTree(i)
  BY <1>3 DEF LockNotice
<1>4. ASSUME (\E r \in Rows : Reap(r)) \/ RetryScan \/ \E m \in DOMAIN channel : ThreadRemoved(m)
      PROVE  poster' = poster
  BY <1>4 DEF Reap, RetryScan, ThreadRemoved, workVars
<1>5. ASSUME Crash \/ Skip \/ PostFails \/ Reset \/ PostNotice PROVE poster' = Idle
  BY <1>5 DEF Crash, Skip, PostFails, Reset, PostNotice, Release
<1>6. CASE Begin
  BY <1>6 DEF Begin, IsHead, Release, PosterStep
<1>7. CASE Commit
  BY <1>7 DEF Commit, Release, PosterStep
<1>8. CASE PostFindsNoThread
  BY <1>8 DEF PostFindsNoThread, PosterStep
<1>9. CASE UNCHANGED vars
  BY <1>9 DEF vars, workVars, PosterStep
<1>10. QED
  BY <1>1, <1>2, <1>3, <1>4, <1>5, <1>6, <1>7, <1>8, <1>9 DEF Next, Deliver, PosterStep

\* The timestamp an accepted post returns is that of a message of the delivery.
LEMMA AcceptedStep ==
    ASSUME TInv, PostAccepted
    PROVE  /\ poster.pc = "post"
           /\ \E ts \in DOMAIN channel' : /\ ts \in Nat /\ channel'[ts].delivery = poster.delivery
                                        /\ poster' = [poster EXCEPT !.pc = "commit", !.ts = ts]
<1>1. /\ poster.pc = "post" /\ Len(channel) \in Nat /\ channel \in Seq(Message)
      /\ AnalysisMessage(poster.delivery) \in Message
      /\ AnalysisMessage(poster.delivery).delivery = poster.delivery
  BY LenProperties, AnalysisMessageType DEF TInv, PostAccepted
<1>2. PICK ts \in 1..(Len(channel) + 1) :
          /\ Accept(AnalysisMessage(poster.delivery), SameId(poster.delivery), ts)
          /\ poster' = [poster EXCEPT !.pc = "commit", !.ts = ts]
  BY DEF PostAccepted
<1>3. ts \in Nat
  BY <1>1, <1>2
<1>4. CASE Posted(AnalysisMessage(poster.delivery)) /\ ts = Len(channel) + 1
  BY <1>1, <1>2, <1>3, <1>4, AppendStep
<1>5. CASE UNCHANGED channel /\ ts \in SameId(poster.delivery)
  BY <1>1, <1>2, <1>3, <1>5 DEF SameId
<1>6. QED
  BY <1>2, <1>4, <1>5 DEF Accept, Posted

LEMMA PosterType ==
    ASSUME TInv, PosterStep
    PROVE  /\ poster' \in Poster \cup {Idle}
           /\ poster'.pc \in {"decide", "post", "commit", "reset"} => poster'.delivery \in Made
           /\ poster'.pc \in {"post", "commit"} => entry[poster'.delivery] # NoEntry
<1> DEFINE Fits ==
             /\ poster' \in Poster \cup {Idle}
             /\ poster'.pc \in {"decide", "post", "commit", "reset"} => poster'.delivery \in Made
             /\ poster'.pc \in {"post", "commit"} => entry[poster'.delivery] # NoEntry
<1>1. CASE poster' = poster
  BY <1>1 DEF TInv
<1>2. CASE poster' = Idle
  BY <1>2 DEF Idle
<1>3. ASSUME NEW k \in Attempts, Lock(k) PROVE Fits
  BY <1>3, LockStep
<1>4. ASSUME NEW i \in Incidents, LockNotice(i), InTree(i) PROVE Fits
  <2>1. poster' = [pc |-> "notice", delivery |-> 0, detail |-> inc[i], ts |-> 0, at |-> 0, inc |-> i]
    BY <1>4 DEF LockNotice
  <2>2. inc[i] \in Incident /\ 0 \in 0..MaxAttempts
    BY ConstantsAssumption DEF TInv
  <2>3. QED
    BY <2>1, <2>2 DEF Poster
<1>5. CASE /\ poster.pc = "decide" /\ poster' = [poster EXCEPT !.pc = "post", !.at = entry[poster.delivery].at]
           /\ Pending(poster.delivery)
  <2>1. poster \in Poster /\ poster.delivery \in Made /\ entry[poster.delivery] # NoEntry
    BY <1>5, PosterFields DEF TInv, Pending, NoEntry
  <2>2. entry[poster.delivery].at \in Nat
    BY <2>1 DEF TInv, Made, Entry
  <2>3. poster' \in Poster /\ poster'.delivery = poster.delivery
    BY <1>5, <2>1, <2>2 DEF Poster
  <2>4. QED
    BY <2>1, <2>3
<1>6. CASE PostAccepted
  <2>1. poster.pc = "post" /\ \E ts \in Nat : poster' = [poster EXCEPT !.pc = "commit", !.ts = ts]
    BY <1>6, AcceptedStep
  <2>2. poster \in Poster /\ poster.delivery \in Made /\ entry[poster.delivery] # NoEntry
    BY <2>1, PosterFields DEF TInv
  <2>3. poster' \in Poster /\ poster'.delivery = poster.delivery
    BY <2>1, <2>2 DEF Poster
  <2>4. QED
    BY <2>2, <2>3
<1>7. CASE poster.pc = "post" /\ poster' = [poster EXCEPT !.pc = "reset"]
  BY <1>7, PosterFields DEF TInv, Poster
<1>8. CASE poster.pc = "commit" /\ poster' = [poster EXCEPT !.pc = "notice", !.detail.thread = poster.ts]
  <2>1. poster \in Poster /\ poster.detail \in Incident /\ poster.ts \in Nat
    BY <1>8, PosterFields
  <2>2. [poster.detail EXCEPT !.thread = poster.ts] \in Incident
    BY <2>1 DEF Incident
  <2>3. poster' = [poster EXCEPT !.pc = "notice", !.detail = [poster.detail EXCEPT !.thread = poster.ts]]
    BY <1>8, <2>1 DEF Poster
  <2>4. poster' \in Poster /\ poster'.pc = "notice"
    BY <2>1, <2>2, <2>3 DEF Poster
  <2>5. QED
    BY <2>4
<1>9. QED
  BY <1>1, <1>2, <1>3, <1>4, <1>5, <1>6, <1>7, <1>8 DEF PosterStep

LEMMA TInvInit == Init => TInv
<1> SUFFICES ASSUME Init PROVE TInv
  OBVIOUS
<1>1. \A i \in Incidents : inc[i] \in Incident
  <2>1. PICK legacy \in StartSeqs :
          inc = [i \in Incidents |-> [state |-> "live", resolved |-> Firing, resolutions |-> 0,
                                      thread |-> NoThread, seq |-> legacy]]
    BY DEF Init
  <2>2. legacy \in Nat /\ 0 \in 0..MaxResolutions
    BY ConstantsAssumption
  <2>3. QED
    BY <2>1, <2>2 DEF Incident, Firing, NoThread
<1>2. inc \in [Incidents -> Incident]
  BY <1>1 DEF Init
<1>3. 0 \in 0..MaxResolutions
  BY ConstantsAssumption
<1>4. QED
  BY <1>2, <1>3, EmptySeq DEF Init, TInv, Idle

LEMMA TInvStep == TInv /\ [Next]_vars => TInv'
<1> SUFFICES ASSUME TInv, [Next]_vars PROVE TInv'
  OBVIOUS
<1>1. /\ attempt' \in [Attempts -> Attempt \cup {NoAttempt}] /\ Made \subseteq Made'
  BY AttemptsStep DEF AttemptStep, Made
<1>2. /\ entry' \in [Attempts -> Entry \cup {NoEntry}] /\ stamp' \in Nat
      /\ \A k \in Attempts : entry[k] # NoEntry => entry'[k] # NoEntry
  BY EntriesStep DEF EntryStep
<1>3. spawned' \subseteq Made' /\ batch' \in Seq(Made') /\ notified' \in [Incidents -> 0..MaxResolutions]
      /\ faults' \in Nat
  BY <1>1, WorksStep, SeqMonotonic DEF WorkStep
<1>4. channel' \in Seq(Message)
  BY ChannelSteps, ChannelType
<1>5. /\ poster' \in Poster \cup {Idle}
      /\ poster'.pc \in {"decide", "post", "commit", "reset"} => poster'.delivery \in Made'
      /\ poster'.pc \in {"post", "commit"} => entry'[poster'.delivery] # NoEntry
  BY <1>1, <1>2, PosterSteps, PosterType DEF Made
<1>6. QED
  BY <1>1, <1>2, <1>3, <1>4, <1>5, IncidentsStep DEF TInv

-----------------------------------------------------------------------------
(* Deliveries *)

LEMMA TypesAlways == Spec => []TInv
BY TInvInit, TInvStep, PTL DEF Spec

LEMMA NotRepostedStep ==
    ASSUME TInv, DeliveredNotReposted, [Next]_vars
    PROVE  DeliveredNotReposted'
<1> SUFFICES ASSUME poster'.pc = "post" PROVE entry'[poster'.delivery].status # "delivered"
  BY DEF DeliveredNotReposted
<1>1. /\ poster.pc \in {"decide", "post"} /\ poster'.delivery = poster.delivery
      /\ entry[poster.delivery].status # "delivered"
  <2>1. ~\E k \in Attempts : Lock(k)
    BY LockStep
  <2>2. ~\E i \in Incidents : LockNotice(i) /\ InTree(i)
    BY DEF LockNotice
  <2>3. ~PostAccepted
    BY AcceptedStep, PosterFields DEF Poster
  <2>4. CASE poster' = poster
    BY <2>4 DEF DeliveredNotReposted
  <2>5. CASE /\ poster.pc = "decide" /\ poster' = [poster EXCEPT !.pc = "post", !.at = entry[poster.delivery].at]
             /\ Pending(poster.delivery)
    <3>1. poster \in Poster
      BY <2>5, PosterFields
    <3>2. poster'.delivery = poster.delivery
      BY <2>5, <3>1 DEF Poster
    <3>3. QED
      BY <2>5, <3>2 DEF Pending
  <2>6. CASE poster.pc \in {"post", "commit"} /\ poster'.pc \in {"reset", "notice"}
    BY <2>6
  <2>7. ASSUME poster.pc = "post", poster' = [poster EXCEPT !.pc = "reset"] PROVE FALSE
    BY <2>7, PosterFields DEF Poster
  <2>8. ASSUME poster.pc = "commit", poster' = [poster EXCEPT !.pc = "notice", !.detail.thread = poster.ts]
        PROVE  FALSE
    BY <2>8, PosterFields DEF Poster
  <2>9. QED
    BY <2>1, <2>2, <2>3, <2>4, <2>5, <2>7, <2>8, PosterSteps DEF PosterStep, Idle
<1>2. poster.delivery \in Attempts
  BY <1>1 DEF TInv, Made
<1>3. QED
  BY <1>1, <1>2, EntriesStep DEF EntryStep

\* A delivery that Slack has acknowledged is never posted a second time,
\* although the attempt's goroutine and any number of the worker's lists may
\* hold it: BeginSlackAnalysisDelivery looks again under the store's lock.
THEOREM DeliveredNotRepostedHolds == Spec => []DeliveredNotReposted
<1>1. Init => DeliveredNotReposted
  BY DEF Init, Idle, DeliveredNotReposted
<1>2. TInv /\ DeliveredNotReposted /\ [Next]_vars => DeliveredNotReposted'
  BY NotRepostedStep
<1>3. QED
  BY <1>1, <1>2, TypesAlways, PTL DEF Spec

\* A delivery may be posted under a thread: an operator asked for it, or it is
\* not younger than the root.
MayFollow(k, thread, attempts, messages) ==
    thread # NoThread /\ ~attempts[k].reply => thread \in DOMAIN messages /\ k <= messages[thread].delivery

\* What the store, the holder of the mutex and the channel say of a message agree.
SilentInv ==
    /\ \A k \in Attempts : entry[k].status = "delivered" =>
           entry[k].ts \in DOMAIN channel /\ channel[entry[k].ts].delivery = k
    /\ poster.pc = "commit" => poster.ts \in DOMAIN channel /\ channel[poster.ts].delivery = poster.delivery
    /\ poster.pc = "post" => MayFollow(poster.delivery, poster.detail.thread, attempt, channel)
    /\ \A m \in DOMAIN channel : channel[m].delivery # 0 =>
           channel[m].delivery \in Made /\ MayFollow(channel[m].delivery, channel[m].thread, attempt, channel)

LEMMA MayFollowStep ==
    ASSUME TInv, [Next]_vars, NEW k \in Made, NEW thread, MayFollow(k, thread, attempt, channel)
    PROVE  MayFollow(k, thread, attempt', channel')
BY AttemptsStep, ChannelSteps, ChannelType DEF AttemptStep, MayFollow

LEMMA SilentStep ==
    ASSUME TInv, SilentInv, [Next]_vars
    PROVE  SilentInv'
<1>0. /\ EntryStep /\ AttemptStep /\ Made \subseteq Made'
      /\ \A m \in DOMAIN channel : m \in DOMAIN channel' /\ channel'[m] = channel[m]
  BY EntriesStep, AttemptsStep, ChannelSteps, ChannelType DEF AttemptStep
<1>1. \A k \in Attempts : entry'[k].status = "delivered" =>
          entry'[k].ts \in DOMAIN channel' /\ channel'[entry'[k].ts].delivery = k
  BY <1>0 DEF EntryStep, SilentInv
<1>2. poster'.pc = "commit" => poster'.ts \in DOMAIN channel' /\ channel'[poster'.ts].delivery = poster'.delivery
  <2>1. CASE poster' = poster
    BY <1>0, <2>1 DEF SilentInv
  <2>2. CASE PostAccepted
    <3>1. PICK ts \in DOMAIN channel' : /\ ts \in Nat /\ channel'[ts].delivery = poster.delivery
                                        /\ poster' = [poster EXCEPT !.pc = "commit", !.ts = ts]
      BY <2>2, AcceptedStep
    <3>2. poster \in Poster
      BY <2>2, AcceptedStep, PosterFields
    <3>3. poster'.ts = ts /\ poster'.delivery = poster.delivery
      BY <3>1, <3>2 DEF Poster
    <3>4. QED
      BY <3>1, <3>3
  <2>3. ASSUME NEW k \in Attempts, Lock(k) PROVE poster'.pc = "decide"
    BY <2>3, LockStep
  <2>4. ASSUME NEW i \in Incidents, LockNotice(i), InTree(i) PROVE poster'.pc = "notice"
    BY <2>4 DEF LockNotice
  <2>5. ASSUME poster.pc \in {"decide", "post", "commit"},
               \/ poster' = [poster EXCEPT !.pc = "post", !.at = entry[poster.delivery].at]
               \/ poster' = [poster EXCEPT !.pc = "reset"]
               \/ poster' = [poster EXCEPT !.pc = "notice", !.detail.thread = poster.ts]
        PROVE  poster'.pc # "commit"
    BY <2>5, PosterFields DEF Poster
  <2>6. QED
    BY <2>1, <2>2, <2>3, <2>4, <2>5, PosterSteps DEF PosterStep, Idle
<1>3. poster'.pc = "post" => MayFollow(poster'.delivery, poster'.detail.thread, attempt', channel')
  <2>1. CASE poster' = poster
    BY <2>1, MayFollowStep DEF TInv, SilentInv
  <2>2. CASE /\ poster.pc = "decide" /\ poster' = [poster EXCEPT !.pc = "post", !.at = entry[poster.delivery].at]
             /\ Pending(poster.delivery) /\ ~NotDeliverable(poster.delivery)
    <3>1. poster \in Poster /\ poster.delivery \in Made
      BY <2>2, PosterFields DEF TInv
    <3>2. poster'.delivery = poster.delivery /\ poster'.detail = poster.detail
      BY <2>2, <3>1 DEF Poster
    <3>3. MayFollow(poster.delivery, poster.detail.thread, attempt, channel)
      BY <2>2 DEF NotDeliverable, PredatesThread, SilentInv, MayFollow
    <3>4. QED
      BY <3>1, <3>2, <3>3, MayFollowStep
  <2>3. ASSUME NEW k \in Attempts, Lock(k) PROVE poster'.pc = "decide"
    BY <2>3, LockStep
  <2>4. ASSUME NEW i \in Incidents, LockNotice(i), InTree(i) PROVE poster'.pc = "notice"
    BY <2>4 DEF LockNotice
  <2>5. ASSUME PostAccepted PROVE poster'.pc = "commit"
    BY <2>5, AcceptedStep, PosterFields DEF Poster
  <2>6. ASSUME poster.pc \in {"post", "commit"},
               \/ poster' = [poster EXCEPT !.pc = "reset"]
               \/ poster' = [poster EXCEPT !.pc = "notice", !.detail.thread = poster.ts]
        PROVE  poster'.pc # "post"
    BY <2>6, PosterFields DEF Poster
  <2>7. QED
    BY <2>1, <2>2, <2>3, <2>4, <2>5, <2>6, PosterSteps DEF PosterStep, Idle
<1>4. ASSUME NEW m \in DOMAIN channel', channel'[m].delivery # 0
      PROVE  channel'[m].delivery \in Made' /\ MayFollow(channel'[m].delivery, channel'[m].thread, attempt', channel')
  <2>1. CASE m \in DOMAIN channel
    <3>1. channel'[m] = channel[m] /\ channel[m].delivery \in Made
      BY <1>0, <1>4, <2>1 DEF SilentInv
    <3>2. MayFollow(channel[m].delivery, channel[m].thread, attempt, channel)
      BY <1>4, <2>1, <3>1 DEF SilentInv
    <3>3. QED
      BY <1>0, <3>1, <3>2, MayFollowStep
  <2>2. CASE m \notin DOMAIN channel
    <3>1. CASE poster.pc = "post" /\ Posted(AnalysisMessage(poster.delivery))
      <4>1. channel'[m] = AnalysisMessage(poster.delivery)
        BY <1>4, <2>2, <3>1, AnalysisMessageType, AppendStep
      <4>2. channel'[m].delivery = poster.delivery /\ channel'[m].thread = poster.detail.thread
        BY <3>1, <4>1, AnalysisMessageType
      <4>3. MayFollow(poster.delivery, poster.detail.thread, attempt', channel') /\ poster.delivery \in Made
        BY <3>1, AnalysisMessageType, MayFollowStep DEF SilentInv
      <4>4. QED
        BY <1>0, <4>2, <4>3
    <3>2. CASE /\ poster.pc = "notice"
               /\ Posted([inc |-> poster.inc, delivery |-> 0, thread |-> poster.detail.thread,
                          label |-> poster.detail.resolved, at |-> 0])
      BY <1>4, <2>2, <3>2, NoticeType, AppendStep
    <3>3. QED
      BY <1>4, <2>2, <3>1, <3>2, ChannelSteps DEF ChannelStep
  <2>3. QED
    BY <2>1, <2>2
<1>5. QED
  BY <1>1, <1>2, <1>3, <1>4 DEF SilentInv

LEMMA SilentAlways == Spec => []SilentInv
<1>1. Init => SilentInv
  BY DEF Init, Idle, NoEntry, SilentInv
<1>2. TInv /\ SilentInv /\ [Next]_vars => SilentInv'
  BY SilentStep
<1>3. QED
  BY <1>1, <1>2, TypesAlways, PTL DEF Spec

\* An automatic result never follows the root analysis into its thread unless
\* it is older: SlackAnalysisDeliveryPredatesThread reads what an acknowledged
\* delivery left, and that is a message of the channel.
THEOREM AutoFollowUpsSilentHolds == Spec => []AutoFollowUpsSilent
<1>1. SilentInv => AutoFollowUpsSilent
  BY DEF SilentInv, MayFollow, AutoFollowUpsSilent
<1>2. QED
  BY <1>1, SilentAlways, PTL

-----------------------------------------------------------------------------
(* Resolution notices *)

LEMMA FaultFreeStep ==
    ASSUME TInv, [Next]_vars, faults' = 0
    PROVE  faults = 0 /\ FaultFree /\ ~Crash
<1>1. Crash => faults' = faults + 1
  BY DEF Crash, Fault
<1>2. faults \in Nat
  BY DEF TInv
<1>3. QED
  BY <1>1, <1>2, FaultsStep DEF FaultFree

\* What a step does to the resolution of an incident: nothing, a new one with
\* its notice, or the alert fires again.  A thread comes with a commit.
ResolvedStep(i) ==
    \/ inc'[i].resolved = inc[i].resolved /\ inc'[i].resolutions = inc[i].resolutions
    \/ inc'[i].resolved = Firing /\ inc'[i].resolutions = inc[i].resolutions
    \/ /\ inc'[i].resolutions = inc[i].resolutions + 1 /\ inc'[i].resolved = inc'[i].resolutions
       /\ inc'[i].resolved \in 1..MaxResolutions /\ <<i, inc'[i].resolved>> \in notices'

ThreadStep(i) ==
    \/ inc'[i].thread = inc[i].thread
    \/ inc'[i].thread = NoThread
    \/ /\ poster.pc = "commit" /\ poster.inc = i /\ poster.detail.thread = NoThread
       /\ inc'[i].resolved = inc[i].resolved
       /\ poster' = IF CatchUp(poster.detail)
                    THEN [poster EXCEPT !.pc = "notice", !.detail.thread = poster.ts] ELSE Idle

IncidentStep == \A i \in Incidents : ResolvedStep(i) /\ ThreadStep(i) /\ (InTree(i)' => InTree(i))

LEMMA OneIncident ==
    ASSUME TInv, NEW i \in Incidents, NEW e, inc' = [inc EXCEPT ![i] = e],
           ResolvedStep(i), ThreadStep(i), e.state # "gone" => InTree(i)
    PROVE  IncidentStep
<1>1. inc'[i] = e /\ \A j \in Incidents : j # i => inc'[j] = inc[j]
  BY DEF TInv
<1>2. QED
  BY <1>1 DEF IncidentStep, ResolvedStep, ThreadStep, InTree

LEMMA CommitIncident ==
    ASSUME TInv, Commit, ~UNCHANGED inc
    PROVE  IncidentStep
<1> DEFINE i == poster.inc
           root == poster.detail.thread = NoThread /\ inc[i].thread = NoThread
           seq == IF root THEN 1 ELSE inc[i].seq + 1
           th == IF root THEN poster.ts ELSE inc[i].thread
           e == [inc[i] EXCEPT !.seq = seq, !.thread = th]
<1>1. /\ poster.pc = "commit" /\ Acknowledge(poster.delivery, i) /\ inc[i].state = "live"
      /\ poster' = IF CatchUp(poster.detail)
                   THEN [poster EXCEPT !.pc = "notice", !.detail.thread = poster.ts] ELSE Idle
  BY DEF Commit, Release
<1>2. i \in Incidents /\ inc[i] \in Incident
  BY <1>1, PosterFields DEF TInv
<1>3. inc' = [inc EXCEPT ![i] = e]
  BY <1>1 DEF Acknowledge
<1>4. /\ e.resolved = inc[i].resolved /\ e.resolutions = inc[i].resolutions /\ e.state = inc[i].state
      /\ e.thread = th
  BY <1>2 DEF Incident
<1>5. inc'[i] = e
  BY <1>2, <1>3 DEF TInv
<1> HIDE DEF e
<1>6. ResolvedStep(i) /\ ThreadStep(i)
  BY <1>1, <1>4, <1>5 DEF ResolvedStep, ThreadStep
<1>7. QED
  BY <1>1, <1>2, <1>3, <1>4, <1>6, OneIncident DEF InTree

LEMMA IncidentSteps ==
    ASSUME TInv, [Next]_vars
    PROVE  IncidentStep
<1>0. inc \in [Incidents -> Incident] /\ MaxResolutions \in Nat
  BY ConstantsAssumption DEF TInv
<1>1. CASE UNCHANGED inc
  BY <1>1 DEF IncidentStep, ResolvedStep, ThreadStep, InTree
<1>2. ASSUME NEW i \in Incidents, Resolve(i) PROVE IncidentStep
  <2> DEFINE n == inc[i].resolutions + 1
             e == [inc[i] EXCEPT !.resolved = n, !.resolutions = n]
  <2>1. inc[i] \in Incident /\ n \in 1..MaxResolutions
    BY <1>0, <1>2 DEF Resolve, Incident
  <2>2. inc' = [inc EXCEPT ![i] = e]
    BY <1>0, <1>2 DEF Resolve
  <2>3. inc'[i] = e
    BY <1>0, <2>2
  <2>4. e.resolved = n /\ e.resolutions = n /\ e.state = inc[i].state /\ e.thread = inc[i].thread
    BY <2>1 DEF Incident
  <2>5. <<i, inc'[i].resolved>> \in notices'
    BY <1>2 DEF Resolve
  <2> HIDE DEF e
  <2>6. ResolvedStep(i) /\ ThreadStep(i)
    BY <2>1, <2>3, <2>4, <2>5 DEF ResolvedStep, ThreadStep
  <2>7. QED
    BY <1>2, <2>2, <2>4, <2>6, OneIncident DEF InTree
<1>3. ASSUME NEW i \in Incidents, Refire(i) PROVE IncidentStep
  <2>1. inc[i] \in Incident
    BY <1>0
  <2>2. inc' = [inc EXCEPT ![i] = [inc[i] EXCEPT !.resolved = Firing]]
    BY <1>0, <1>3 DEF Refire
  <2>3. ResolvedStep(i) /\ ThreadStep(i)
    BY <1>0, <2>1, <2>2 DEF ResolvedStep, ThreadStep, Incident
  <2>4. QED
    BY <1>3, <2>1, <2>2, <2>3, OneIncident DEF Incident, InTree
<1>4. ASSUME NEW i \in Incidents, NEW st, inc' = [inc EXCEPT ![i] = [inc[i] EXCEPT !.state = st]],
             InTree(i)
      PROVE  IncidentStep
  <2>1. inc[i] \in Incident
    BY <1>0
  <2>2. ResolvedStep(i) /\ ThreadStep(i)
    BY <1>0, <1>4, <2>1 DEF ResolvedStep, ThreadStep, Incident
  <2>3. QED
    BY <1>4, <2>1, <2>2, OneIncident DEF Incident, InTree
<1>5. ASSUME NEW i \in Incidents, Trash(i) \/ Restore(i) \/ Purge(i) PROVE IncidentStep
  <2>1. InTree(i) /\ \E st : inc' = [inc EXCEPT ![i] = [inc[i] EXCEPT !.state = st]]
    BY <1>0, <1>5 DEF Trash, Restore, Purge, InTree
  <2>2. QED
    BY <1>4, <2>1
<1>6. ASSUME Reset, ~UNCHANGED inc PROVE IncidentStep
  <2> DEFINE i == poster.inc
  <2>1. i \in Incidents /\ inc[i] \in Incident /\ inc[i].state = "live"
    BY <1>0, <1>6, PosterFields DEF Reset
  <2>2. inc' = [inc EXCEPT ![i] = [inc[i] EXCEPT !.thread = NoThread, !.seq = 0]]
    BY <1>0, <1>6, <2>1 DEF Reset
  <2>3. ResolvedStep(i) /\ ThreadStep(i)
    BY <1>0, <2>1, <2>2 DEF ResolvedStep, ThreadStep, Incident
  <2>4. QED
    BY <2>1, <2>2, <2>3, OneIncident DEF Incident, InTree
<1>7. ASSUME NEW k \in Attempts,
             \/ \E r \in Rows, reply \in BOOLEAN : Start(k, r, reply)
             \/ Complete(k) \/ Fail(k) \/ Notify(k) \/ CoolOver(k) \/ Lock(k)
      PROVE  UNCHANGED inc
  BY <1>7 DEF Start, Complete, Fail, Notify, CoolOver, Lock, storeVars
<1>8. ASSUME \/ \E i \in Incidents : LockNotice(i)
             \/ \E r \in Rows : Reap(r)
             \/ RetryScan \/ Crash \/ \E m \in DOMAIN channel : ThreadRemoved(m)
      PROVE  UNCHANGED inc
  BY <1>8 DEF LockNotice, Reap, RetryScan, Crash, ThreadRemoved, storeVars
<1>9. ASSUME Skip \/ Begin \/ PostAccepted \/ PostFails \/ PostFindsNoThread \/ PostNotice
      PROVE  UNCHANGED inc
  BY <1>9 DEF Skip, Begin, PostAccepted, PostFails, PostFindsNoThread, PostNotice, storeVars
<1>10. QED
  BY <1>1, <1>2, <1>3, <1>5, <1>6, <1>7, <1>8, <1>9, CommitIncident DEF Next, Deliver, vars, storeVars

\* What a step does to the memory of notices and to those that wait.
NotifiedStep ==
    /\ UNCHANGED notified \/ PostNotice
    /\ notices \subseteq notices' \/ \E i \in Incidents : LockNotice(i)

LEMMA NotifiedSteps ==
    ASSUME TInv, [Next]_vars, ~Crash
    PROVE  NotifiedStep
<1>1. ASSUME NEW k \in Attempts,
             \/ \E r \in Rows, reply \in BOOLEAN : Start(k, r, reply)
             \/ Complete(k) \/ Fail(k) \/ Notify(k) \/ CoolOver(k) \/ Lock(k)
      PROVE  UNCHANGED <<notified, notices>>
  BY <1>1 DEF Start, Complete, Fail, Notify, CoolOver, Lock, slackVars, workVars
<1>2. ASSUME NEW i \in Incidents, Resolve(i) \/ Refire(i) \/ Trash(i) \/ Restore(i) \/ Purge(i)
      PROVE  UNCHANGED notified /\ notices \subseteq notices'
  BY <1>2 DEF Resolve, Refire, Trash, Restore, Purge, slackVars, workVars
<1>3. ASSUME NEW i \in Incidents, LockNotice(i) PROVE UNCHANGED notified
  BY <1>3 DEF LockNotice, slackVars
<1>4. ASSUME (\E r \in Rows : Reap(r)) \/ RetryScan \/ \E m \in DOMAIN channel : ThreadRemoved(m)
      PROVE  UNCHANGED <<notified, notices>>
  BY <1>4 DEF Reap, RetryScan, ThreadRemoved, slackVars, workVars
<1>5. ASSUME Skip \/ Begin \/ PostAccepted \/ PostFails \/ PostFindsNoThread \/ Reset \/ Commit
      PROVE  UNCHANGED <<notified, notices>>
  BY <1>5 DEF Skip, Begin, PostAccepted, PostFails, PostFindsNoThread, Reset, Commit, slackVars
<1>6. PostNotice => UNCHANGED notices
  BY DEF PostNotice
<1>7. QED
  BY <1>1, <1>2, <1>3, <1>4, <1>5, <1>6 DEF Next, Deliver, vars, slackVars, workVars, NotifiedStep

\* What the holder of the mutex knows of its incident is what it read when it
\* took the mutex, but for the root it has just posted.
HeldStep ==
    poster'.pc # "idle" =>
        \/ /\ poster.pc # "idle" /\ poster'.inc = poster.inc
           /\ poster'.detail.resolved = poster.detail.resolved
           /\ poster'.pc # "notice" => poster.pc # "notice"
           /\ poster'.pc \in {"decide", "post", "commit"} => poster.pc \in {"decide", "post", "commit"}
        \/ /\ poster = Idle /\ poster'.inc \in Incidents /\ poster'.detail = inc[poster'.inc]
           /\ UNCHANGED <<inc, notified>>

LEMMA HeldSteps ==
    ASSUME TInv, [Next]_vars
    PROVE  HeldStep
<1>1. CASE poster' = poster \/ poster' = Idle
  BY <1>1 DEF HeldStep, Idle
<1>2. ASSUME NEW k \in Attempts, Lock(k) PROVE HeldStep
  <2>1. IncOf(k) \in Incidents
    BY <1>2, LockStep, AttemptPlace DEF TInv, Made
  <2>2. QED
    BY <1>2, <2>1, LockStep DEF HeldStep, Lock, storeVars, slackVars
<1>3. ASSUME NEW i \in Incidents, LockNotice(i), InTree(i) PROVE HeldStep
  BY <1>3 DEF HeldStep, LockNotice, storeVars, slackVars
<1>4. ASSUME \/ poster.pc = "decide" /\ poster' = [poster EXCEPT !.pc = "post", !.at = entry[poster.delivery].at]
             \/ poster.pc = "post" /\ poster' = [poster EXCEPT !.pc = "reset"]
             \/ poster.pc = "post" /\ \E ts \in Nat : poster' = [poster EXCEPT !.pc = "commit", !.ts = ts]
      PROVE  HeldStep
  BY <1>4, PosterFields DEF Poster, HeldStep
<1>5. CASE poster.pc = "commit" /\ poster' = [poster EXCEPT !.pc = "notice", !.detail.thread = poster.ts]
  <2>1. poster \in Poster /\ poster.detail \in Incident
    BY <1>5, PosterFields
  <2>2. poster' = [poster EXCEPT !.pc = "notice", !.detail = [poster.detail EXCEPT !.thread = poster.ts]]
    BY <1>5, <2>1 DEF Poster
  <2>3. [poster.detail EXCEPT !.thread = poster.ts].resolved = poster.detail.resolved
    BY <2>1 DEF Incident
  <2>4. /\ poster'.pc = "notice" /\ poster'.inc = poster.inc
        /\ poster'.detail.resolved = poster.detail.resolved
    BY <2>1, <2>2, <2>3 DEF Poster
  <2>5. QED
    BY <1>5, <2>4 DEF HeldStep
<1>6. PostAccepted => poster.pc = "post" /\ \E ts \in Nat : poster' = [poster EXCEPT !.pc = "commit", !.ts = ts]
  BY AcceptedStep
<1>7. QED
  BY <1>1, <1>2, <1>3, <1>4, <1>5, <1>6, PosterSteps DEF PosterStep

\* Resolutions are counted up, notices follow them, and what the holder of the
\* mutex read lies between.
NoticeInv ==
    /\ \A i \in Incidents : /\ inc[i].resolved \in {Firing, inc[i].resolutions}
                            /\ notified[i] <= inc[i].resolutions
    /\ poster.pc # "idle" /\ poster.detail.resolved # Firing =>
           /\ notified[poster.inc] <= poster.detail.resolved
           /\ poster.detail.resolved <= inc[poster.inc].resolutions
    /\ \A m \in DOMAIN channel : channel[m].delivery = 0 => channel[m].label <= notified[channel[m].inc]
    /\ \A m, n \in DOMAIN channel :
           channel[m].delivery = 0 /\ channel[n].delivery = 0 /\ channel[m].inc = channel[n].inc
               /\ channel[m].label = channel[n].label => m = n

LEMMA MessageFields ==
    ASSUME TInv, NEW m \in DOMAIN channel
    PROVE  channel[m].label \in Nat /\ channel[m].inc \in Incidents
<1>1. channel[m] \in Message
  BY ElementOfSeq, LenProperties DEF TInv
<1>2. QED
  BY <1>1 DEF Message

LEMMA Counters ==
    ASSUME TInv
    PROVE  /\ \A i \in Incidents : inc[i].resolutions \in Nat /\ inc[i].resolved \in Nat /\ notified[i] \in Nat
           /\ poster.pc # "idle" => poster.detail.resolved \in Nat /\ poster.inc \in Incidents
<1>1. poster.pc # "idle" => poster.detail \in Incident /\ poster.inc \in Incidents
  BY PosterFields
<1>2. MaxResolutions \in Nat
  BY ConstantsAssumption
<1>3. QED
  BY <1>1, <1>2 DEF TInv, Incident

\* A notice that is posted is of a later resolution than all before it.
LEMMA NoticeGrows ==
    ASSUME TInv, NoticeInv, PostNotice, ~UNCHANGED notified
    PROVE  /\ poster.inc \in Incidents /\ poster.detail.resolved \in Nat /\ NoticeDue(poster.inc)
           /\ notified' = [notified EXCEPT ![poster.inc] = poster.detail.resolved]
           /\ notified[poster.inc] < poster.detail.resolved
           /\ poster.detail.resolved <= inc[poster.inc].resolutions
<1>1. /\ NoticeDue(poster.inc) /\ poster.pc = "notice"
      /\ notified' = [notified EXCEPT ![poster.inc] = poster.detail.resolved]
  BY DEF PostNotice
<1>2. poster.detail.resolved # Firing /\ notified[poster.inc] # poster.detail.resolved
  BY <1>1 DEF NoticeDue
<1>3. /\ notified[poster.inc] <= poster.detail.resolved
      /\ poster.detail.resolved <= inc[poster.inc].resolutions
  BY <1>1, <1>2 DEF NoticeInv
<1>4. QED
  BY <1>1, <1>2, <1>3, Counters

LEMMA NotifiedGrows ==
    ASSUME TInv, NoticeInv, NotifiedStep
    PROVE  \A i \in Incidents : /\ notified[i] <= notified'[i]
                                /\ notified'[i] <= inc[i].resolutions
<1>1. CASE UNCHANGED notified
  BY <1>1, Counters DEF NoticeInv
<1>2. CASE PostNotice /\ ~UNCHANGED notified
  <2>1. ASSUME NEW i \in Incidents
        PROVE  notified[i] <= notified'[i] /\ notified'[i] <= inc[i].resolutions
    <3>1. CASE i = poster.inc
      <4>1. notified'[i] = poster.detail.resolved
        BY <1>2, <3>1, NoticeGrows DEF TInv
      <4>2. QED
        BY <1>2, <3>1, <4>1, NoticeGrows, Counters
    <3>2. CASE i # poster.inc
      BY <1>2, <3>2, NoticeGrows, Counters DEF TInv, NoticeInv
    <3>3. QED
      BY <3>1, <3>2
  <2>2. QED
    BY <2>1
<1>3. QED
  BY <1>1, <1>2 DEF NotifiedStep

LEMMA NoticeStep ==
    ASSUME TInv, TInv', NoticeInv, [Next]_vars, ~Crash
    PROVE  NoticeInv'
<1>0. IncidentStep /\ NotifiedStep /\ HeldStep /\ ChannelStep
  BY IncidentSteps, NotifiedSteps, HeldSteps, ChannelSteps
<1>1. ASSUME NEW i \in Incidents
      PROVE  /\ inc'[i].resolved \in {Firing, inc'[i].resolutions} /\ notified'[i] <= inc'[i].resolutions
             /\ inc[i].resolutions <= inc'[i].resolutions
  <2>1. notified'[i] \in Nat /\ notified'[i] <= inc[i].resolutions /\ inc[i].resolutions \in Nat
    BY <1>0, NotifiedGrows, Counters DEF TInv
  <2>2. inc'[i].resolutions \in {inc[i].resolutions, inc[i].resolutions + 1}
    BY <1>0 DEF IncidentStep, ResolvedStep
  <2>3. inc'[i].resolved \in {Firing, inc'[i].resolutions}
    BY <1>0 DEF IncidentStep, ResolvedStep, NoticeInv
  <2>4. QED
    BY <2>1, <2>2, <2>3, ConstantsAssumption
<1>2. ASSUME poster'.pc # "idle", poster'.detail.resolved # Firing
      PROVE  /\ notified'[poster'.inc] <= poster'.detail.resolved
             /\ poster'.detail.resolved <= inc'[poster'.inc].resolutions
  <2>1. CASE /\ poster.pc # "idle" /\ poster'.inc = poster.inc
             /\ poster'.detail.resolved = poster.detail.resolved
    <3>1. /\ notified[poster.inc] <= poster.detail.resolved
          /\ poster.detail.resolved <= inc[poster.inc].resolutions
          /\ poster.inc \in Incidents /\ poster.detail.resolved \in Nat
      BY <1>2, <2>1, Counters DEF NoticeInv
    <3>2. inc[poster.inc].resolutions <= inc'[poster.inc].resolutions
      BY <1>1, <3>1
    <3>3. notified'[poster.inc] <= poster.detail.resolved
      <4>1. CASE UNCHANGED notified
        BY <3>1, <4>1
      <4>2. CASE ~UNCHANGED notified
        <5>1. notified'[poster.inc] = poster.detail.resolved
          BY <1>0, <3>1, <4>2, NoticeGrows DEF NotifiedStep, TInv
        <5>2. QED
          BY <3>1, <5>1
      <4>3. QED
        BY <4>1, <4>2
    <3>4. /\ inc[poster.inc].resolutions \in Nat /\ inc'[poster.inc].resolutions \in Nat
      BY <3>1, Counters DEF Incident, TInv
    <3>5. QED
      BY <2>1, <3>1, <3>2, <3>3, <3>4
  <2>2. CASE /\ poster'.inc \in Incidents /\ poster'.detail = inc[poster'.inc] /\ UNCHANGED <<inc, notified>>
    <3>1. inc[poster'.inc].resolved = inc[poster'.inc].resolutions
      BY <1>2, <2>2 DEF NoticeInv
    <3>2. QED
      BY <2>2, <3>1, Counters DEF NoticeInv
  <2>3. QED
    BY <1>0, <1>2, <2>1, <2>2 DEF HeldStep
<1>3. CASE \/ UNCHANGED channel
           \/ poster.pc = "post" /\ Posted(AnalysisMessage(poster.delivery))
  <2>1. \A m \in DOMAIN channel' : channel'[m].delivery = 0 =>
            m \in DOMAIN channel /\ channel'[m] = channel[m]
    BY <1>3, AppendStep, AnalysisMessageType DEF Made, Attempts
  <2>2. ASSUME NEW m \in DOMAIN channel', channel'[m].delivery = 0
        PROVE  channel'[m].label <= notified'[channel'[m].inc]
    <3>1. /\ m \in DOMAIN channel /\ channel'[m] = channel[m]
          /\ channel[m].label <= notified[channel[m].inc]
      BY <2>1, <2>2 DEF NoticeInv
    <3>2. channel[m].inc \in Incidents /\ channel[m].label \in Nat
      BY <3>1, MessageFields
    <3>3. QED
      BY <1>0, <3>1, <3>2, NotifiedGrows, Counters DEF TInv
  <2>3. QED
    BY <1>1, <1>2, <2>1, <2>2 DEF NoticeInv
<1>4. CASE /\ poster.pc = "notice" /\ NoticeDue(poster.inc)
           /\ notified' = [notified EXCEPT ![poster.inc] = poster.detail.resolved]
           /\ Posted([inc |-> poster.inc, delivery |-> 0, thread |-> poster.detail.thread,
                      label |-> poster.detail.resolved, at |-> 0])
  <2> DEFINE i == poster.inc
             new == poster.detail.resolved
             last == Len(channel) + 1
  <2>1. /\ i \in Incidents /\ new \in Nat /\ notified'[i] = new /\ notified[i] \in Nat
        /\ notified[i] < new
    <3>1. i \in Incidents /\ new \in Nat /\ notified[i] \in Nat
      BY <1>4, Counters
    <3>2. notified'[i] = new
      BY <1>4, <3>1 DEF TInv
    <3>3. notified[i] <= new /\ notified[i] # new
      BY <1>4 DEF NoticeDue, NoticeInv
    <3>4. QED
      BY <3>1, <3>2, <3>3
  <2>2. /\ \A m \in DOMAIN channel : channel'[m] = channel[m]
        /\ \A m \in DOMAIN channel' : m \in DOMAIN channel \/ m = last
        /\ channel'[last].inc = i /\ channel'[last].label = new
    BY <1>4, NoticeType, AppendStep
  <2>3. \A m \in DOMAIN channel : channel[m].delivery = 0 =>
            /\ channel[m].label \in Nat /\ channel[m].inc \in Incidents
            /\ channel[m].label <= notified[channel[m].inc]
    BY MessageFields DEF NoticeInv
  <2> HIDE DEF i, new, last
  <2>4. \A m \in DOMAIN channel : channel[m].delivery = 0 /\ channel[m].inc = i => channel[m].label < new
    BY <2>1, <2>3
  <2>5. ASSUME NEW m \in DOMAIN channel', channel'[m].delivery = 0
        PROVE  channel'[m].label <= notified'[channel'[m].inc]
    <3>1. CASE m \in DOMAIN channel
      <4>1. /\ notified[channel[m].inc] <= notified'[channel[m].inc]
            /\ notified[channel[m].inc] \in Nat /\ notified'[channel[m].inc] \in Nat
        BY <1>0, <2>2, <2>3, <2>5, <3>1, NotifiedGrows, Counters DEF TInv
      <4>2. QED
        BY <2>2, <2>3, <2>5, <3>1, <4>1
    <3>2. CASE m = last
      BY <2>1, <2>2, <3>2
    <3>3. QED
      BY <2>2, <3>1, <3>2
  <2>6. ASSUME NEW m \in DOMAIN channel', NEW n \in DOMAIN channel', channel'[m].delivery = 0,
               channel'[n].delivery = 0, channel'[m].inc = channel'[n].inc,
               channel'[m].label = channel'[n].label
        PROVE  m = n
    <3>1. CASE m \in DOMAIN channel /\ n \in DOMAIN channel
      BY <2>2, <2>6, <3>1 DEF NoticeInv
    <3>2. ASSUME NEW o \in DOMAIN channel, channel[o].delivery = 0, channel[o].inc = i, channel[o].label = new
          PROVE  FALSE
      BY <2>1, <2>4, <3>2
    <3>3. QED
      BY <2>2, <2>6, <3>1, <3>2
  <2>7. QED
    BY <1>1, <1>2, <2>5, <2>6 DEF NoticeInv
<1>5. QED
  BY <1>0, <1>3, <1>4 DEF ChannelStep

LEMMA NoticeAlways == Spec => [](faults = 0 => NoticeInv)
<1>1. Init => NoticeInv
  <2>1. ASSUME Init PROVE \A i \in Incidents : inc[i].resolved = Firing /\ inc[i].resolutions = 0 /\ notified[i] = 0
    BY <2>1 DEF Init
  <2>2. QED
    BY <2>1 DEF Init, Idle, NoticeInv
<1>2. TInv /\ TInv' /\ (faults = 0 => NoticeInv) /\ [Next]_vars => (faults = 0 => NoticeInv)'
  BY FaultFreeStep, NoticeStep
<1>3. QED
  BY <1>1, <1>2, TypesAlways, PTL DEF Spec

\* One resolution gives one notice, whether the webhook's goroutine or the root
\* that came later posts it: lastResolvedNotification is read and written under
\* the mutex, with an incident read under the same mutex.
THEOREM NoticedOnceHolds == Spec => []NoticedOnce
<1>1. (faults = 0 => NoticeInv) => NoticedOnce
  BY DEF NoticeInv, NoticedOnce
<1>2. QED
  BY <1>1, NoticeAlways, PTL

\* A notice of the incident waits for the mutex.
Waiting(i) == \E n \in 1..MaxResolutions : <<i, n>> \in notices

\* The holder of the mutex is about to post the notice of the incident.
Announcing(i) ==
    /\ poster.pc = "notice" /\ poster.inc = i
    /\ poster.detail.resolved = inc[i].resolved /\ poster.detail.thread # NoThread

\* A resolved incident with a thread has its notice, or one is on its way; who
\* posts the root knows of the resolution, or its notice still waits.
ResolutionInv ==
    /\ removed = {}
    /\ \A i \in Incidents :
          InTree(i) /\ inc[i].resolved # Firing /\ inc[i].thread # NoThread /\ ~Waiting(i)
              => notified[i] = inc[i].resolved \/ Announcing(i)
    /\ poster.pc \in {"decide", "post", "commit"} /\ inc[poster.inc].resolved # Firing /\ ~Waiting(poster.inc)
           => poster.detail.resolved = inc[poster.inc].resolved

\* Whoever holds the mutex for a notice does nothing else.
LEMMA NoticeHolder ==
    ASSUME TInv, [Next]_vars, ~Crash, poster.pc = "notice"
    PROVE  poster' = poster \/ PostNotice
<1>1. ASSUME NEW k \in Attempts,
             \/ \E r \in Rows, reply \in BOOLEAN : Start(k, r, reply)
             \/ Complete(k) \/ Fail(k) \/ Notify(k) \/ CoolOver(k)
      PROVE  poster' = poster
  BY <1>1 DEF Start, Complete, Fail, Notify, CoolOver, workVars
<1>2. ASSUME NEW i \in Incidents, Resolve(i) \/ Refire(i) \/ Trash(i) \/ Restore(i) \/ Purge(i)
      PROVE  poster' = poster
  BY <1>2 DEF Resolve, Refire, Trash, Restore, Purge, workVars
<1>3. ASSUME (\E r \in Rows : Reap(r)) \/ RetryScan \/ \E m \in DOMAIN channel : ThreadRemoved(m)
      PROVE  poster' = poster
  BY <1>3 DEF Reap, RetryScan, ThreadRemoved, workVars
<1>4. ~(\E k \in Attempts : Lock(k)) /\ ~(\E i \in Incidents : LockNotice(i))
  BY DEF Lock, LockNotice, Idle
<1>5. ~(Skip \/ Begin \/ PostAccepted \/ PostFails \/ PostFindsNoThread \/ Reset \/ Commit)
  BY DEF Skip, Begin, PostAccepted, PostFails, PostFindsNoThread, Reset, Commit
<1>6. QED
  BY <1>1, <1>2, <1>3, <1>4, <1>5 DEF Next, Deliver, vars, workVars

\* An incident that had its notice keeps it: what is posted is not older.
LEMMA StaysNotified ==
    ASSUME TInv, NoticeInv, [Next]_vars, ~Crash,
           NEW i \in Incidents, inc[i].resolved # Firing, notified[i] = inc[i].resolved
    PROVE  notified'[i] = inc[i].resolved
<1>1. notified'[i] \in Nat /\ inc[i].resolved \in Nat
  BY WorksStep, Counters, ConstantsAssumption DEF WorkStep
<1>2. notified[i] <= notified'[i] /\ notified'[i] <= inc[i].resolutions
  BY NotifiedSteps, NotifiedGrows
<1>3. inc[i].resolutions = inc[i].resolved
  BY DEF NoticeInv
<1>4. QED
  BY <1>1, <1>2, <1>3

LEMMA ResolutionStep ==
    ASSUME TInv, SilentInv, NoticeInv, ResolutionInv, [Next]_vars, faults' = 0
    PROVE  ResolutionInv'
<1>0. /\ faults = 0 /\ removed' = removed /\ ~Crash /\ faults' = faults
      /\ IncidentStep /\ NotifiedStep /\ HeldStep
  BY FaultFreeStep, IncidentSteps, NotifiedSteps, HeldSteps DEF FaultFree
<1>1. ASSUME NEW i \in Incidents, InTree(i)', inc'[i].resolved # Firing, inc'[i].thread # NoThread, ~Waiting(i)'
      PROVE  notified'[i] = inc'[i].resolved \/ Announcing(i)'
  <2>1. InTree(i) /\ inc'[i].resolved = inc[i].resolved /\ ThreadStep(i)
    BY <1>0, <1>1 DEF IncidentStep, ResolvedStep, Waiting
  <2>2. CASE Waiting(i)
    <3>1. PICK j \in Incidents : LockNotice(j)
      BY <1>0, <1>1, <2>2 DEF NotifiedStep, Waiting
    <3>2. j = i
      BY <1>1, <2>2, <3>1 DEF LockNotice, Waiting
    <3>3. poster' = [pc |-> "notice", delivery |-> 0, detail |-> inc[i], ts |-> 0, at |-> 0, inc |-> i] /\ UNCHANGED inc
      BY <2>1, <3>1, <3>2 DEF LockNotice, storeVars
    <3>4. QED
      BY <1>1, <3>3 DEF Announcing
  <2>3. CASE ~Waiting(i) /\ inc'[i].thread = inc[i].thread /\ notified[i] = inc[i].resolved
    BY <1>0, <1>1, <2>1, <2>3, StaysNotified
  <2>4. CASE ~Waiting(i) /\ inc'[i].thread = inc[i].thread /\ Announcing(i)
    <3>1. CASE poster' = poster
      BY <2>1, <2>4, <3>1 DEF Announcing
    <3>2. CASE PostNotice
      <4>1. poster.inc = i /\ poster.detail.resolved = inc[i].resolved /\ poster.detail.thread # NoThread
        BY <2>4 DEF Announcing
      <4>2. CASE NoticeDue(i)
        <5>1. notified' = [notified EXCEPT ![i] = poster.detail.resolved]
          BY <1>0, <3>2, <4>1, <4>2 DEF PostNotice, Fault, ResolutionInv
        <5>2. QED
          BY <2>1, <4>1, <5>1 DEF TInv
      <4>3. CASE ~NoticeDue(i)
        <5>1. notified[i] = inc[i].resolved
          BY <1>1, <2>1, <4>1, <4>3 DEF NoticeDue
        <5>2. QED
          BY <1>0, <1>1, <2>1, <5>1, StaysNotified
      <4>4. QED
        BY <4>2, <4>3
    <3>3. QED
      BY <1>0, <2>4, <3>1, <3>2, NoticeHolder DEF Announcing
  <2>5. CASE ~Waiting(i) /\ inc'[i].thread # inc[i].thread
    <3>1. /\ poster.pc = "commit" /\ poster.inc = i /\ poster.detail.thread = NoThread
          /\ poster' = IF CatchUp(poster.detail)
                       THEN [poster EXCEPT !.pc = "notice", !.detail.thread = poster.ts] ELSE Idle
      BY <1>1, <2>1, <2>5 DEF ThreadStep
    <3>2. poster.detail.resolved = inc[i].resolved
      BY <1>1, <2>1, <2>5, <3>1 DEF ResolutionInv
    <3>3. poster' = [poster EXCEPT !.pc = "notice", !.detail.thread = poster.ts]
      BY <1>1, <2>1, <3>1, <3>2 DEF CatchUp
    <3>4. poster.ts \in DOMAIN channel /\ poster.ts # NoThread
      <4>1. poster.ts \in 1..Len(channel) /\ Len(channel) \in Nat /\ poster.ts \in DOMAIN channel
        BY <3>1, LenProperties DEF SilentInv, TInv
      <4>2. QED
        BY <4>1 DEF NoThread
    <3>5. poster \in Poster /\ poster.detail \in Incident
      BY <3>1, PosterFields
    <3>6. /\ poster'.pc = "notice" /\ poster'.inc = i
          /\ poster'.detail = [poster.detail EXCEPT !.thread = poster.ts]
      BY <3>1, <3>3, <3>5 DEF Poster
    <3>7. poster'.detail.thread = poster.ts /\ poster'.detail.resolved = poster.detail.resolved
      BY <3>5, <3>6 DEF Incident
    <3>8. QED
      BY <2>1, <3>2, <3>4, <3>6, <3>7 DEF Announcing
  <2>6. QED
    BY <2>1, <2>2, <2>3, <2>4, <2>5, <1>1 DEF ResolutionInv
<1>2. ASSUME NEW i, i = poster'.inc, poster'.pc \in {"decide", "post", "commit"},
             inc'[i].resolved # Firing, ~Waiting(i)'
      PROVE  poster'.detail.resolved = inc'[i].resolved
  <2>1. CASE poster.pc = "idle"
    BY <1>0, <1>2, <2>1 DEF HeldStep
  <2>2. CASE poster.pc # "idle"
    <3>1. /\ poster.inc = i /\ poster'.detail.resolved = poster.detail.resolved
          /\ poster.pc \in {"decide", "post", "commit"} /\ i \in Incidents
      BY <1>0, <1>2, <2>2, PosterFields DEF HeldStep, Idle
    <3>2. inc'[i].resolved = inc[i].resolved
      BY <1>0, <1>2, <3>1 DEF IncidentStep, ResolvedStep, Waiting
    <3>3. notices \subseteq notices'
      BY <1>0, <2>2 DEF NotifiedStep, LockNotice, Idle
    <3>4. ~Waiting(i)
      BY <1>2, <3>1, <3>3 DEF Waiting
    <3>5. QED
      BY <1>2, <3>1, <3>2, <3>4 DEF ResolutionInv
  <2>3. QED
    BY <2>1, <2>2
<1>3. QED
  BY <1>0, <1>1, <1>2 DEF ResolutionInv, Waiting

\* A resolved incident with a thread has its notice once nothing is under way,
\* whichever of the resolution and the root came first: CompleteSlackAnalysisDelivery
\* announces the resolution it read, and a later one has its own goroutine.
THEOREM ResolutionNoticedHolds == Spec => []ResolutionNoticed
<1>1. Init => ResolutionInv
  BY DEF Init, Idle, NoThread, ResolutionInv
<1>2. TInv /\ SilentInv /\ (faults = 0 => NoticeInv) /\ (faults = 0 => ResolutionInv) /\ [Next]_vars
        => (faults = 0 => ResolutionInv)'
  BY FaultFreeStep, ResolutionStep
<1>3. (faults = 0 => ResolutionInv) => ResolutionNoticed
  <2>1. ASSUME ResolutionInv, poster = Idle, NEW i \in Incidents, inc[i].resolved # Firing,
               inc[i].thread # NoThread, InTree(i), ~Waiting(i)
        PROVE  notified[i] = inc[i].resolved
    BY <2>1 DEF ResolutionInv, Announcing, Idle
  <2>2. QED
    BY <2>1 DEF ResolutionNoticed, Waiting
<1>4. QED
  BY <1>1, <1>2, <1>3, TypesAlways, SilentAlways, NoticeAlways, PTL DEF Spec

-----------------------------------------------------------------------------
(* The outbox *)

LEMMA SelectedIs ==
    ASSUME NEW A, NEW list \in Seq(A), NEW S
    PROVE  /\ Selected(list, S) \in Seq(A)
           /\ Range(Selected(list, S)) \subseteq Range(list) \cap S
           /\ IsInjective(list) => IsInjective(Selected(list, S))
<1> DEFINE places  == {i \in DOMAIN list : list[i] \in S}
           upto(i) == {j \in places : j <= i}
           rank(i) == Cardinality(upto(i))
           size    == Cardinality(places)
           place(n) == CHOOSE i \in places : rank(i) = n
           f == [i \in places |-> rank(i)]
<1>1. places \subseteq Int /\ IsFiniteSet(places) /\ size \in Nat
  <2>1. Len(list) \in Nat /\ DOMAIN list = 1..Len(list)
    BY LenProperties
  <2>2. IsFiniteSet(1..Len(list)) /\ places \in SUBSET (1..Len(list))
    BY <2>1, FS_Interval
  <2> HIDE DEF places
  <2>3. IsFiniteSet(places) /\ size \in Nat
    BY <2>2, FS_Subset, FS_CardinalityType
  <2>4. places \subseteq Int
    BY <2>2
  <2>5. QED
    BY <2>3, <2>4
<1>2. Selected(list, S) = [n \in 1..size |-> list[place(n)]]
  BY DEF Selected
<1>3. \A i \in places : /\ list[i] \in A /\ list[i] \in S /\ list[i] \in Range(list) /\ i \in DOMAIN list
  BY ElementOfSeq, LenProperties DEF Range
<1> HIDE DEF places
<1>4. \A i \in places : upto(i) \in SUBSET places /\ i \in upto(i)
  BY <1>1
<1>5. \A i \in places : IsFiniteSet(upto(i)) /\ rank(i) \in Nat /\ rank(i) <= size
  <2>1. \A i \in places : IsFiniteSet(upto(i)) /\ rank(i) <= size
    BY <1>1, <1>4, FS_Subset
  <2>2. QED
    BY <2>1, FS_CardinalityType
<1>6. \A i \in places : rank(i) # 0
  <2> SUFFICES ASSUME NEW i \in places, rank(i) = 0 PROVE FALSE
    OBVIOUS
  <2>1. IsFiniteSet(upto(i)) /\ i \in upto(i)
    BY <1>4, <1>5
  <2> HIDE DEF upto
  <2>2. upto(i) = {}
    BY <2>1, FS_EmptySet
  <2>3. QED
    BY <2>1, <2>2
<1>7. \A i \in places : rank(i) \in 1..size
  <2> SUFFICES ASSUME NEW i \in places PROVE rank(i) \in 1..size
    OBVIOUS
  <2>1. size \in Nat /\ rank(i) \in Nat /\ rank(i) <= size /\ rank(i) # 0
    BY <1>1, <1>5, <1>6
  <2> HIDE DEF rank, size
  <2>2. QED
    BY <2>1
<1>8. \A i, j \in places : i < j => rank(i) # rank(j)
  <2> SUFFICES ASSUME NEW i \in places, NEW j \in places, i < j, rank(i) = rank(j) PROVE FALSE
    OBVIOUS
  <2>1. upto(i) \in SUBSET upto(j) /\ j \notin upto(i) /\ j \in upto(j)
    <3>1. i \in Int /\ j \in Int
      BY <1>1
    <3>2. \A k \in places : k <= i => k <= j
      BY <1>1, <3>1
    <3>3. j <= j /\ ~(j <= i)
      BY <3>1
    <3>4. QED
      BY <3>2, <3>3
  <2>2. IsFiniteSet(upto(j)) /\ Cardinality(upto(j)) = Cardinality(upto(i))
    BY <1>5
  <2> HIDE DEF upto
  <2>3. upto(j) = upto(i)
    BY <2>1, <2>2, FS_Subset
  <2>4. QED
    BY <2>1, <2>3
<1> HIDE DEF rank, size
<1>9. f \in Injection(places, 1..size)
  <2>1. \A i, j \in places : i # j => rank(i) # rank(j)
    BY <1>1, <1>8
  <2>2. QED
    BY <1>7, <2>1 DEF Injection, IsInjective
<1>10. IsFiniteSet(1..size) /\ Cardinality(1..size) = Cardinality(places)
  BY <1>1, FS_Interval DEF size
<1>11. f \in Surjection(places, 1..size)
  BY <1>9, <1>10, FS_Injection
<1>12. \A n \in 1..size : place(n) \in places /\ rank(place(n)) = n
  <2>1. \A n \in 1..size : \E i \in places : rank(i) = n
    BY <1>11 DEF Surjection
  <2>2. QED
    BY <2>1
<1> HIDE DEF place
<1>13. Selected(list, S) \in Seq(A)
  <2>1. Selected(list, S) \in [1..size -> A]
    BY <1>2, <1>3, <1>12
  <2>2. QED
    BY <1>1, <2>1, SeqDef
<1>14. Range(Selected(list, S)) \subseteq Range(list) \cap S
  BY <1>2, <1>3, <1>12 DEF Range
<1>15. ASSUME IsInjective(list) PROVE IsInjective(Selected(list, S))
  <2> SUFFICES ASSUME NEW m \in 1..size, NEW n \in 1..size, list[place(m)] = list[place(n)]
               PROVE  m = n
    BY <1>2 DEF IsInjective
  <2>1. place(m) = place(n)
    BY <1>3, <1>12, <1>15 DEF IsInjective
  <2>2. QED
    BY <1>12, <2>1
<1>16. QED
  BY <1>13, <1>14, <1>15

LEMMA ConcatIs ==
    ASSUME NEW A, NEW s \in Seq(A), NEW t \in Seq(A)
    PROVE  /\ s \o t \in Seq(A)
           /\ Range(s \o t) \subseteq Range(s) \cup Range(t)
           /\ IsInjective(s) /\ IsInjective(t) /\ Range(s) \cap Range(t) = {} => IsInjective(s \o t)
<1>1. /\ Len(s) \in Nat /\ Len(t) \in Nat /\ DOMAIN s = 1..Len(s) /\ DOMAIN t = 1..Len(t)
      /\ s \o t \in Seq(A) /\ Len(s \o t) = Len(s) + Len(t)
      /\ \A i \in 1..(Len(s) + Len(t)) : (s \o t)[i] = IF i <= Len(s) THEN s[i] ELSE t[i - Len(s)]
  BY LenProperties, ConcatProperties
<1>2. DOMAIN (s \o t) = 1..(Len(s) + Len(t))
  BY <1>1, LenProperties
<1>3. \A i \in 1..(Len(s) + Len(t)) :
         \/ i \in DOMAIN s /\ (s \o t)[i] = s[i]
         \/ i - Len(s) \in DOMAIN t /\ (s \o t)[i] = t[i - Len(s)]
  BY <1>1
<1>4. Range(s \o t) \subseteq Range(s) \cup Range(t)
  BY <1>2, <1>3 DEF Range
<1>5. ASSUME IsInjective(s), IsInjective(t), Range(s) \cap Range(t) = {}
      PROVE  IsInjective(s \o t)
  <2> SUFFICES ASSUME NEW i \in 1..(Len(s) + Len(t)), NEW j \in 1..(Len(s) + Len(t)),
                      (s \o t)[i] = (s \o t)[j]
               PROVE  i = j
    BY <1>2 DEF IsInjective
  <2>1. CASE i \in DOMAIN s /\ (s \o t)[i] = s[i] /\ j \in DOMAIN s /\ (s \o t)[j] = s[j]
    BY <1>5, <2>1 DEF IsInjective
  <2>2. CASE /\ i - Len(s) \in DOMAIN t /\ (s \o t)[i] = t[i - Len(s)]
             /\ j - Len(s) \in DOMAIN t /\ (s \o t)[j] = t[j - Len(s)]
    <3>1. i - Len(s) = j - Len(s)
      BY <1>5, <2>2 DEF IsInjective
    <3>2. QED
      BY <1>1, <3>1
  <2>3. CASE i \in DOMAIN s /\ (s \o t)[i] = s[i] /\ j - Len(s) \in DOMAIN t /\ (s \o t)[j] = t[j - Len(s)]
    BY <1>5, <2>3 DEF Range
  <2>4. CASE j \in DOMAIN s /\ (s \o t)[j] = s[j] /\ i - Len(s) \in DOMAIN t /\ (s \o t)[i] = t[i - Len(s)]
    BY <1>5, <2>4 DEF Range
  <2>5. QED
    BY <1>3, <2>1, <2>2, <2>3, <2>4
<1>6. QED
  BY <1>1, <1>4, <1>5

LEMMA LastsIs ==
    ASSUME NEW A, NEW s \in Seq(A), NEW m \in Nat \ {0}
    PROVE  /\ SubSeq(s, m, Len(s)) \in Seq(A)
           /\ Range(SubSeq(s, m, Len(s))) \subseteq Range(s)
           /\ IsInjective(s) => IsInjective(SubSeq(s, m, Len(s)))
<1> DEFINE e == SubSeq(s, m, Len(s))
<1>1. Len(s) \in Nat /\ DOMAIN s = 1..Len(s) /\ \A i \in m..Len(s) : s[i] \in A
  BY LenProperties, ElementOfSeq
<1>2. /\ e \in Seq(A) /\ Len(e) = (IF m <= Len(s) THEN Len(s) - m + 1 ELSE 0)
      /\ \A i \in 1..(Len(s) - m + 1) : e[i] = s[m + i - 1]
  BY <1>1, SubSeqProperties
<1> HIDE DEF e
<1>3. DOMAIN e = 1..Len(e)
  BY <1>2, LenProperties
<1>4. \A i \in DOMAIN e : i \in Int /\ m + i - 1 \in DOMAIN s /\ e[i] = s[m + i - 1]
  BY <1>1, <1>2, <1>3
<1>5. Range(e) \subseteq Range(s)
  BY <1>4 DEF Range
<1>6. ASSUME IsInjective(s) PROVE IsInjective(e)
  <2> SUFFICES ASSUME NEW i \in DOMAIN e, NEW j \in DOMAIN e, e[i] = e[j] PROVE i = j
    BY DEF IsInjective
  <2>1. m + i - 1 = m + j - 1
    BY <1>4, <1>6 DEF IsInjective
  <2>2. QED
    BY <1>4, <2>1
<1>7. QED
  BY <1>2, <1>5, <1>6 DEF e

\* The cap drops entries, and adds none.
LEMMA TrimmedIs ==
    ASSUME NEW A, A \subseteq Attempts, NEW list \in Seq(A), IsInjective(list), NEW ents
    PROVE  /\ Trimmed(list, ents) \in Seq(A) /\ IsInjective(Trimmed(list, ents))
           /\ Range(Trimmed(list, ents)) \subseteq Range(list)
<1> DEFINE open == Selected(list, {k \in Attempts : ents[k].status = "pending"})
           done == Selected(list, {k \in Attempts : ents[k].status # "pending"})
           room == OutboxCap - Len(open)
           kept == IF room > 0 /\ Len(done) > room
                   THEN SubSeq(done, Len(done) - room + 1, Len(done)) ELSE done
<1>1. /\ open \in Seq(A) /\ IsInjective(open) /\ Range(open) \subseteq Range(list)
      /\ done \in Seq(A) /\ IsInjective(done) /\ Range(done) \subseteq Range(list)
      /\ Range(open) \cap Range(done) = {}
  <2>1. /\ open \in Seq(A) /\ IsInjective(open)
        /\ Range(open) \subseteq Range(list) \cap {k \in Attempts : ents[k].status = "pending"}
    BY SelectedIs
  <2>2. /\ done \in Seq(A) /\ IsInjective(done)
        /\ Range(done) \subseteq Range(list) \cap {k \in Attempts : ents[k].status # "pending"}
    BY SelectedIs
  <2> HIDE DEF open, done
  <2>3. QED
    BY <2>1, <2>2
<1>2. Trimmed(list, ents) = IF Len(list) > OutboxCap THEN kept \o open ELSE list
  BY DEF Trimmed
<1> HIDE DEF open, done
<1>3. kept \in Seq(A) /\ IsInjective(kept) /\ Range(kept) \subseteq Range(done)
  <2>1. CASE room > 0 /\ Len(done) > room
    <3>1. Len(done) - room + 1 \in Nat \ {0}
      BY <1>1, <2>1, LenProperties, ConstantsAssumption
    <3> HIDE DEF room
    <3>2. QED
      BY <1>1, <2>1, <3>1, LastsIs
  <2>2. CASE ~(room > 0 /\ Len(done) > room)
    BY <1>1, <2>2
  <2>3. QED
    BY <2>1, <2>2
<1> HIDE DEF kept
<1>4. /\ kept \o open \in Seq(A) /\ IsInjective(kept \o open)
      /\ Range(kept \o open) \subseteq Range(list)
  BY <1>1, <1>3, ConcatIs
<1>5. QED
  BY <1>2, <1>4

LEMMA AppendIs ==
    ASSUME NEW A, NEW list \in Seq(A), NEW k \in A
    PROVE  /\ Append(list, k) \in Seq(A)
           /\ Range(Append(list, k)) \subseteq Range(list) \cup {k}
           /\ IsInjective(list) /\ k \notin Range(list) => IsInjective(Append(list, k))
<1>1. /\ Len(list) \in Nat /\ DOMAIN list = 1..Len(list)
      /\ Append(list, k) \in Seq(A) /\ Len(Append(list, k)) = Len(list) + 1
      /\ \A i \in 1..Len(list) : Append(list, k)[i] = list[i]
      /\ Append(list, k)[Len(list) + 1] = k
  BY LenProperties, AppendProperties
<1>2. DOMAIN Append(list, k) = 1..(Len(list) + 1)
  BY <1>1, LenProperties
<1>3. \A i \in DOMAIN Append(list, k) : i \in DOMAIN list \/ i = Len(list) + 1
  BY <1>1, <1>2
<1>4. Range(Append(list, k)) \subseteq Range(list) \cup {k}
  BY <1>1, <1>3 DEF Range
<1>5. ASSUME IsInjective(list), k \notin Range(list) PROVE IsInjective(Append(list, k))
  BY <1>1, <1>3, <1>5 DEF IsInjective, Range
<1>6. QED
  BY <1>1, <1>4, <1>5

\* A row's outbox holds completed attempts, each once.
Finished == {k \in Attempts : attempt[k].pc \notin {"none", "running"}}

OutInv ==
    /\ outbox \in [Rows -> Seq(Finished)]
    /\ \A r \in Rows : IsInjective(outbox[r])

\* Only Enqueue brings an attempt into an outbox, or gives its entry a time.
Queues(k) == entry'[k].at = stamp + 1 /\ stamp' = stamp + 1

OutboxStep ==
    /\ outbox' \in [Rows -> Seq(Finished')]
    /\ \A r \in Rows : /\ IsInjective(outbox'[r])
                       /\ \A k \in Range(outbox'[r]) : k \in Range(outbox[r]) \/ Queues(k)

EntryTimes ==
    \A k \in Attempts :
        entry'[k].status = "pending" =>
            \/ entry[k].status = "pending" /\ entry'[k].at = entry[k].at
            \/ Queues(k)

LEMMA OutboxTypes ==
    ASSUME OutInv, NEW r \in Rows
    PROVE  outbox[r] \in Seq(Finished) /\ IsInjective(outbox[r])
BY DEF OutInv

LEMMA OutboxStays ==
    ASSUME OutInv, Finished \subseteq Finished', UNCHANGED outbox
    PROVE  OutboxStep
<1>1. \A r \in Rows : outbox[r] \in Seq(Finished')
  BY OutboxTypes, SeqMonotonic
<1>2. outbox' \in [Rows -> Seq(Finished')]
  BY <1>1 DEF OutInv
<1>3. QED
  BY <1>2 DEF OutInv, OutboxStep

LEMMA OutboxWritten ==
    ASSUME OutInv, Finished \subseteq Finished', NEW r \in Rows,
           NEW list \in Seq(Finished'), IsInjective(list), NEW ents,
           \A k \in Range(list) : k \in Range(outbox[r]) \/ Queues(k),
           outbox' = [outbox EXCEPT ![r] = Trimmed(list, ents)]
    PROVE  OutboxStep
<1>1. \A q \in Rows : outbox[q] \in Seq(Finished')
  BY OutboxTypes, SeqMonotonic
<1>2. Finished' \subseteq Attempts
  BY DEF Finished, Attempts
<1>3. /\ Trimmed(list, ents) \in Seq(Finished') /\ IsInjective(Trimmed(list, ents))
      /\ Range(Trimmed(list, ents)) \subseteq Range(list)
  BY <1>2, TrimmedIs
<1>4. /\ outbox' \in [Rows -> Seq(Finished')] /\ outbox'[r] = Trimmed(list, ents)
      /\ \A q \in Rows : q # r => outbox'[q] = outbox[q]
  BY <1>1, <1>3 DEF OutInv
<1>5. ASSUME NEW q \in Rows
      PROVE  /\ IsInjective(outbox'[q])
             /\ \A k \in Range(outbox'[q]) : k \in Range(outbox[q]) \/ Queues(k)
  <2>1. CASE q = r
    BY <1>3, <1>4, <2>1
  <2>2. CASE q # r
    BY <1>4, <2>2, OutboxTypes
  <2>3. QED
    BY <2>1, <2>2
<1>6. QED
  BY <1>4, <1>5 DEF OutboxStep

LEMMA OutboxUpdated ==
    ASSUME OutInv, Finished \subseteq Finished', NEW r \in Rows, NEW ents,
           outbox' = [outbox EXCEPT ![r] = Trimmed(outbox[r], ents)]
    PROVE  OutboxStep
<1>1. outbox[r] \in Seq(Finished') /\ IsInjective(outbox[r])
  BY OutboxTypes, SeqMonotonic
<1>2. QED
  BY <1>1, OutboxWritten

LEMMA OutboxEnqueued ==
    ASSUME TInv, OutInv, Finished \subseteq Finished', NEW k \in Finished', RowOf(k) \in Rows,
           k \notin Range(outbox[RowOf(k)]), Enqueue(k)
    PROVE  OutboxStep
<1> DEFINE list == Append(outbox[RowOf(k)], k)
           ents == [entry EXCEPT ![k] = NewEntry(stamp + 1)]
<1>1. outbox[RowOf(k)] \in Seq(Finished') /\ IsInjective(outbox[RowOf(k)])
  BY OutboxTypes, SeqMonotonic
<1>2. list \in Seq(Finished') /\ IsInjective(list) /\ Range(list) \subseteq Range(outbox[RowOf(k)]) \cup {k}
  BY <1>1, AppendIs
<1>3. /\ outbox' = [outbox EXCEPT ![RowOf(k)] = Trimmed(list, ents)]
      /\ entry' = ents /\ stamp' = stamp + 1
  BY DEF Enqueue, WriteOutbox
<1>4. k \in Attempts /\ NewEntry(stamp + 1).at = stamp + 1
  BY DEF Finished, NewEntry, Attempts
<1>5. entry'[k].at = stamp + 1
  BY <1>3, <1>4 DEF TInv
<1> HIDE DEF list, ents
<1>6. \A j \in Range(list) : j \in Range(outbox[RowOf(k)]) \/ Queues(j)
  BY <1>2, <1>3, <1>5 DEF Queues
<1>7. QED
  BY <1>2, <1>3, <1>6, OutboxWritten

\* Attempts that completed stay completed.
LEMMA FinishedStep ==
    ASSUME TInv, [Next]_vars
    PROVE  Finished \subseteq Finished'
<1> USE DEF Finished, Attempts
<1>0. attempt \in [Attempts -> Attempt \cup {NoAttempt}]
  BY DEF TInv
<1>1. CASE UNCHANGED attempt
  BY <1>1
<1>2. ASSUME NEW k \in Attempts, NEW r \in Rows, NEW reply \in BOOLEAN, Start(k, r, reply)
      PROVE  Finished \subseteq Finished'
  BY <1>0, <1>2 DEF Start, NoAttempt
<1>3. ASSUME NEW k \in Attempts, Complete(k) \/ Fail(k) \/ Notify(k) PROVE Finished \subseteq Finished'
  <2>1. PICK pc \in {"completed", "applied", "refused", "ended"} : Goto(k, pc)
    BY <1>3 DEF Complete, Fail, Notify
  <2>2. attempt' = [attempt EXCEPT ![k] = [attempt[k] EXCEPT !.pc = pc]]
    BY <2>1 DEF Goto
  <2>3. attempt[k] \in Attempt
    BY <1>0, <1>3 DEF Complete, Fail, Notify, NoAttempt
  <2>4. [attempt[k] EXCEPT !.pc = pc].pc = pc
    BY <2>3 DEF Attempt
  <2>5. QED
    BY <1>0, <2>2, <2>4
<1>4. CASE Crash
  <2> SUFFICES ASSUME NEW k \in Finished PROVE k \in Finished'
    OBVIOUS
  <2>1. attempt'[k] = IF attempt[k].pc \in {"running", "completed"}
                      THEN [attempt[k] EXCEPT !.pc = "ended"] ELSE attempt[k]
    BY <1>4 DEF Crash
  <2>2. attempt[k] \in Attempt
    BY <1>0 DEF NoAttempt
  <2>3. [attempt[k] EXCEPT !.pc = "ended"].pc = "ended"
    BY <2>2 DEF Attempt
  <2>4. QED
    BY <2>1, <2>3
<1>5. ASSUME NEW k \in Attempts, CoolOver(k) \/ Lock(k) PROVE UNCHANGED attempt
  BY <1>5 DEF CoolOver, Lock, storeVars
<1>6. ASSUME NEW i \in Incidents,
             Resolve(i) \/ Refire(i) \/ Trash(i) \/ Restore(i) \/ Purge(i) \/ LockNotice(i)
      PROVE  UNCHANGED attempt
  BY <1>6 DEF Resolve, Refire, Trash, Restore, Purge, LockNotice, storeVars
<1>7. ASSUME (\E r \in Rows : Reap(r)) \/ RetryScan \/ \E m \in DOMAIN channel : ThreadRemoved(m)
      PROVE  UNCHANGED attempt
  BY <1>7 DEF Reap, RetryScan, ThreadRemoved, storeVars
<1>8. ASSUME Deliver PROVE UNCHANGED attempt
  BY <1>8 DEF Deliver, Skip, Begin, PostAccepted, PostFails, PostFindsNoThread, Reset, Commit, PostNotice, storeVars
<1>9. QED
  BY <1>1, <1>2, <1>3, <1>4, <1>5, <1>6, <1>7, <1>8 DEF Next, vars, storeVars

LEMMA UpdatedOutbox ==
    ASSUME TInv, OutInv, Finished \subseteq Finished', NEW k \in Attempts, attempt[k] # NoAttempt,
           NEW e, UpdateEntry(k, e)
    PROVE  OutboxStep
<1>1. RowOf(k) \in Rows
  BY AttemptPlace DEF TInv
<1>2. QED
  BY <1>1, OutboxUpdated DEF UpdateEntry, WriteOutbox

LEMMA OutboxSteps ==
    ASSUME TInv, OutInv, [Next]_vars
    PROVE  OutboxStep
<1>0. Finished \subseteq Finished'
  BY FinishedStep
<1>1. CASE UNCHANGED outbox
  BY <1>0, <1>1, OutboxStays
<1>2. ASSUME NEW k \in Attempts, NEW r \in Rows, NEW reply \in BOOLEAN, Start(k, r, reply)
      PROVE  OutboxStep
  <2>1. outbox' = [outbox EXCEPT ![r] = Trimmed(outbox[r], entry)]
    BY <1>2 DEF Start
  <2>2. QED
    BY <1>0, <2>1, OutboxUpdated
<1>3. ASSUME NEW k \in Attempts, Complete(k) PROVE OutboxStep
  <2>1. attempt[k] \in Attempt /\ attempt[k].pc = "running"
    BY <1>3 DEF Complete, TInv, NoAttempt
  <2>2. RowOf(k) \in Rows
    BY <2>1, AttemptPlace
  <2>3. k \notin Range(outbox[RowOf(k)])
    <3>1. outbox[RowOf(k)] \in Seq(Finished) /\ k \notin Finished
      BY <2>1, <2>2, OutboxTypes DEF Finished
    <3>2. QED
      BY <3>1, ElementOfSeq, LenProperties DEF Range
  <2>4. CASE Goto(k, "completed") /\ Enqueue(k)
    <3>1. attempt'[k] = [attempt[k] EXCEPT !.pc = "completed"]
      BY <2>4 DEF Goto, TInv
    <3>2. k \in Finished'
      BY <2>1, <3>1 DEF Finished, Attempts, Attempt
    <3>3. QED
      BY <1>0, <2>2, <2>3, <2>4, <3>2, OutboxEnqueued
  <2>5. QED
    BY <1>1, <1>3, <2>4 DEF Complete
<1>4. ASSUME NEW k \in Attempts, Fail(k) PROVE OutboxStep
  <2>1. CASE MarkFailed(RowOf(k))
    <3> DEFINE j == shown[RowOf(k)]
    <3>1. CASE j \in Attempts /\ Pending(j) /\ UpdateEntry(j, [entry[j] EXCEPT !.status = "skipped"])
      BY <1>0, <3>1, UpdatedOutbox DEF Pending, Queued
    <3>2. QED
      BY <1>1, <2>1, <3>1 DEF MarkFailed
  <2>2. CASE UNCHANGED outbox
    BY <1>1, <2>2
  <2>3. QED
    BY <1>4, <2>1, <2>2 DEF Fail
<1>5. ASSUME NEW k \in Attempts, Notify(k) PROVE OutboxStep
  <2>1. attempt[k] \in Attempt /\ attempt[k].pc = "completed" /\ attempt[k] # NoAttempt
    BY <1>5 DEF Notify, TInv, NoAttempt
  <2>2. RowOf(k) \in Rows
    BY <2>1, AttemptPlace
  <2>3. CASE ~Queued(k) /\ Enqueue(k)
    <3>1. k \in Finished'
      BY <1>0, <2>1 DEF Finished
    <3>2. QED
      BY <1>0, <2>1, <2>2, <2>3, <3>1, OutboxEnqueued DEF Queued
  <2>4. QED
    BY <1>1, <1>5, <2>3 DEF Notify
<1>6. ASSUME NEW i \in Incidents, Purge(i) PROVE OutboxStep
  <2>1. outbox' = [r \in Rows |-> IF IncidentOf[r] = i THEN <<>> ELSE outbox[r]]
    BY <1>6 DEF Purge
  <2>2. \A r \in Rows : outbox[r] \in Seq(Finished') /\ IsInjective(outbox[r])
    BY <1>0, OutboxTypes, SeqMonotonic
  <2>3. <<>> \in Seq(Finished') /\ IsInjective(<<>>) /\ Range(<<>>) = {}
    BY EmptySeq DEF IsInjective, Range
  <2>4. outbox' \in [Rows -> Seq(Finished')]
    BY <2>1, <2>2, <2>3
  <2>5. QED
    BY <2>1, <2>2, <2>3, <2>4 DEF OutboxStep
<1>7. CASE Skip
  <2>1. CASE Pending(poster.delivery) /\ UpdateEntry(poster.delivery, [entry[poster.delivery] EXCEPT !.status = "skipped"])
    <3>1. poster.delivery \in Attempts
      BY <1>7 DEF Skip, TInv, Made
    <3>2. QED
      BY <1>0, <2>1, <3>1, UpdatedOutbox DEF Pending, Queued
  <2>2. QED
    BY <1>1, <1>7, <2>1 DEF Skip
<1>8. CASE Begin
  <2>1. CASE IsHead(poster.delivery) /\ UpdateEntry(poster.delivery, [entry[poster.delivery] EXCEPT !.cooling = TRUE])
    <3>1. poster.delivery \in Attempts
      BY <1>8 DEF Begin, TInv, Made
    <3>2. QED
      BY <1>0, <2>1, <3>1, UpdatedOutbox DEF IsHead, Pending, Queued
  <2>2. QED
    BY <1>1, <1>8, <2>1 DEF Begin
<1>9. CASE Commit
  <2>1. CASE Queued(poster.delivery) /\ Acknowledge(poster.delivery, poster.inc)
    <3>1. poster.delivery \in Attempts
      BY <1>9 DEF Commit, TInv, Made
    <3>2. \E e : UpdateEntry(poster.delivery, e)
      BY <2>1 DEF Acknowledge
    <3>3. QED
      BY <1>0, <2>1, <3>1, <3>2, UpdatedOutbox DEF Queued
  <2>2. QED
    BY <1>1, <1>9, <2>1 DEF Commit
<1>10. ASSUME NEW k \in Attempts, CoolOver(k) \/ Lock(k) PROVE UNCHANGED outbox
  BY <1>10 DEF CoolOver, Lock, storeVars
<1>11. ASSUME NEW i \in Incidents,
              Resolve(i) \/ Refire(i) \/ Trash(i) \/ Restore(i) \/ LockNotice(i)
      PROVE  UNCHANGED outbox
  BY <1>11 DEF Resolve, Refire, Trash, Restore, LockNotice, storeVars
<1>12. ASSUME (\E r \in Rows : Reap(r)) \/ RetryScan \/ Crash \/ \E m \in DOMAIN channel : ThreadRemoved(m)
      PROVE  UNCHANGED outbox
  BY <1>12 DEF Reap, RetryScan, Crash, ThreadRemoved, storeVars
<1>13. ASSUME PostAccepted \/ PostFails \/ PostFindsNoThread \/ Reset \/ PostNotice
      PROVE  UNCHANGED outbox
  BY <1>13 DEF PostAccepted, PostFails, PostFindsNoThread, Reset, PostNotice, storeVars
<1>14. QED
  BY <1>1, <1>2, <1>3, <1>4, <1>5, <1>6, <1>7, <1>8, <1>9, <1>10, <1>11, <1>12, <1>13
     DEF Next, Deliver, vars, storeVars

LEMMA OutInvStep == TInv /\ OutInv /\ [Next]_vars => OutInv'
BY OutboxSteps DEF OutInv, OutboxStep

(* Times *)

LEMMA OneTime ==
    ASSUME TInv, NEW k \in Attempts, NEW e, entry' = [entry EXCEPT ![k] = e],
           e.status = "pending" => entry[k].status = "pending" /\ e.at = entry[k].at
    PROVE  EntryTimes
BY DEF TInv, EntryTimes

LEMMA NewTime ==
    ASSUME TInv, NEW k \in Attempts, Enqueue(k)
    PROVE  EntryTimes
<1>1. entry' = [entry EXCEPT ![k] = NewEntry(stamp + 1)] /\ stamp' = stamp + 1
  BY DEF Enqueue, WriteOutbox
<1>2. NewEntry(stamp + 1).at = stamp + 1
  BY DEF NewEntry
<1>3. QED
  BY <1>1, <1>2 DEF TInv, EntryTimes, Queues

LEMMA SkippedTime ==
    ASSUME TInv, NEW k \in Attempts, Pending(k), UpdateEntry(k, [entry[k] EXCEPT !.status = "skipped"])
    PROVE  EntryTimes
<1>1. entry[k] \in Entry
  BY EntryKnown DEF Pending
<1>2. [entry[k] EXCEPT !.status = "skipped"].status = "skipped"
  BY <1>1 DEF Entry
<1>3. QED
  BY <1>2, OneTime DEF UpdateEntry, WriteOutbox

LEMMA CooledTime ==
    ASSUME TInv, NEW k \in Attempts, Pending(k), NEW c \in BOOLEAN,
           entry' = [entry EXCEPT ![k] = [entry[k] EXCEPT !.cooling = c]]
    PROVE  EntryTimes
<1>1. entry[k] \in Entry /\ entry[k].status = "pending"
  BY EntryKnown DEF Pending
<1>2. [entry[k] EXCEPT !.cooling = c].at = entry[k].at
  BY <1>1 DEF Entry
<1>3. QED
  BY <1>1, <1>2, OneTime

LEMMA EntryTimesStep ==
    ASSUME TInv, [Next]_vars
    PROVE  EntryTimes /\ stamp' \in {stamp, stamp + 1}
<1>1. CASE UNCHANGED <<entry, stamp>>
  BY <1>1 DEF EntryTimes
<1>2. ASSUME NEW k \in Attempts, Complete(k) \/ Notify(k)
      PROVE  EntryTimes /\ stamp' \in {stamp, stamp + 1}
  BY <1>1, <1>2, NewTime DEF Complete, Notify, Enqueue
<1>3. ASSUME NEW k \in Attempts, Fail(k) PROVE EntryTimes /\ UNCHANGED stamp
  <2>1. CASE MarkFailed(RowOf(k))
    BY <1>1, <1>3, <2>1, SkippedTime DEF MarkFailed, Fail
  <2>2. CASE UNCHANGED entry
    BY <1>1, <1>3, <2>2 DEF Fail
  <2>3. QED
    BY <1>3, <2>1, <2>2 DEF Fail
<1>4. ASSUME NEW k \in Attempts, CoolOver(k) PROVE EntryTimes /\ UNCHANGED stamp
  <2>1. Pending(k) /\ entry' = [entry EXCEPT ![k] = [entry[k] EXCEPT !.cooling = FALSE]]
    BY <1>4 DEF CoolOver
  <2>2. QED
    BY <1>4, <2>1, CooledTime DEF CoolOver
<1>5. CASE Skip
  BY <1>1, <1>5, SkippedTime DEF Skip, TInv, Made
<1>6. CASE Begin
  <2>1. CASE IsHead(poster.delivery) /\ UpdateEntry(poster.delivery, [entry[poster.delivery] EXCEPT !.cooling = TRUE])
    <3>1. poster.delivery \in Attempts
      BY <1>6 DEF Begin, TInv, Made
    <3>2. QED
      BY <1>6, <2>1, <3>1, CooledTime DEF Begin, IsHead, UpdateEntry, WriteOutbox
  <2>2. QED
    BY <1>1, <1>6, <2>1 DEF Begin
<1>7. CASE Commit
  <2>1. CASE Acknowledge(poster.delivery, poster.inc)
    <3> DEFINE k == poster.delivery
    <3>1. k \in Attempts /\ entry[k] \in Entry
      BY <1>7 DEF Commit, TInv, Made
    <3>2. \E s, t : entry' = [entry EXCEPT ![k] = [entry[k] EXCEPT !.status = "delivered", !.ts = poster.ts,
                                                                  !.seq = s, !.thread = t]]
      BY <2>1 DEF Acknowledge, UpdateEntry, WriteOutbox
    <3>3. \A s, t : [entry[k] EXCEPT !.status = "delivered", !.ts = poster.ts,
                                     !.seq = s, !.thread = t].status = "delivered"
      BY <3>1 DEF Entry
    <3>4. QED
      BY <1>7, <3>1, <3>2, <3>3, OneTime DEF Commit
  <2>2. QED
    BY <1>1, <1>7, <2>1 DEF Commit
<1>8. ASSUME NEW k \in Attempts, (\E r \in Rows, reply \in BOOLEAN : Start(k, r, reply)) \/ Lock(k)
      PROVE  UNCHANGED <<entry, stamp>>
  BY <1>8 DEF Start, Lock, storeVars
<1>9. ASSUME NEW i \in Incidents,
             Resolve(i) \/ Refire(i) \/ Trash(i) \/ Restore(i) \/ Purge(i) \/ LockNotice(i)
      PROVE  UNCHANGED <<entry, stamp>>
  BY <1>9 DEF Resolve, Refire, Trash, Restore, Purge, LockNotice, storeVars
<1>10. ASSUME (\E r \in Rows : Reap(r)) \/ RetryScan \/ Crash \/ \E m \in DOMAIN channel : ThreadRemoved(m)
      PROVE  UNCHANGED <<entry, stamp>>
  BY <1>10 DEF Reap, RetryScan, Crash, ThreadRemoved, storeVars
<1>11. ASSUME PostAccepted \/ PostFails \/ PostFindsNoThread \/ Reset \/ PostNotice
      PROVE  UNCHANGED <<entry, stamp>>
  BY <1>11 DEF PostAccepted, PostFails, PostFindsNoThread, Reset, PostNotice, storeVars
<1>12. QED
  BY <1>1, <1>2, <1>3, <1>4, <1>5, <1>6, <1>7, <1>8, <1>9, <1>10, <1>11 DEF Next, Deliver, vars, storeVars

-----------------------------------------------------------------------------
(* The order of an incident's messages *)

\* No message of incident i is of a result queued after t.
NoLater(i, t) == \A m \in Analyses(i) : channel[m].at <= t

\* A delivery that is queued, or that the holder of the mutex has begun, is of
\* no earlier result than the messages its incident has; one that was begun is
\* of no later result than those still pending.
OrderInv ==
    /\ \A k \in Attempts : Pending(k) => entry[k].at <= stamp /\ NoLater(IncOf(k), entry[k].at)
    /\ \A m \in DOMAIN channel : channel[m].delivery # 0 => channel[m].at <= stamp
    /\ poster.pc \in {"decide", "post"} => poster.inc = IncOf(poster.delivery)
    /\ poster.pc = "post" =>
          /\ poster.at <= stamp /\ NoLater(poster.inc, poster.at)
          /\ \A k \in Attempts : Pending(k) /\ IncOf(k) = poster.inc => poster.at <= entry[k].at
    /\ PostedInOrder

LEMMA PendingTime ==
    ASSUME TInv, NEW k \in Attempts, Pending(k)
    PROVE  entry[k].at \in Nat
<1>1. entry[k] \in Entry
  BY EntryKnown DEF Pending
<1>2. QED
  BY <1>1 DEF Entry

LEMMA PendingStep ==
    ASSUME TInv, TInv', OutInv, [Next]_vars, NEW k \in Attempts, Pending(k)'
    PROVE  \/ Pending(k) /\ entry'[k].at = entry[k].at /\ IncOf(k)' = IncOf(k)
           \/ Queues(k)
<1>1. /\ attempt'[k] # NoAttempt /\ k \in Range(outbox'[RowOf(k)']) /\ entry'[k].status = "pending"
  BY DEF Pending, Queued
<1>2. RowOf(k)' \in Rows
  <2>1. attempt'[k] \in Attempt
    BY <1>1 DEF TInv
  <2>2. QED
    BY <2>1 DEF RowOf, Attempt
<1>3. k \in Range(outbox[RowOf(k)']) \/ Queues(k)
  BY <1>1, <1>2, OutboxSteps DEF OutboxStep
<1>4. CASE k \in Range(outbox[RowOf(k)'])
  <2>1. outbox[RowOf(k)'] \in Seq(Finished)
    BY <1>2, OutboxTypes
  <2>2. k \in Finished
    BY <1>4, <2>1, ElementOfSeq, LenProperties DEF Range
  <2>3. k \in Made
    BY <2>2 DEF Finished, Made, NoAttempt, Attempts
  <2>4. RowOf(k)' = RowOf(k) /\ IncOf(k)' = IncOf(k)
    BY <2>3, AttemptsStep DEF AttemptStep, RowOf, IncOf
  <2>5. (entry[k].status = "pending" /\ entry'[k].at = entry[k].at) \/ Queues(k)
    BY <1>1, EntryTimesStep DEF EntryTimes
  <2>6. QED
    BY <1>4, <2>3, <2>4, <2>5 DEF Pending, Queued, Made
<1>5. QED
  BY <1>3, <1>4

LEMMA MessageStep ==
    ASSUME TInv, [Next]_vars, NEW m \in DOMAIN channel', channel'[m].delivery # 0
    PROVE  \/ m \in DOMAIN channel /\ channel'[m] = channel[m]
           \/ /\ poster.pc = "post" /\ channel'[m].at = poster.at /\ channel'[m].inc = poster.inc
              /\ \A n \in DOMAIN channel' : n <= m
<1>1. CASE UNCHANGED channel
  BY <1>1
<1>2. CASE poster.pc = "post" /\ Posted(AnalysisMessage(poster.delivery))
  <2>1. AnalysisMessage(poster.delivery) \in Message
    BY <1>2, AnalysisMessageType
  <2>2. AnalysisMessage(poster.delivery).at = poster.at /\ AnalysisMessage(poster.delivery).inc = poster.inc
    BY DEF AnalysisMessage
  <2>3. QED
    BY <1>2, <2>1, <2>2, AppendStep
<1>3. CASE poster.pc = "notice" /\ Posted([inc |-> poster.inc, delivery |-> 0, thread |-> poster.detail.thread,
                                          label |-> poster.detail.resolved, at |-> 0])
  <2> DEFINE msg == [inc |-> poster.inc, delivery |-> 0, thread |-> poster.detail.thread,
                     label |-> poster.detail.resolved, at |-> 0]
  <2>1. msg \in Message
    BY <1>3, NoticeType
  <2>2. msg.delivery = 0
    OBVIOUS
  <2> HIDE DEF msg
  <2>3. QED
    BY <1>3, <2>1, <2>2, AppendStep DEF msg
<1>4. QED
  BY <1>1, <1>2, <1>3, ChannelSteps DEF ChannelStep

LEMMA ChannelNats ==
    ASSUME TInv
    PROVE  DOMAIN channel \subseteq Nat /\ \A m \in DOMAIN channel : channel[m].at \in Nat
<1>1. channel \in Seq(Message) /\ Len(channel) \in Nat /\ DOMAIN channel = 1..Len(channel)
  BY LenProperties DEF TInv
<1>2. \A m \in DOMAIN channel : channel[m] \in Message
  BY <1>1, ElementOfSeq
<1>3. QED
  BY <1>1, <1>2 DEF Message

\* The next state has no message of i later than t, if this one has not and a
\* delivery that has been begun is not.
LEMMA NoLaterStep ==
    ASSUME TInv, [Next]_vars, NEW i, NEW t \in Nat, \A m \in Analyses(i) : channel[m].at <= t,
           poster.pc = "post" /\ poster.inc = i => poster.at <= t,
           NEW m \in DOMAIN channel', channel'[m].inc = i, channel'[m].delivery # 0
    PROVE  channel'[m].at <= t
BY MessageStep DEF Analyses

LEMMA NoLaterThanNow ==
    ASSUME TInv, OrderInv, [Next]_vars, NEW m \in DOMAIN channel', channel'[m].delivery # 0
    PROVE  channel'[m].at <= stamp
<1>1. CASE m \in DOMAIN channel /\ channel'[m] = channel[m]
  BY <1>1 DEF OrderInv
<1>2. CASE poster.pc = "post" /\ channel'[m].at = poster.at
  BY <1>2 DEF OrderInv
<1>3. QED
  BY <1>1, <1>2, MessageStep

\* The times of the next state's messages are numbers.
LEMMA NextNats ==
    ASSUME TInv'
    PROVE  DOMAIN channel' \subseteq Nat /\ \A m \in DOMAIN channel' : channel'[m].at \in Nat
<1>1. channel' \in Seq(Message) /\ Len(channel') \in Nat /\ DOMAIN channel' = 1..Len(channel')
  BY LenProperties DEF TInv
<1>2. \A m \in DOMAIN channel' : channel'[m] \in Message
  BY <1>1, ElementOfSeq
<1>3. QED
  BY <1>1, <1>2 DEF Message

LEMMA OrderPending ==
    ASSUME TInv, TInv', OutInv, OrderInv, [Next]_vars, NEW k \in Attempts, Pending(k)'
    PROVE  /\ entry'[k].at <= stamp'
           /\ \A m \in DOMAIN channel' :
                 channel'[m].inc = IncOf(k)' /\ channel'[m].delivery # 0 => channel'[m].at <= entry'[k].at
<1>1. stamp \in Nat /\ stamp' \in {stamp, stamp + 1}
  BY EntryTimesStep DEF TInv
<1>2. CASE Queues(k)
  <2>1. entry'[k].at = stamp + 1 /\ stamp' = stamp + 1
    BY <1>2 DEF Queues
  <2>2. \A m \in DOMAIN channel' : channel'[m].delivery # 0 => channel'[m].at <= stamp + 1
    BY <1>1, NoLaterThanNow, NextNats
  <2>3. QED
    BY <1>1, <2>1, <2>2
<1>3. CASE Pending(k) /\ entry'[k].at = entry[k].at /\ IncOf(k)' = IncOf(k)
  <2>1. entry[k].at \in Nat /\ entry[k].at <= stamp /\ NoLater(IncOf(k), entry[k].at)
    BY <1>3, PendingTime DEF OrderInv
  <2>2. poster.pc = "post" /\ poster.inc = IncOf(k) => poster.at <= entry[k].at
    BY <1>3 DEF OrderInv
  <2>3. \A m \in DOMAIN channel' :
           channel'[m].inc = IncOf(k) /\ channel'[m].delivery # 0 => channel'[m].at <= entry[k].at
    BY <2>1, <2>2, NoLaterStep DEF NoLater
  <2>4. QED
    BY <1>1, <1>3, <2>1, <2>3
<1>4. QED
  BY <1>2, <1>3, PendingStep

\* Where the holder of the mutex is at, and how it got there.
LEMMA HolderStep ==
    ASSUME TInv, OrderInv, [Next]_vars, poster'.pc \in {"decide", "post"}
    PROVE  \/ poster' = poster
           \/ \E k \in Made : /\ poster'.pc = "decide" /\ poster'.delivery = k /\ poster'.inc = IncOf(k)
           \/ /\ poster.pc = "decide" /\ poster'.pc = "post" /\ IsHead(poster.delivery)
              /\ poster'.delivery = poster.delivery /\ poster'.inc = poster.inc
              /\ poster'.at = entry[poster.delivery].at
<1>1. ASSUME NEW k \in Attempts, Lock(k)
      PROVE  k \in Made /\ poster'.pc = "decide" /\ poster'.delivery = k /\ poster'.inc = IncOf(k)
  BY <1>1, LockStep
<1>2. ~\E i \in Incidents : LockNotice(i) /\ InTree(i)
  BY DEF LockNotice
<1>3. ~PostAccepted
  BY AcceptedStep, PosterFields DEF Poster
<1>4. CASE /\ poster.pc = "decide" /\ poster' = [poster EXCEPT !.pc = "post", !.at = entry[poster.delivery].at]
           /\ IsHead(poster.delivery)
  BY <1>4, PosterFields DEF Poster
<1>5. ASSUME poster.pc = "post", poster' = [poster EXCEPT !.pc = "reset"] PROVE FALSE
  BY <1>5, PosterFields DEF Poster
<1>6. ASSUME poster.pc = "commit", poster' = [poster EXCEPT !.pc = "notice", !.detail.thread = poster.ts]
      PROVE  FALSE
  BY <1>6, PosterFields DEF Poster
<1>7. QED
  BY <1>1, <1>2, <1>3, <1>4, <1>5, <1>6, PosterSteps DEF PosterStep, Idle

LEMMA OrderHolder ==
    ASSUME TInv, TInv', OutInv, OrderInv, [Next]_vars
    PROVE  /\ poster'.pc \in {"decide", "post"} => poster'.inc = IncOf(poster.delivery)'
           /\ poster'.pc = "post" =>
                 /\ poster'.at <= stamp'
                 /\ \A m \in DOMAIN channel' :
                       channel'[m].inc = poster'.inc /\ channel'[m].delivery # 0
                           => channel'[m].at <= poster'.at
                 /\ \A k \in Attempts : Pending(k)' /\ IncOf(k)' = poster'.inc => poster'.at <= entry'[k].at
<1> SUFFICES ASSUME poster'.pc \in {"decide", "post"}
             PROVE  /\ poster'.inc = IncOf(poster.delivery)'
                    /\ poster'.pc = "post" =>
                          /\ poster'.at <= stamp'
                          /\ \A m \in DOMAIN channel' :
                                channel'[m].inc = poster'.inc /\ channel'[m].delivery # 0
                                    => channel'[m].at <= poster'.at
                          /\ \A k \in Attempts : Pending(k)' /\ IncOf(k)' = poster'.inc
                                                    => poster'.at <= entry'[k].at
  OBVIOUS
<1>0. stamp \in Nat /\ stamp' \in {stamp, stamp + 1}
  BY EntryTimesStep DEF TInv
<1>1. \A k \in Made : IncOf(k)' = IncOf(k)
  BY AttemptsStep DEF AttemptStep, IncOf, RowOf
<1>2. poster'.inc = IncOf(poster'.delivery) /\ poster'.delivery \in Made
  BY HolderStep DEF OrderInv, TInv
<1>3. poster'.inc = IncOf(poster.delivery)'
  BY <1>1, <1>2 DEF IncOf, RowOf
<1>4. ASSUME poster'.pc = "post"
      PROVE  /\ poster'.at \in Nat /\ poster'.at <= stamp
             /\ \A m \in Analyses(poster'.inc) : channel[m].at <= poster'.at
             /\ poster.pc = "post" /\ poster.inc = poster'.inc => poster.at <= poster'.at
             /\ \A k \in Attempts : Pending(k) /\ IncOf(k) = poster'.inc => poster'.at <= entry[k].at
  <2>1. CASE poster' = poster
    BY <1>4, <2>1, PosterFields DEF OrderInv, NoLater
  <2>2. CASE /\ poster.pc = "decide" /\ IsHead(poster.delivery)
             /\ poster'.delivery = poster.delivery /\ poster'.inc = poster.inc
             /\ poster'.at = entry[poster.delivery].at
    <3> DEFINE d == poster.delivery
    <3>1. d \in Attempts /\ Pending(d) /\ poster.inc = IncOf(d)
      BY <2>2 DEF IsHead, OrderInv, TInv, Made
    <3>2. /\ entry[d].at \in Nat /\ entry[d].at <= stamp /\ NoLater(IncOf(d), entry[d].at)
      BY <3>1, PendingTime DEF OrderInv
    <3>3. ASSUME NEW k \in Attempts, Pending(k), IncOf(k) = IncOf(d) PROVE entry[d].at <= entry[k].at
      <4>1. entry[k].at \in Nat
        BY <3>3, PendingTime
      <4>2. k # d => entry[d].at < entry[k].at
        BY <2>2, <3>3 DEF IsHead, PendingSet
      <4>3. QED
        BY <3>2, <4>1, <4>2
    <3> HIDE DEF d
    <3>4. QED
      BY <2>2, <3>1, <3>2, <3>3 DEF NoLater, d
  <2>3. QED
    BY <1>4, <2>1, <2>2, HolderStep
<1>5. ASSUME poster'.pc = "post"
      PROVE  \A m \in DOMAIN channel' :
                channel'[m].inc = poster'.inc /\ channel'[m].delivery # 0 => channel'[m].at <= poster'.at
  BY <1>4, <1>5, NoLaterStep
<1>6. ASSUME poster'.pc = "post", NEW k \in Attempts, Pending(k)', IncOf(k)' = poster'.inc
      PROVE  poster'.at <= entry'[k].at
  BY <1>0, <1>4, <1>6, PendingStep DEF Queues
<1>7. QED
  BY <1>0, <1>3, <1>4, <1>5, <1>6

LEMMA OrderPosted ==
    ASSUME TInv, TInv', OrderInv, [Next]_vars
    PROVE  PostedInOrder'
<1> SUFFICES ASSUME NEW i \in Incidents, NEW m \in DOMAIN channel', NEW n \in DOMAIN channel',
                    channel'[m].inc = i, channel'[m].delivery # 0,
                    channel'[n].inc = i, channel'[n].delivery # 0, m < n
             PROVE  channel'[m].at <= channel'[n].at
  BY DEF PostedInOrder, Analyses
<1>1. m \in Nat /\ n \in Nat /\ channel'[m].at \in Nat /\ channel'[n].at \in Nat
  BY NextNats
<1>2. m \in DOMAIN channel /\ channel'[m] = channel[m]
  BY <1>1, MessageStep
<1>3. CASE n \in DOMAIN channel /\ channel'[n] = channel[n]
  BY <1>2, <1>3 DEF OrderInv, PostedInOrder, Analyses
<1>4. CASE poster.pc = "post" /\ channel'[n].at = poster.at /\ channel'[n].inc = poster.inc
  BY <1>2, <1>4 DEF OrderInv, NoLater, Analyses
<1>5. QED
  BY <1>3, <1>4, MessageStep

LEMMA OrderStep ==
    ASSUME TInv, TInv', OutInv, OrderInv, [Next]_vars
    PROVE  OrderInv'
<1>1. \A k \in Attempts : Pending(k)' => entry'[k].at <= stamp' /\ NoLater(IncOf(k), entry[k].at)'
  BY OrderPending DEF NoLater, Analyses
<1>2. \A m \in DOMAIN channel' : channel'[m].delivery # 0 => channel'[m].at <= stamp'
  <2>1. stamp \in Nat /\ stamp' \in {stamp, stamp + 1}
    BY EntryTimesStep DEF TInv
  <2>2. QED
    BY <2>1, NoLaterThanNow, NextNats
<1>3. poster'.pc \in {"decide", "post"} => poster'.inc = IncOf(poster.delivery)'
  BY OrderHolder
<1>4. poster'.pc = "post" =>
          /\ poster'.at <= stamp' /\ NoLater(poster.inc, poster.at)'
          /\ \A k \in Attempts : Pending(k)' /\ IncOf(k)' = poster'.inc => poster'.at <= entry'[k].at
  BY OrderHolder DEF NoLater, Analyses
<1>5. PostedInOrder'
  BY OrderPosted
<1>6. QED
  BY <1>1, <1>2, <1>3, <1>4, <1>5 DEF OrderInv

\* The messages of an incident appear in the order their results were queued:
\* a delivery is begun only while no older one is pending, and what is queued
\* meanwhile is younger (BeginSlackAnalysisDelivery under the notifier's mutex).
THEOREM PostedInOrderHolds == Spec => []PostedInOrder
<1>1. Init => OutInv /\ OrderInv
  <2> SUFFICES ASSUME Init PROVE OutInv /\ OrderInv
    OBVIOUS
  <2>1. OutInv
    BY EmptySeq DEF Init, OutInv, IsInjective
  <2>2. poster.pc = "idle" /\ DOMAIN channel = {} /\ \A k \in Attempts : ~Pending(k)
    BY DEF Init, Idle, Pending, Queued
  <2>3. OrderInv
    BY <2>2 DEF OrderInv, PostedInOrder, Analyses
  <2>4. QED
    BY <2>1, <2>3
<1>2. TInv /\ TInv' /\ OutInv /\ OrderInv /\ [Next]_vars => OutInv' /\ OrderInv'
  BY OutInvStep, OrderStep
<1>3. OrderInv => PostedInOrder
  BY DEF OrderInv
<1>4. QED
  BY <1>1, <1>2, <1>3, TypesAlways, PTL DEF Spec

-----------------------------------------------------------------------------
(* The rest of TypeOK *)

BoundsInv ==
    /\ shown \in [Rows -> -1..MaxAttempts]
    /\ notices \subseteq Incidents \X (1..MaxResolutions)
    /\ removed \subseteq DOMAIN channel
    /\ trashings \in 0..MaxDisruptions
    /\ faults \in 0..MaxDisruptions

LEMMA ShownStep ==
    ASSUME TInv, BoundsInv, [Next]_vars
    PROVE  shown' \in [Rows -> -1..MaxAttempts]
<1>0. /\ shown \in [Rows -> -1..MaxAttempts] /\ MaxAttempts \in Nat
      /\ 0 \in -1..MaxAttempts /\ Analyzing \in -1..MaxAttempts
      /\ \A k \in Attempts : k \in -1..MaxAttempts
  BY ConstantsAssumption DEF BoundsInv, Analyzing, Attempts
<1>1. CASE UNCHANGED shown
  BY <1>0, <1>1
<1>2. ASSUME NEW k \in Attempts, NEW r \in Rows, NEW reply \in BOOLEAN, Start(k, r, reply)
      PROVE  shown' \in [Rows -> -1..MaxAttempts]
  BY <1>0, <1>2 DEF Start
<1>3. ASSUME NEW k \in Attempts, Complete(k) PROVE shown' \in [Rows -> -1..MaxAttempts]
  BY <1>0, <1>3 DEF Complete
<1>4. ASSUME NEW k \in Attempts, Fail(k) PROVE shown' \in [Rows -> -1..MaxAttempts]
  BY <1>0, <1>4 DEF Fail, MarkFailed
<1>5. ASSUME NEW r \in Rows, Reap(r) PROVE shown' \in [Rows -> -1..MaxAttempts]
  BY <1>0, <1>5 DEF Reap
<1>6. ASSUME NEW i \in Incidents, Purge(i) PROVE shown' \in [Rows -> -1..MaxAttempts]
  BY <1>0, <1>6 DEF Purge
<1>7. ASSUME NEW k \in Attempts, Notify(k) \/ CoolOver(k) \/ Lock(k) PROVE UNCHANGED shown
  BY <1>7 DEF Notify, CoolOver, Lock, storeVars
<1>8. ASSUME NEW i \in Incidents,
             Resolve(i) \/ Refire(i) \/ Trash(i) \/ Restore(i) \/ LockNotice(i)
      PROVE  UNCHANGED shown
  BY <1>8 DEF Resolve, Refire, Trash, Restore, LockNotice, storeVars
<1>9. ASSUME RetryScan \/ Crash \/ \E m \in DOMAIN channel : ThreadRemoved(m)
      PROVE  UNCHANGED shown
  BY <1>9 DEF RetryScan, Crash, ThreadRemoved, storeVars
<1>10. ASSUME Deliver PROVE UNCHANGED shown
  BY <1>10 DEF Deliver, Skip, Begin, PostAccepted, PostFails, PostFindsNoThread, Reset, Commit, PostNotice, storeVars
<1>11. QED
  BY <1>1, <1>2, <1>3, <1>4, <1>5, <1>6, <1>7, <1>8, <1>9, <1>10 DEF Next, vars, storeVars

LEMMA NoticesStep ==
    ASSUME TInv, BoundsInv, [Next]_vars
    PROVE  notices' \subseteq Incidents \X (1..MaxResolutions)
<1>0. notices \subseteq Incidents \X (1..MaxResolutions) /\ MaxResolutions \in Nat
  BY ConstantsAssumption DEF BoundsInv
<1>1. CASE notices' \subseteq notices
  BY <1>0, <1>1
<1>2. ASSUME NEW i \in Incidents, Resolve(i) PROVE notices' \subseteq Incidents \X (1..MaxResolutions)
  <2> DEFINE n == inc[i].resolutions + 1
  <2>1. inc \in [Incidents -> Incident] /\ inc[i] \in Incident
    BY DEF TInv
  <2>2. n \in 1..MaxResolutions
    BY <1>0, <1>2, <2>1 DEF Resolve, Incident
  <2>3. inc' = [inc EXCEPT ![i].resolved = inc[i].resolutions + 1, ![i].resolutions = @ + 1]
    BY <1>2 DEF Resolve
  <2>4. inc'[i].resolved = n
    BY <2>1, <2>3 DEF Incident
  <2>5. notices' = notices \cup {<<i, inc'[i].resolved>>}
    BY <1>2 DEF Resolve
  <2>6. <<i, inc'[i].resolved>> \in Incidents \X (1..MaxResolutions)
    BY <2>2, <2>4
  <2>7. QED
    BY <1>0, <2>5, <2>6
<1>3. ASSUME NEW k \in Attempts,
             \/ \E r \in Rows, reply \in BOOLEAN : Start(k, r, reply)
             \/ Complete(k) \/ Fail(k) \/ Notify(k) \/ CoolOver(k) \/ Lock(k)
      PROVE  UNCHANGED notices
  BY <1>3 DEF Start, Complete, Fail, Notify, CoolOver, Lock, workVars
<1>4. ASSUME NEW i \in Incidents, Refire(i) \/ Trash(i) \/ Restore(i) \/ Purge(i) \/ LockNotice(i)
      PROVE  notices' \subseteq notices
  BY <1>4 DEF Refire, Trash, Restore, Purge, LockNotice, workVars
<1>5. ASSUME (\E r \in Rows : Reap(r)) \/ RetryScan \/ Crash \/ \E m \in DOMAIN channel : ThreadRemoved(m)
      PROVE  notices' \subseteq notices
  BY <1>5 DEF Reap, RetryScan, Crash, ThreadRemoved, workVars
<1>6. ASSUME Deliver PROVE UNCHANGED notices
  BY <1>6 DEF Deliver, Skip, Begin, PostAccepted, PostFails, PostFindsNoThread, Reset, Commit, PostNotice
<1>7. QED
  BY <1>1, <1>2, <1>3, <1>4, <1>5, <1>6 DEF Next, vars, workVars

LEMMA DisruptionsStep ==
    ASSUME BoundsInv, [Next]_vars
    PROVE  faults' \in 0..MaxDisruptions /\ trashings' \in 0..MaxDisruptions
<1>0. faults \in 0..MaxDisruptions /\ trashings \in 0..MaxDisruptions /\ MaxDisruptions \in Nat
  BY ConstantsAssumption DEF BoundsInv
<1>1. CASE UNCHANGED <<faults, trashings>>
  BY <1>0, <1>1
<1>2. CASE /\ UNCHANGED trashings /\ Fault
  BY <1>0, <1>2 DEF Fault, Disruptable
<1>3. CASE /\ UNCHANGED faults /\ trashings' = trashings + 1 /\ Disruptable
  BY <1>0, <1>3 DEF Disruptable
<1>4. ASSUME NEW k \in Attempts,
             \/ \E r \in Rows, reply \in BOOLEAN : Start(k, r, reply)
             \/ Complete(k) \/ Fail(k) \/ Notify(k) \/ CoolOver(k) \/ Lock(k)
      PROVE  UNCHANGED trashings /\ (Fault \/ UNCHANGED faults)
  BY <1>4 DEF Start, Complete, Fail, Notify, CoolOver, Lock, storeVars
<1>5. ASSUME NEW i \in Incidents,
             Resolve(i) \/ Refire(i) \/ Trash(i) \/ Restore(i) \/ Purge(i) \/ LockNotice(i)
      PROVE  UNCHANGED faults /\ (UNCHANGED trashings \/ (trashings' = trashings + 1 /\ Disruptable))
  BY <1>5 DEF Resolve, Refire, Trash, Restore, Purge, LockNotice, storeVars
<1>6. ASSUME (\E r \in Rows : Reap(r)) \/ RetryScan \/ Crash \/ \E m \in DOMAIN channel : ThreadRemoved(m)
      PROVE  UNCHANGED trashings /\ (Fault \/ UNCHANGED faults)
  BY <1>6 DEF Reap, RetryScan, Crash, ThreadRemoved, storeVars
<1>7. ASSUME Deliver PROVE UNCHANGED trashings /\ (Fault \/ UNCHANGED faults)
  BY <1>7 DEF Deliver, Skip, Begin, PostAccepted, PostFails, PostFindsNoThread, Reset, Commit, PostNotice, storeVars
<1>8. QED
  BY <1>1, <1>2, <1>3, <1>4, <1>5, <1>6, <1>7 DEF Next, vars, storeVars

LEMMA RemovedSteps ==
    ASSUME [Next]_vars
    PROVE  UNCHANGED removed \/ \E m \in DOMAIN channel : removed' = removed \cup {m}
<1>1. CASE \E m \in DOMAIN channel : ThreadRemoved(m)
  BY <1>1 DEF ThreadRemoved
<1>2. ASSUME NEW k \in Attempts,
             \/ \E r \in Rows, reply \in BOOLEAN : Start(k, r, reply)
             \/ Complete(k) \/ Fail(k) \/ Notify(k) \/ CoolOver(k) \/ Lock(k)
      PROVE  UNCHANGED removed
  BY <1>2 DEF Start, Complete, Fail, Notify, CoolOver, Lock, slackVars
<1>3. ASSUME NEW i \in Incidents,
             Resolve(i) \/ Refire(i) \/ Trash(i) \/ Restore(i) \/ Purge(i) \/ LockNotice(i)
      PROVE  UNCHANGED removed
  BY <1>3 DEF Resolve, Refire, Trash, Restore, Purge, LockNotice, slackVars
<1>4. ASSUME (\E r \in Rows : Reap(r)) \/ RetryScan \/ Crash PROVE UNCHANGED removed
  BY <1>4 DEF Reap, RetryScan, Crash, slackVars
<1>5. ASSUME Deliver PROVE UNCHANGED removed
  BY <1>5 DEF Deliver, Skip, Begin, PostAccepted, PostFails, PostFindsNoThread, Reset, Commit, PostNotice, slackVars
<1>6. QED
  BY <1>1, <1>2, <1>3, <1>4, <1>5 DEF Next, vars, slackVars

LEMMA RemovedStep ==
    ASSUME TInv, BoundsInv, [Next]_vars
    PROVE  removed' \subseteq DOMAIN channel'
<1>1. removed \subseteq DOMAIN channel /\ DOMAIN channel \subseteq DOMAIN channel'
  BY ChannelSteps, ChannelType DEF BoundsInv
<1>2. QED
  BY <1>1, RemovedSteps

LEMMA BoundsStep ==
    ASSUME TInv, BoundsInv, [Next]_vars
    PROVE  BoundsInv'
BY ShownStep, NoticesStep, DisruptionsStep, RemovedStep DEF BoundsInv

LEMMA TypeFollows == TInv /\ OutInv /\ BoundsInv => TypeOK
<1> SUFFICES ASSUME TInv, OutInv, BoundsInv PROVE TypeOK
  OBVIOUS
<1>1. Made \subseteq Attempts /\ Finished \subseteq Attempts
  BY DEF Made, Finished, Attempts
<1>2. outbox \in [Rows -> Seq(Attempts)]
  <2>1. \A r \in Rows : outbox[r] \in Seq(Attempts)
    BY <1>1, OutboxTypes, SeqMonotonic
  <2>2. QED
    BY <2>1 DEF OutInv
<1>3. batch \in Seq(Attempts) /\ spawned \subseteq Attempts
  BY <1>1, SeqMonotonic DEF TInv
<1>4. QED
  BY <1>2, <1>3 DEF TypeOK, TInv, OutInv, BoundsInv

\* Types: an outbox is a list of attempts without repetition, what the cap drops
\* and what is queued again included; only messages that exist are deleted.
THEOREM TypesHold == Spec => []TypeOK
<1>1. Init => OutInv /\ BoundsInv
  <2> SUFFICES ASSUME Init PROVE OutInv /\ BoundsInv
    OBVIOUS
  <2>1. OutInv
    BY EmptySeq DEF Init, OutInv, IsInjective
  <2>2. 0 \in 0..MaxDisruptions /\ 0 \in -1..MaxAttempts
    BY ConstantsAssumption
  <2>3. BoundsInv
    BY <2>2 DEF Init, BoundsInv
  <2>4. QED
    BY <2>1, <2>3
<1>2. TInv /\ OutInv /\ BoundsInv /\ [Next]_vars => OutInv' /\ BoundsInv'
  BY OutInvStep, BoundsStep
<1>3. QED
  BY <1>1, <1>2, TypeFollows, TypesAlways, PTL DEF Spec

-----------------------------------------------------------------------------
(* While the outboxes have room *)

RowAttempts(r) == {k \in Made : RowOf(k) = r}

\* No row has had more attempts than its outbox may hold.
Roomy == \A r \in Rows : Cardinality(RowAttempts(r)) <= OutboxCap

\* An entry stays in the outbox of its row until its incident is purged, and a
\* message of a delivery is of its incident.
KeptInv ==
    /\ \A k \in Attempts : entry[k] # NoEntry => k \in Made /\ (Queued(k) \/ ~InTree(IncOf(k)))
    /\ \A r \in Rows : \A k \in Range(outbox[r]) : k \in Made /\ RowOf(k) = r /\ entry[k] # NoEntry
    /\ \A m \in DOMAIN channel : channel[m].delivery # 0 =>
           entry[channel[m].delivery] # NoEntry /\ channel[m].inc = IncOf(channel[m].delivery)

LEMMA RowAttemptsFinite ==
    ASSUME NEW r
    PROVE  IsFiniteSet(RowAttempts(r)) /\ Cardinality(RowAttempts(r)) \in Nat
<1>1. IsFiniteSet(Attempts)
  BY ConstantsAssumption, FS_Interval DEF Attempts
<1>2. RowAttempts(r) \in SUBSET Attempts
  BY DEF RowAttempts, Made
<1>3. QED
  BY <1>1, <1>2, FS_Subset, FS_CardinalityType

\* Attempts are never taken back.
LEMMA RoomyBefore ==
    ASSUME TInv, TInv', [Next]_vars, Roomy'
    PROVE  Roomy
<1> SUFFICES ASSUME NEW r \in Rows PROVE Cardinality(RowAttempts(r)) <= OutboxCap
  BY DEF Roomy
<1>1. \A k \in Made : k \in Made' /\ RowOf(k)' = RowOf(k)
  BY AttemptsStep DEF AttemptStep, RowOf
<1>2. RowAttempts(r) \in SUBSET RowAttempts(r)'
  BY <1>1 DEF RowAttempts
<1>3. IsFiniteSet(Attempts) /\ RowAttempts(r)' \in SUBSET Attempts
  BY ConstantsAssumption, FS_Interval DEF Attempts, RowAttempts, Made
<1>4. IsFiniteSet(RowAttempts(r)') /\ Cardinality(RowAttempts(r)') \in Nat
  BY <1>3, FS_Subset, FS_CardinalityType
<1>5. Cardinality(RowAttempts(r)) <= Cardinality(RowAttempts(r)') /\ Cardinality(RowAttempts(r)) \in Nat
  BY <1>2, <1>4, FS_Subset, RowAttemptsFinite
<1>6. Cardinality(RowAttempts(r)') <= OutboxCap
  BY DEF Roomy
<1>7. QED
  BY <1>4, <1>5, <1>6, ConstantsAssumption

\* A list without repetition is no longer than what it is made of.
LEMMA InjectiveLength ==
    ASSUME NEW T, IsFiniteSet(T), NEW A, NEW list \in Seq(A), IsInjective(list), Range(list) \subseteq T
    PROVE  Len(list) <= Cardinality(T)
<1>1. Len(list) \in Nat /\ list \in [1..Len(list) -> A] /\ DOMAIN list = 1..Len(list)
  BY LenProperties
<1>2. \A i \in 1..Len(list) : list[i] \in T
  BY <1>1 DEF Range
<1>3. list \in [1..Len(list) -> T]
  BY <1>1, <1>2
<1>4. list \in Injection(1..Len(list), T)
  BY <1>3 DEF Injection
<1>5. Cardinality(1..Len(list)) <= Cardinality(T)
  BY <1>4, FS_Injection
<1>6. Cardinality(1..Len(list)) = Len(list)
  BY <1>1, FS_Interval
<1>7. QED
  BY <1>5, <1>6

\* With room nothing is dropped.
LEMMA NothingTrimmed ==
    ASSUME TInv', Roomy', NEW r \in Rows, NEW A, NEW list \in Seq(A), IsInjective(list),
           Range(list) \subseteq RowAttempts(r)', NEW ents
    PROVE  Trimmed(list, ents) = list
<1>1. IsFiniteSet(Attempts) /\ RowAttempts(r)' \in SUBSET Attempts
  BY ConstantsAssumption, FS_Interval DEF Attempts, RowAttempts, Made
<1>2. IsFiniteSet(RowAttempts(r)') /\ Cardinality(RowAttempts(r)') \in Nat
  BY <1>1, FS_Subset, FS_CardinalityType
<1>3. Len(list) <= Cardinality(RowAttempts(r)') /\ Cardinality(RowAttempts(r)') <= OutboxCap
  BY <1>2, InjectiveLength DEF Roomy
<1>4. Len(list) \in Nat /\ ~(Len(list) > OutboxCap)
  BY <1>2, <1>3, LenProperties, ConstantsAssumption
<1>5. QED
  BY <1>4 DEF Trimmed

\* The holder of the mutex acknowledges the delivery.
Acknowledges(k) ==
    /\ poster.pc = "commit" /\ poster.delivery = k /\ Queued(k) /\ entry[k].status # "delivered"
    /\ inc[poster.inc].state = "live" /\ Acknowledge(k, poster.inc)

\* With room, an entry is made once, cooled or skipped while it is pending, and
\* delivered by a commit.
EntryKept(k) ==
    \/ entry'[k] = entry[k]
    \/ /\ Pending(k) /\ entry'[k].status \in {"pending", "skipped"} /\ entry'[k] # NoEntry
       /\ entry'[k].at = entry[k].at
    \/ /\ entry[k] = NoEntry /\ entry'[k].status = "pending" /\ Queues(k) /\ k \in Made
       /\ Queued(k)'
    \/ Acknowledges(k)

RoomStep ==
    /\ \A k \in Attempts : EntryKept(k)
    /\ \A k \in Attempts : Queued(k) => Queued(k)' \/ ~InTree(IncOf(k))'
    /\ \A r \in Rows : \A k \in Range(outbox'[r]) :
          \/ k \in Range(outbox[r])
          \/ k \in Made /\ RowOf(k) = r /\ entry[k] = NoEntry /\ entry'[k] # NoEntry

LEMMA KeptRow ==
    ASSUME TInv, [Next]_vars, NEW k \in Made
    PROVE  /\ k \in Made' /\ RowOf(k)' = RowOf(k) /\ IncOf(k)' = IncOf(k)
           /\ RowOf(k) \in Rows /\ IncOf(k) \in Incidents
<1>1. k \in Made' /\ RowOf(k)' = RowOf(k) /\ IncOf(k)' = IncOf(k)
  BY AttemptsStep DEF AttemptStep, RowOf, IncOf
<1>2. RowOf(k) \in Rows /\ IncOf(k) \in Incidents
  BY AttemptPlace DEF TInv, Made
<1>3. QED
  BY <1>1, <1>2

\* An outbox names attempts of its row.
LEMMA OutboxOfRow ==
    ASSUME TInv, OutInv, KeptInv, [Next]_vars, NEW r \in Rows
    PROVE  Range(outbox[r]) \subseteq RowAttempts(r)'
<1>1. \A k \in Range(outbox[r]) : k \in Made /\ RowOf(k) = r
  BY DEF KeptInv
<1>2. QED
  BY <1>1, KeptRow DEF RowAttempts

LEMMA NothingMoves ==
    ASSUME TInv, KeptInv, [Next]_vars, UNCHANGED outbox, \A k \in Attempts : EntryKept(k)
    PROVE  RoomStep
<1>1. \A k \in Attempts : Queued(k) => Queued(k)'
  BY KeptRow DEF Queued, Made
<1>2. QED
  BY <1>1 DEF RoomStep

LEMMA RoomUpdated ==
    ASSUME TInv, TInv', OutInv, KeptInv, Roomy', [Next]_vars, NEW k \in Made, NEW e, UpdateEntry(k, e),
           entry' = [entry EXCEPT ![k] = e] => EntryKept(k)
    PROVE  RoomStep
<1>1. RowOf(k) \in Rows
  BY KeptRow
<1>2. outbox[RowOf(k)] \in Seq(Finished) /\ IsInjective(outbox[RowOf(k)])
  BY <1>1, OutboxTypes
<1>3. outbox' = [outbox EXCEPT ![RowOf(k)] = Trimmed(outbox[RowOf(k)], [entry EXCEPT ![k] = e])]
      /\ entry' = [entry EXCEPT ![k] = e]
  BY DEF UpdateEntry, WriteOutbox
<1>4. Trimmed(outbox[RowOf(k)], [entry EXCEPT ![k] = e]) = outbox[RowOf(k)]
  BY <1>1, <1>2, OutboxOfRow, NothingTrimmed
<1>5. outbox' = outbox
  BY <1>1, <1>3, <1>4 DEF OutInv
<1>6. \A j \in Attempts : EntryKept(j)
  BY <1>3 DEF EntryKept, TInv
<1>7. QED
  BY <1>5, <1>6, NothingMoves

LEMMA RoomEnqueued ==
    ASSUME TInv, TInv', OutInv, KeptInv, Roomy', [Next]_vars, NEW k \in Made, k \in Finished',
           entry[k] = NoEntry, Enqueue(k), NEW r \in Rows, RowOf(k) = r
    PROVE  RoomStep
<1> DEFINE ents == [entry EXCEPT ![k] = NewEntry(stamp + 1)]
           list == Append(outbox[r], k)
<1>1. k \in Attempts
  BY DEF Made
<1>2. outbox[r] \in Seq(Finished') /\ IsInjective(outbox[r])
  BY <1>1, OutboxTypes, FinishedStep, SeqMonotonic
<1>3. k \notin Range(outbox[r])
  BY <1>1 DEF KeptInv
<1>4. list \in Seq(Finished') /\ IsInjective(list) /\ Range(list) \subseteq Range(outbox[r]) \cup {k}
  BY <1>2, <1>3, AppendIs
<1>5. k \in Range(list) /\ Range(outbox[r]) \subseteq Range(list)
  <2>1. /\ Len(outbox[r]) \in Nat /\ DOMAIN outbox[r] = 1..Len(outbox[r])
        /\ \A i \in 1..Len(outbox[r]) : list[i] = outbox[r][i]
        /\ list[Len(outbox[r]) + 1] = k /\ Len(list) = Len(outbox[r]) + 1
    BY <1>2, LenProperties, AppendProperties
  <2>2. DOMAIN list = 1..(Len(outbox[r]) + 1)
    BY <1>4, <2>1, LenProperties
  <2> HIDE DEF list
  <2>3. QED
    BY <2>1, <2>2 DEF Range
<1>6. k \in RowAttempts(r)'
  BY KeptRow DEF RowAttempts
<1>7. Range(list) \subseteq RowAttempts(r)'
  BY <1>1, <1>4, <1>6, OutboxOfRow
<1>8. /\ outbox' = [outbox EXCEPT ![r] = Trimmed(list, ents)]
      /\ entry' = ents /\ stamp' = stamp + 1
  BY DEF Enqueue, WriteOutbox
<1> HIDE DEF list
<1>9. Trimmed(list, ents) = list
  BY <1>1, <1>4, <1>7, NothingTrimmed
<1>10. outbox'[r] = list /\ \A q \in Rows : q # r => outbox'[q] = outbox[q]
  BY <1>1, <1>8, <1>9 DEF OutInv
<1>11. /\ entry'[k] = NewEntry(stamp + 1) /\ \A j \in Attempts : j # k => entry'[j] = entry[j]
  BY <1>1, <1>8 DEF TInv
<1>12. entry'[k].status = "pending" /\ entry'[k].at = stamp + 1 /\ entry'[k] # NoEntry
  <2>1. NewEntry(stamp + 1).status = "pending" /\ NewEntry(stamp + 1).at = stamp + 1
    BY DEF NewEntry
  <2>2. NewEntry(stamp + 1) # NoEntry
    BY <2>1 DEF NoEntry
  <2>3. QED
    BY <1>11, <2>1, <2>2
<1>13. Queued(k)'
  BY <1>5, <1>10, KeptRow DEF Queued, Made
<1>14. \A j \in Attempts : EntryKept(j)
  BY <1>8, <1>11, <1>12, <1>13 DEF EntryKept, Queues
<1>15. ASSUME NEW j \in Attempts, Queued(j) PROVE Queued(j)'
  <2>1. j \in Made /\ RowOf(j)' = RowOf(j) /\ RowOf(j) \in Rows /\ attempt'[j] # NoAttempt
    BY <1>15, KeptRow DEF Queued, Made
  <2>2. QED
    BY <1>5, <1>10, <1>15, <2>1 DEF Queued
<1>16. ASSUME NEW q \in Rows, NEW j \in Range(outbox'[q])
       PROVE  j \in Range(outbox[q]) \/ (j \in Made /\ RowOf(j) = q /\ entry[j] = NoEntry /\ entry'[j] # NoEntry)
  BY <1>4, <1>10, <1>12, <1>16
<1>17. QED
  BY <1>14, <1>15, <1>16 DEF RoomStep

LEMMA RoomSkipped ==
    ASSUME TInv, TInv', OutInv, KeptInv, Roomy', [Next]_vars, NEW k \in Attempts, Pending(k),
           UpdateEntry(k, [entry[k] EXCEPT !.status = "skipped"])
    PROVE  RoomStep
<1> DEFINE e == [entry[k] EXCEPT !.status = "skipped"]
<1>1. entry[k] \in Entry /\ k \in Made
  BY EntryKnown DEF Pending, Queued, Made
<1>2. e.status = "skipped" /\ e.at = entry[k].at
  BY <1>1 DEF Entry
<1> HIDE DEF e
<1>3. entry' = [entry EXCEPT ![k] = e] => EntryKept(k)
  BY <1>2 DEF EntryKept, NoEntry, TInv
<1>4. QED
  BY <1>1, <1>3, RoomUpdated DEF e

LEMMA RoomSteps ==
    ASSUME TInv, TInv', OutInv, KeptInv, Roomy', [Next]_vars
    PROVE  RoomStep
<1>0. Finished \subseteq Finished'
  BY FinishedStep
<1>1. CASE UNCHANGED <<outbox, entry>>
  BY <1>1, NothingMoves DEF EntryKept
<1>2. ASSUME NEW k \in Attempts, NEW r \in Rows, NEW reply \in BOOLEAN, Start(k, r, reply)
      PROVE  RoomStep
  <2>1. outbox' = [outbox EXCEPT ![r] = Trimmed(outbox[r], entry)] /\ UNCHANGED entry
    BY <1>2 DEF Start
  <2>2. outbox[r] \in Seq(Finished) /\ IsInjective(outbox[r])
    BY OutboxTypes
  <2>3. Trimmed(outbox[r], entry) = outbox[r]
    BY <2>2, OutboxOfRow, NothingTrimmed
  <2>4. UNCHANGED outbox
    BY <2>1, <2>3 DEF OutInv
  <2>5. QED
    BY <1>1, <2>1, <2>4
<1>3. ASSUME NEW k \in Attempts, Complete(k) PROVE RoomStep
  <2>1. attempt[k] \in Attempt /\ attempt[k].pc = "running" /\ k \in Made
    BY <1>3 DEF Complete, TInv, NoAttempt, Made
  <2>2. PICK r \in Rows : RowOf(k) = r
    BY <2>1, AttemptPlace
  <2>3. CASE InTree(IncOf(k)) /\ Goto(k, "completed") /\ Enqueue(k)
    <3>1. attempt'[k] = [attempt[k] EXCEPT !.pc = "completed"]
      BY <2>3 DEF Goto, TInv
    <3>2. k \in Finished'
      BY <2>1, <3>1 DEF Finished, Attempts, Attempt
    <3>3. outbox[r] \in Seq(Finished) /\ k \notin Finished
      BY <2>1, OutboxTypes DEF Finished
    <3>4. ~Queued(k)
      BY <2>2, <3>3, ElementOfSeq, LenProperties DEF Range, Queued
    <3>5. entry[k] = NoEntry
      BY <2>3, <3>4 DEF KeptInv
    <3>6. QED
      BY <2>1, <2>2, <2>3, <3>2, <3>5, RoomEnqueued
  <2>4. QED
    BY <1>1, <1>3, <2>3 DEF Complete
<1>4. ASSUME NEW k \in Attempts, Fail(k) PROVE RoomStep
  <2>1. CASE MarkFailed(RowOf(k))
    BY <1>1, <2>1, RoomSkipped DEF MarkFailed
  <2>2. QED
    BY <1>1, <1>4, <2>1 DEF Fail
<1>5. ASSUME NEW k \in Attempts, Notify(k) PROVE RoomStep
  <2>1. attempt[k] \in Attempt /\ attempt[k].pc = "completed" /\ k \in Made
    BY <1>5 DEF Notify, TInv, NoAttempt, Made
  <2>2. PICK r \in Rows : RowOf(k) = r
    BY <2>1, AttemptPlace
  <2>3. CASE InTree(IncOf(k)) /\ ~Queued(k) /\ Enqueue(k)
    <3>1. k \in Finished'
      BY <1>0, <2>1 DEF Finished
    <3>2. entry[k] = NoEntry
      BY <2>3 DEF KeptInv
    <3>3. QED
      BY <2>1, <2>2, <2>3, <3>1, <3>2, RoomEnqueued
  <2>4. QED
    BY <1>1, <1>5, <2>3 DEF Notify
<1>6. ASSUME NEW i \in Incidents, Purge(i) PROVE RoomStep
  <2>1. /\ outbox' = [r \in Rows |-> IF IncidentOf[r] = i THEN <<>> ELSE outbox[r]]
        /\ inc' = [inc EXCEPT ![i].state = "gone"] /\ UNCHANGED entry
    BY <1>6 DEF Purge
  <2>2. inc[i] \in Incident /\ inc'[i] = [inc[i] EXCEPT !.state = "gone"]
    BY <2>1 DEF TInv
  <2>3. ~InTree(i)'
    BY <2>2 DEF InTree, Incident
  <2>4. ASSUME NEW k \in Attempts, Queued(k) PROVE Queued(k)' \/ ~InTree(IncOf(k))'
    <3>1. k \in Made
      BY <2>4 DEF Queued, Made
    <3>2. CASE IncOf(k) = i
      BY <2>3, <3>1, <3>2, KeptRow DEF InTree
    <3>3. CASE IncOf(k) # i
      BY <2>1, <2>4, <3>1, <3>3, KeptRow DEF Queued, IncOf, Made
    <3>4. QED
      BY <3>2, <3>3
  <2>5. Range(<<>>) = {}
    BY DEF Range
  <2>6. QED
    BY <2>1, <2>4, <2>5 DEF RoomStep, EntryKept
<1>7. CASE Skip
  BY <1>1, <1>7, RoomSkipped DEF Skip, TInv, Made
<1>8. CASE Begin
  <2> DEFINE k == poster.delivery
             e == [entry[k] EXCEPT !.cooling = TRUE]
  <2>1. CASE IsHead(k) /\ UpdateEntry(k, e)
    <3>1. k \in Made /\ k \in Attempts /\ Pending(k)
      BY <1>8, <2>1 DEF Begin, TInv, Made, IsHead
    <3>2. entry[k] \in Entry /\ entry[k].status = "pending"
      BY <3>1, EntryKnown DEF Pending
    <3>3. e.status = "pending" /\ e.at = entry[k].at
      BY <3>2 DEF Entry
    <3> HIDE DEF k, e
    <3>4. entry' = [entry EXCEPT ![k] = e] => EntryKept(k)
      BY <3>1, <3>3 DEF EntryKept, NoEntry, TInv
    <3>5. QED
      BY <2>1, <3>1, <3>4, RoomUpdated
  <2>2. QED
    BY <1>1, <1>8, <2>1 DEF Begin
<1>9. CASE Commit
  <2> DEFINE k == poster.delivery
  <2>1. CASE Acknowledges(k)
    <3>1. k \in Made
      BY <1>9 DEF Commit, TInv
    <3>2. EntryKept(k)
      BY <2>1 DEF EntryKept
    <3>3. PICK e : UpdateEntry(k, e)
      BY <2>1 DEF Acknowledges, Acknowledge
    <3> HIDE DEF k
    <3>4. QED
      BY <3>1, <3>2, <3>3, RoomUpdated
  <2>2. QED
    BY <1>1, <1>9, <2>1 DEF Commit, Acknowledges
<1>10. ASSUME NEW k \in Attempts, CoolOver(k) PROVE RoomStep
  <2> DEFINE e == [entry[k] EXCEPT !.cooling = FALSE]
  <2>1. Pending(k) /\ entry' = [entry EXCEPT ![k] = e] /\ UNCHANGED outbox
    BY <1>10 DEF CoolOver
  <2>2. entry[k] \in Entry /\ entry[k].status = "pending"
    BY <2>1, EntryKnown DEF Pending
  <2>3. e.status = "pending" /\ e.at = entry[k].at
    BY <2>2 DEF Entry
  <2> HIDE DEF e
  <2>4. \A j \in Attempts : EntryKept(j)
    BY <2>1, <2>3 DEF EntryKept, NoEntry, TInv
  <2>5. QED
    BY <2>1, <2>4, NothingMoves
<1>11. ASSUME NEW k \in Attempts, Lock(k) PROVE UNCHANGED <<outbox, entry>>
  BY <1>11 DEF Lock, storeVars
<1>12. ASSUME NEW i \in Incidents,
              Resolve(i) \/ Refire(i) \/ Trash(i) \/ Restore(i) \/ LockNotice(i)
      PROVE  UNCHANGED <<outbox, entry>>
  BY <1>12 DEF Resolve, Refire, Trash, Restore, LockNotice, storeVars
<1>13. ASSUME (\E r \in Rows : Reap(r)) \/ RetryScan \/ Crash \/ \E m \in DOMAIN channel : ThreadRemoved(m)
      PROVE  UNCHANGED <<outbox, entry>>
  BY <1>13 DEF Reap, RetryScan, Crash, ThreadRemoved, storeVars
<1>14. ASSUME PostAccepted \/ PostFails \/ PostFindsNoThread \/ Reset \/ PostNotice
      PROVE  UNCHANGED <<outbox, entry>>
  BY <1>14 DEF PostAccepted, PostFails, PostFindsNoThread, Reset, PostNotice, storeVars
<1>15. QED
  BY <1>1, <1>2, <1>3, <1>4, <1>5, <1>6, <1>7, <1>8, <1>9, <1>10, <1>11, <1>12, <1>13, <1>14
     DEF Next, Deliver, vars, storeVars

Messages(k) == {m \in DOMAIN channel : channel[m].delivery = k}

\* The holder of the mutex and its thread: nobody else changes the thread of an
\* incident or its ordinal; no delivery that waits behind the one begun has a
\* message, because a message is only of the first that waits.
TurnInv ==
    /\ poster.pc \in {"decide", "post", "commit", "reset"} =>
          /\ poster.inc = IncOf(poster.delivery)
          /\ poster.detail.thread = inc[poster.inc].thread
          /\ poster.detail.seq = inc[poster.inc].seq
    /\ poster.pc \in {"post", "commit"} =>
          /\ entry[poster.delivery].at = poster.at
          /\ \A k \in Attempts \ {poster.delivery} :
                Pending(k) /\ IncOf(k) = poster.inc => Messages(k) = {}
    /\ poster.pc = "reset" => poster.detail.thread \in removed
    /\ \A k, o \in Attempts :
          Pending(k) /\ Pending(o) /\ IncOf(k) = IncOf(o) /\ Messages(k) # {}
              => entry[k].at <= entry[o].at

\* A step leaves the threads and ordinals alone, or forgets a lost thread, or is
\* a commit.
ThreadsKept == \A i \in Incidents : inc'[i].thread = inc[i].thread /\ inc'[i].seq = inc[i].seq

ThreadLost ==
    /\ poster.pc = "reset" /\ poster' = Idle
    /\ inc[poster.inc].thread = poster.detail.thread /\ inc'[poster.inc].thread = NoThread
    /\ \A i \in Incidents \ {poster.inc} : inc'[i] = inc[i]
    /\ UNCHANGED <<entry, channel, removed>>

ThreadsStep ==
    \/ ThreadsKept
    \/ ThreadLost
    \/ Acknowledges(poster.delivery) /\ poster'.pc \in {"idle", "notice"} /\ UNCHANGED channel

LEMMA OneThread ==
    ASSUME TInv, NEW i \in Incidents, NEW e, inc' = [inc EXCEPT ![i] = e],
           e.thread = inc[i].thread, e.seq = inc[i].seq
    PROVE  ThreadsKept
BY DEF TInv, ThreadsKept

LEMMA ThreadsSteps ==
    ASSUME TInv, [Next]_vars
    PROVE  ThreadsStep
<1>0. inc \in [Incidents -> Incident]
  BY DEF TInv
<1>1. CASE UNCHANGED inc
  BY <1>1 DEF ThreadsStep, ThreadsKept
<1>2. ASSUME NEW i \in Incidents, Resolve(i) \/ Refire(i) \/ Trash(i) \/ Restore(i) \/ Purge(i)
      PROVE  ThreadsStep
  <2>1. inc[i] \in Incident
    BY <1>0
  <2>2. PICK e : /\ inc' = [inc EXCEPT ![i] = e]
                 /\ \/ \E n : e = [inc[i] EXCEPT !.resolved = n]
                    \/ \E n, r : e = [inc[i] EXCEPT !.resolved = n, !.resolutions = r]
                    \/ \E st : e = [inc[i] EXCEPT !.state = st]
    <3>1. CASE Resolve(i)
      <4>1. inc' = [inc EXCEPT ![i] = [inc[i] EXCEPT !.resolved = inc[i].resolutions + 1,
                                                   !.resolutions = inc[i].resolutions + 1]]
        BY <1>0, <3>1 DEF Resolve
      <4>2. QED
        BY <4>1
    <3>2. CASE Refire(i)
      BY <1>0, <3>2 DEF Refire
    <3>3. CASE Trash(i) \/ Restore(i) \/ Purge(i)
      BY <1>0, <3>3 DEF Trash, Restore, Purge
    <3>4. QED
      BY <1>2, <3>1, <3>2, <3>3
  <2>3. e.thread = inc[i].thread /\ e.seq = inc[i].seq
    BY <2>1, <2>2 DEF Incident
  <2>4. QED
    BY <2>2, <2>3, OneThread DEF ThreadsStep
<1>3. ASSUME Reset, ~UNCHANGED inc PROVE ThreadsStep
  <2>1. /\ poster.pc = "reset" /\ poster' = Idle /\ UNCHANGED <<entry, channel, removed>>
        /\ inc[poster.inc].thread = poster.detail.thread
        /\ inc' = [inc EXCEPT ![poster.inc] = [inc[poster.inc] EXCEPT !.thread = NoThread, !.seq = 0]]
    BY <1>0, <1>3 DEF Reset, Release, slackVars
  <2>2. poster.inc \in Incidents /\ inc[poster.inc] \in Incident
    BY <1>0, <2>1, PosterFields
  <2>3. [inc[poster.inc] EXCEPT !.thread = NoThread, !.seq = 0].thread = NoThread
    BY <2>2 DEF Incident
  <2>4. QED
    BY <1>0, <2>1, <2>2, <2>3 DEF ThreadsStep, ThreadLost
<1>4. ASSUME Commit, ~UNCHANGED inc PROVE ThreadsStep
  <2>1. Acknowledges(poster.delivery) /\ UNCHANGED channel
    BY <1>4 DEF Commit, Acknowledges, slackVars
  <2>2. poster' = Idle \/ poster' = [poster EXCEPT !.pc = "notice", !.detail.thread = poster.ts]
    BY <1>4 DEF Commit, Release
  <2>3. poster \in Poster
    BY <1>4, PosterFields DEF Commit
  <2>4. poster'.pc \in {"idle", "notice"}
    <3> DEFINE d == [poster.detail EXCEPT !.thread = poster.ts]
    <3>1. [poster EXCEPT !.pc = "notice", !.detail.thread = poster.ts] = [poster EXCEPT !.pc = "notice", !.detail = d]
      BY <2>3 DEF Poster
    <3> HIDE DEF d
    <3>2. [poster EXCEPT !.pc = "notice", !.detail = d].pc = "notice"
      BY <2>3 DEF Poster
    <3>3. poster' = Idle => poster'.pc = "idle"
      BY DEF Idle
    <3>4. poster' = [poster EXCEPT !.pc = "notice", !.detail.thread = poster.ts] => poster'.pc = "notice"
      BY <3>1, <3>2
    <3>5. QED
      BY <2>2, <3>3, <3>4
  <2>5. QED
    BY <2>1, <2>4 DEF ThreadsStep
<1>5. ASSUME NEW k \in Attempts,
             \/ \E r \in Rows, reply \in BOOLEAN : Start(k, r, reply)
             \/ Complete(k) \/ Fail(k) \/ Notify(k) \/ CoolOver(k) \/ Lock(k)
      PROVE  UNCHANGED inc
  BY <1>5 DEF Start, Complete, Fail, Notify, CoolOver, Lock, storeVars
<1>6. ASSUME \/ \E i \in Incidents : LockNotice(i)
             \/ \E r \in Rows : Reap(r)
             \/ RetryScan \/ Crash \/ \E m \in DOMAIN channel : ThreadRemoved(m)
      PROVE  UNCHANGED inc
  BY <1>6 DEF LockNotice, Reap, RetryScan, Crash, ThreadRemoved, storeVars
<1>7. ASSUME Skip \/ Begin \/ PostAccepted \/ PostFails \/ PostFindsNoThread \/ PostNotice
      PROVE  UNCHANGED inc
  BY <1>7 DEF Skip, Begin, PostAccepted, PostFails, PostFindsNoThread, PostNotice, storeVars
<1>8. QED
  BY <1>1, <1>2, <1>3, <1>4, <1>5, <1>6, <1>7 DEF Next, Deliver, vars, storeVars

\* What a commit writes.
LEMMA AcknowledgeIs ==
    ASSUME TInv, Acknowledges(poster.delivery)
    PROVE  LET k == poster.delivery
               i == poster.inc
               root == poster.detail.thread = NoThread /\ inc[i].thread = NoThread IN
           /\ k \in Attempts /\ i \in Incidents
           /\ entry'[k].status = "delivered" /\ entry'[k].ts = poster.ts
           /\ entry'[k].seq = inc'[i].seq /\ entry'[k].thread = inc'[i].thread
           /\ entry'[k].at = entry[k].at
           /\ inc'[i].seq = (IF root THEN 1 ELSE inc[i].seq + 1)
           /\ inc'[i].thread = (IF root THEN poster.ts ELSE inc[i].thread)
           /\ \A o \in Attempts \ {k} : entry'[o] = entry[o]
           /\ \A j \in Incidents \ {i} : inc'[j] = inc[j]
<1> DEFINE k == poster.delivery
           i == poster.inc
           root == poster.detail.thread = NoThread /\ inc[i].thread = NoThread
           seq == IF root THEN 1 ELSE inc[i].seq + 1
           th == IF root THEN poster.ts ELSE inc[i].thread
           e == [entry[k] EXCEPT !.status = "delivered", !.ts = poster.ts, !.seq = seq, !.thread = inc'[i].thread]
           f == [inc[i] EXCEPT !.seq = seq, !.thread = th]
<1>1. /\ k \in Attempts /\ i \in Incidents /\ inc[i] \in Incident /\ entry[k] \in Entry
  BY PosterFields DEF TInv, Acknowledges, Made
<1>2. inc' = [inc EXCEPT ![i] = f] /\ entry' = [entry EXCEPT ![k] = e]
  BY DEF Acknowledges, Acknowledge, UpdateEntry, WriteOutbox
<1>3. f.seq = seq /\ f.thread = th
  BY <1>1 DEF Incident
<1>4. /\ e.status = "delivered" /\ e.ts = poster.ts /\ e.seq = seq /\ e.thread = inc'[i].thread
      /\ e.at = entry[k].at
  BY <1>1 DEF Entry
<1>5. inc'[i] = f /\ \A j \in Incidents \ {i} : inc'[j] = inc[j]
  BY <1>1, <1>2 DEF TInv
<1>6. entry'[k] = e /\ \A o \in Attempts \ {k} : entry'[o] = entry[o]
  BY <1>1, <1>2 DEF TInv
<1> HIDE DEF e, f
<1>7. QED
  BY <1>1, <1>3, <1>4, <1>5, <1>6

LEMMA MessagesKept ==
    ASSUME TInv, [Next]_vars
    PROVE  \A m \in DOMAIN channel : m \in DOMAIN channel' /\ channel'[m] = channel[m]
BY ChannelSteps, ChannelType

\* A new message is the one the holder of the mutex posts.
LEMMA MessageMade ==
    ASSUME TInv, [Next]_vars, NEW m \in DOMAIN channel', channel'[m].delivery # 0
    PROVE  \/ m \in DOMAIN channel /\ channel'[m] = channel[m]
           \/ poster.pc = "post" /\ channel'[m] = AnalysisMessage(poster.delivery) /\ ThreadsKept
<1>1. CASE UNCHANGED channel
  BY <1>1
<1>2. CASE poster.pc = "post" /\ Posted(AnalysisMessage(poster.delivery))
  <2>1. AnalysisMessage(poster.delivery) \in Message
    BY <1>2, AnalysisMessageType
  <2>2. ThreadsKept
    BY <1>2, ThreadsSteps DEF ThreadsStep, ThreadLost, Acknowledges
  <2>3. QED
    BY <1>2, <2>1, <2>2, AppendStep
<1>3. CASE poster.pc = "notice" /\ Posted([inc |-> poster.inc, delivery |-> 0, thread |-> poster.detail.thread,
                                          label |-> poster.detail.resolved, at |-> 0])
  <2> DEFINE msg == [inc |-> poster.inc, delivery |-> 0, thread |-> poster.detail.thread,
                     label |-> poster.detail.resolved, at |-> 0]
  <2>1. msg \in Message
    BY <1>3, NoticeType
  <2>2. msg.delivery = 0
    OBVIOUS
  <2> HIDE DEF msg
  <2>3. QED
    BY <1>3, <2>1, <2>2, AppendStep DEF msg
<1>4. QED
  BY <1>1, <1>2, <1>3, ChannelSteps DEF ChannelStep

LEMMA PendingKept ==
    ASSUME TInv, TInv', KeptInv, RoomStep, [Next]_vars, NEW k \in Attempts, Pending(k)'
    PROVE  \/ Pending(k) /\ entry'[k].at = entry[k].at /\ IncOf(k)' = IncOf(k)
           \/ entry[k] = NoEntry /\ Queues(k) /\ Messages(k) = {}
<1>1. /\ attempt'[k] # NoAttempt /\ k \in Range(outbox'[RowOf(k)']) /\ entry'[k].status = "pending"
  BY DEF Pending, Queued
<1>2. RowOf(k)' \in Rows
  <2>1. attempt'[k] \in Attempt
    BY <1>1 DEF TInv
  <2>2. QED
    BY <2>1 DEF RowOf, Attempt
<1>3. CASE entry[k] = NoEntry
  <2>1. entry'[k] # entry[k]
    BY <1>1, <1>3 DEF NoEntry
  <2>2. entry[k].status # "pending"
    BY <1>3 DEF NoEntry
  <2>3. ~Acknowledges(k)
    BY <1>1, AcknowledgeIs DEF Acknowledges
  <2>4. Messages(k) = {}
    BY <1>3, ConstantsAssumption DEF KeptInv, Messages, Attempts
  <2>5. QED
    BY <1>3, <2>1, <2>2, <2>3, <2>4 DEF RoomStep, EntryKept, Pending
<1>4. CASE entry[k] # NoEntry
  <2>1. k \in Range(outbox[RowOf(k)'])
    BY <1>1, <1>2, <1>4 DEF RoomStep
  <2>2. k \in Made /\ RowOf(k) = RowOf(k)'
    BY <1>2, <2>1 DEF KeptInv
  <2>3. Queued(k) /\ IncOf(k)' = IncOf(k)
    BY <2>1, <2>2, KeptRow DEF Queued, Made
  <2>4. ~Acknowledges(k)
    BY <1>1, AcknowledgeIs DEF Acknowledges
  <2>5. QED
    BY <1>1, <1>4, <2>3, <2>4 DEF RoomStep, EntryKept, Pending
<1>5. QED
  BY <1>3, <1>4

\* What has been delivered stays as it is, and becomes so by a commit.
LEMMA DeliveredKept ==
    ASSUME TInv, RoomStep, NEW k \in Attempts
    PROVE  /\ entry[k].status = "delivered" => entry'[k] = entry[k]
           /\ entry'[k].status = "delivered" =>
                 entry'[k] = entry[k] \/ (k = poster.delivery /\ Acknowledges(poster.delivery))
BY DEF RoomStep, EntryKept, NoEntry, Pending, Acknowledges

LEMMA KeptStep ==
    ASSUME TInv, TInv', OutInv, KeptInv, TurnInv, RoomStep, [Next]_vars
    PROVE  KeptInv'
<1>1. ASSUME NEW k \in Attempts, entry'[k] # NoEntry
      PROVE  k \in Made' /\ (Queued(k)' \/ ~InTree(IncOf(k))')
  <2>1. CASE entry[k] # NoEntry
    <3>1. k \in Made /\ (Queued(k) \/ ~InTree(IncOf(k)))
      BY <2>1 DEF KeptInv
    <3>2. k \in Made' /\ IncOf(k)' = IncOf(k) /\ IncOf(k) \in Incidents
      BY <3>1, KeptRow
    <3>3. InTree(IncOf(k))' => InTree(IncOf(k))
      BY <3>2, IncidentSteps DEF IncidentStep, InTree
    <3>4. QED
      BY <3>1, <3>2, <3>3 DEF RoomStep
  <2>2. CASE entry[k] = NoEntry
    <3>1. k \in Made /\ Queued(k)'
      <4>1. ~Pending(k)
        BY <2>2 DEF Pending, NoEntry
      <4>2. ~Acknowledges(k)
        BY <2>2 DEF Acknowledges, TInv
      <4>3. QED
        BY <1>1, <2>2, <4>1, <4>2 DEF RoomStep, EntryKept
    <3>2. QED
      BY <3>1, KeptRow
  <2>3. QED
    BY <2>1, <2>2
<1>2. ASSUME NEW r \in Rows, NEW k \in Range(outbox'[r])
      PROVE  k \in Made' /\ RowOf(k)' = r /\ entry'[k] # NoEntry
  <2>1. k \in Made /\ RowOf(k) = r /\ (entry[k] # NoEntry \/ entry'[k] # NoEntry)
    BY <1>2 DEF RoomStep, KeptInv
  <2>2. entry[k] # NoEntry => entry'[k] # NoEntry
    BY <2>1, EntriesStep DEF EntryStep, Made
  <2>3. QED
    BY <2>1, <2>2, KeptRow
<1>3. ASSUME NEW m \in DOMAIN channel', channel'[m].delivery # 0
      PROVE  entry'[channel'[m].delivery] # NoEntry /\ channel'[m].inc = IncOf(channel[m].delivery)'
  <2> DEFINE k == channel'[m].delivery
  <2>1. k \in Made /\ entry[k] # NoEntry /\ channel'[m].inc = IncOf(k)
    <3>1. CASE m \in DOMAIN channel /\ channel'[m] = channel[m]
      <4>1. channel \in Seq(Message) /\ DOMAIN channel = 1..Len(channel)
        BY LenProperties DEF TInv
      <4>2. channel[m] \in Message
        BY <3>1, <4>1, ElementOfSeq
      <4>3. k \in Attempts
        BY <1>3, <3>1, <4>2, ConstantsAssumption DEF Message, Attempts
      <4>4. QED
        BY <1>3, <3>1, <4>3 DEF KeptInv
    <3>2. CASE poster.pc = "post" /\ channel'[m] = AnalysisMessage(poster.delivery)
      BY <3>2 DEF AnalysisMessage, TInv, TurnInv
    <3>3. QED
      BY <1>3, <3>1, <3>2, MessageMade
  <2>2. entry'[k] # NoEntry
    BY <2>1, EntriesStep DEF EntryStep, Made
  <2>3. attempt'[k].row = attempt[k].row
    BY <2>1, AttemptsStep DEF AttemptStep
  <2>4. QED
    BY <2>1, <2>2, <2>3 DEF IncOf, RowOf
<1>4. QED
  BY <1>1, <1>2, <1>3 DEF KeptInv

\* How the holder of the mutex got where it is.
LEMMA HolderKept ==
    ASSUME TInv, [Next]_vars, poster'.pc \in {"decide", "post", "commit", "reset"}
    PROVE  /\ ThreadsKept
           /\ \/ poster' = poster
              \/ /\ \E k \in Made : poster'.delivery = k /\ poster'.inc = IncOf(k) /\ poster'.detail = inc[IncOf(k)]
                 /\ poster'.pc = "decide" /\ UNCHANGED inc
              \/ /\ poster'.delivery = poster.delivery /\ poster'.inc = poster.inc
                 /\ poster'.detail = poster.detail
                 /\ \/ /\ poster.pc = "decide" /\ poster'.pc = "post" /\ IsHead(poster.delivery)
                       /\ poster'.at = entry[poster.delivery].at
                    \/ poster.pc = "post" /\ poster'.pc = "commit" /\ poster'.at = poster.at /\ PostAccepted
                    \/ poster.pc = "post" /\ poster'.pc = "reset" /\ poster.detail.thread \in removed
<1>1. ASSUME NEW k \in Attempts, Lock(k)
      PROVE  /\ k \in Made /\ poster'.delivery = k /\ poster'.inc = IncOf(k) /\ poster'.detail = inc[IncOf(k)]
             /\ poster'.pc = "decide" /\ UNCHANGED inc /\ ThreadsKept
  BY <1>1, LockStep DEF Lock, storeVars, ThreadsKept
<1>2. ~\E i \in Incidents : LockNotice(i) /\ InTree(i)
  BY DEF LockNotice
<1>3. ASSUME PostAccepted
      PROVE  /\ poster.pc = "post" /\ poster'.pc = "commit" /\ poster'.at = poster.at
             /\ poster'.delivery = poster.delivery /\ poster'.inc = poster.inc /\ poster'.detail = poster.detail
  BY <1>3, AcceptedStep, PosterFields DEF Poster
<1>4. ASSUME /\ poster.pc = "decide" /\ poster' = [poster EXCEPT !.pc = "post", !.at = entry[poster.delivery].at]
             /\ IsHead(poster.delivery)
      PROVE  /\ poster'.pc = "post" /\ poster'.at = entry[poster.delivery].at
             /\ poster'.delivery = poster.delivery /\ poster'.inc = poster.inc /\ poster'.detail = poster.detail
  BY <1>4, PosterFields DEF Poster
<1>5. ASSUME poster.pc = "post", poster' = [poster EXCEPT !.pc = "reset"], PostFindsNoThread
      PROVE  /\ poster'.pc = "reset" /\ poster.detail.thread \in removed
             /\ poster'.delivery = poster.delivery /\ poster'.inc = poster.inc /\ poster'.detail = poster.detail
  BY <1>5, PosterFields DEF Poster, PostFindsNoThread
<1>6. ASSUME poster.pc = "commit", poster' = [poster EXCEPT !.pc = "notice", !.detail.thread = poster.ts]
      PROVE  FALSE
  BY <1>6, PosterFields DEF Poster
<1>7. CASE poster' = poster
  BY <1>7, ThreadsSteps DEF ThreadsStep, ThreadLost, Acknowledges, Idle
<1>8. poster' # Idle
  BY DEF Idle
<1>9. poster.pc \in {"decide", "post"} => ThreadsKept
  BY ThreadsSteps DEF ThreadsStep, ThreadLost, Acknowledges
<1>10. QED
  BY <1>1, <1>2, <1>3, <1>4, <1>5, <1>6, <1>7, <1>8, <1>9, PosterSteps DEF PosterStep

LEMMA HolderEntry ==
    ASSUME TInv, TInv', OutInv, KeptInv, TurnInv, RoomStep, [Next]_vars, poster'.pc \in {"post", "commit"}
    PROVE  entry'[poster'.delivery].at = poster'.at
<1> DEFINE d == poster'.delivery
<1>0. /\ d = poster.delivery
      /\ \/ poster.pc \in {"post", "commit"} /\ poster'.at = poster.at
         \/ poster.pc = "decide" /\ IsHead(poster.delivery) /\ poster'.at = entry[poster.delivery].at
  BY HolderKept
<1>1. /\ d \in Made /\ d \in Attempts
      /\ \/ poster.pc \in {"post", "commit"} /\ poster'.at = poster.at
         \/ poster.pc = "decide" /\ Pending(d) /\ poster'.at = entry[d].at
  BY <1>0 DEF TInv, Made, IsHead
<1>2. entry[d] # NoEntry /\ poster'.at = entry[d].at
  BY <1>0, <1>1 DEF TInv, TurnInv, Pending, NoEntry
<1>3. Acknowledges(d) => entry'[d].at = entry[d].at
  BY <1>0, AcknowledgeIs
<1>4. QED
  BY <1>1, <1>2, <1>3 DEF RoomStep, EntryKept

\* A delivery with a message has been begun, so none that waits is older.
LEMMA HolderFirst ==
    ASSUME TInv, TInv', OutInv, KeptInv, TurnInv, RoomStep, [Next]_vars, poster'.pc \in {"post", "commit"},
           NEW k \in Attempts, k # poster'.delivery, Pending(k)', IncOf(k)' = poster'.inc,
           NEW m \in DOMAIN channel', channel'[m].delivery = k
    PROVE  FALSE
<1>1. k # 0
  BY ConstantsAssumption DEF Attempts
<1>2. poster'.delivery = poster.delivery /\ poster'.inc = poster.inc /\ poster.pc \in {"decide", "post", "commit"}
      /\ (poster.pc = "decide" => IsHead(poster.delivery))
  BY HolderKept
<1>3. ~(poster.pc = "post" /\ channel'[m] = AnalysisMessage(poster.delivery))
  BY <1>2, AnalysisMessageType
<1>4. m \in DOMAIN channel /\ channel[m].delivery = k
  BY <1>1, <1>3, MessageMade
<1>5. m \in Messages(k) /\ Pending(k) /\ IncOf(k) = poster.inc
  BY <1>4, <1>2, PendingKept DEF Messages
<1>6. poster.pc = "decide" /\ IsHead(poster.delivery) /\ poster.inc = IncOf(poster.delivery)
  BY <1>2, <1>5 DEF TurnInv
<1>7. poster.delivery \in Attempts /\ Pending(poster.delivery)
  BY <1>6 DEF TInv, Made, IsHead
<1>8. entry[k].at <= entry[poster.delivery].at
  BY <1>5, <1>6, <1>7 DEF TurnInv
<1>9. entry[poster.delivery].at < entry[k].at
  BY <1>2, <1>5, <1>6 DEF IsHead, PendingSet
<1>10. QED
  BY <1>5, <1>7, <1>8, <1>9, PendingTime

LEMMA FirstPosted ==
    ASSUME TInv, TInv', OutInv, OrderInv, KeptInv, TurnInv, RoomStep, [Next]_vars,
           NEW k \in Attempts, NEW o \in Attempts, Pending(k)', Pending(o)', IncOf(k)' = IncOf(o)',
           NEW m \in DOMAIN channel', channel'[m].delivery = k
    PROVE  entry'[k].at <= entry'[o].at
<1>1. k # 0
  BY ConstantsAssumption DEF Attempts
<1>2. Messages(k) # {} \/ (poster.pc = "post" /\ poster.delivery = k)
  BY <1>1, MessageMade DEF Messages, AnalysisMessage
<1>3. Pending(k) /\ entry'[k].at = entry[k].at /\ IncOf(k)' = IncOf(k)
  BY <1>2, PendingKept DEF TInv
<1>4. entry[k].at \in Nat /\ entry[k].at <= stamp /\ stamp \in Nat
  BY <1>3, PendingTime DEF OrderInv, TInv
<1>5. CASE Queues(o)
  BY <1>3, <1>4, <1>5 DEF Queues
<1>6. CASE Pending(o) /\ entry'[o].at = entry[o].at /\ IncOf(o)' = IncOf(o)
  <2>1. CASE Messages(k) # {}
    BY <1>3, <1>6, <2>1 DEF TurnInv
  <2>2. CASE poster.pc = "post" /\ poster.delivery = k
    BY <1>3, <1>6, <2>2 DEF TurnInv, OrderInv
  <2>3. QED
    BY <1>2, <2>1, <2>2
<1>7. QED
  BY <1>5, <1>6, PendingKept

LEMMA RemovedKept ==
    ASSUME [Next]_vars
    PROVE  removed \subseteq removed'
BY RemovedSteps

LEMMA TurnStep ==
    ASSUME TInv, TInv', OutInv, OrderInv, KeptInv, TurnInv, RoomStep, [Next]_vars
    PROVE  TurnInv'
<1>1. ASSUME poster'.pc \in {"decide", "post", "commit", "reset"}
      PROVE  /\ poster'.inc = IncOf(poster.delivery)'
             /\ poster'.detail.thread = inc'[poster'.inc].thread
             /\ poster'.detail.seq = inc'[poster'.inc].seq
  <2>1. poster'.delivery \in Made /\ poster'.inc = IncOf(poster'.delivery)
    BY <1>1, HolderKept DEF TurnInv, TInv
  <2>2. attempt'[poster'.delivery].row = attempt[poster'.delivery].row
    BY <2>1, AttemptsStep DEF AttemptStep
  <2>3. poster'.inc = IncOf(poster.delivery)' /\ poster'.inc \in Incidents
    BY <2>1, <2>2, KeptRow DEF IncOf, RowOf
  <2>4. poster'.detail.thread = inc[poster'.inc].thread /\ poster'.detail.seq = inc[poster'.inc].seq
    BY <1>1, HolderKept DEF TurnInv
  <2>5. QED
    BY <1>1, <2>3, <2>4, HolderKept DEF ThreadsKept
<1>2. ASSUME poster'.pc \in {"post", "commit"}
      PROVE  /\ entry'[poster'.delivery].at = poster'.at
             /\ \A k \in Attempts \ {poster'.delivery} :
                   Pending(k)' /\ IncOf(k)' = poster'.inc => Messages(k)' = {}
  BY <1>2, HolderEntry, HolderFirst DEF Messages
<1>3. poster'.pc = "reset" => poster'.detail.thread \in removed'
  BY HolderKept, RemovedKept DEF TurnInv
<1>4. \A k, o \in Attempts :
         Pending(k)' /\ Pending(o)' /\ IncOf(k)' = IncOf(o)' /\ Messages(k)' # {}
             => entry'[k].at <= entry'[o].at
  BY FirstPosted DEF Messages
<1>5. QED
  BY <1>1, <1>2, <1>3, <1>4 DEF TurnInv

\* A delivery that may still be posted.
Open(k) == Pending(k) \/ (poster.pc = "post" /\ poster.delivery = k)

\* A message whose delivery is not settled is under the incident's thread and
\* shows the ordinal that is next; so is the message a commit is about.
LabelInv ==
    /\ \A k \in Attempts : Open(k) => \A m \in SameId(k) :
          /\ channel[m].thread = inc[IncOf(k)].thread
          /\ channel[m].label = NextLabel(inc[IncOf(k)])
    /\ poster.pc = "commit" =>
          /\ poster.ts \in DOMAIN channel /\ channel[poster.ts].delivery = poster.delivery
          /\ channel[poster.ts].label = NextLabel(poster.detail)

LEMMA OpenBefore ==
    ASSUME TInv, TInv', KeptInv, RoomStep, [Next]_vars, NEW k \in Attempts, Open(k)', Messages(k) # {}
    PROVE  Open(k) /\ IncOf(k)' = IncOf(k) /\ IncOf(k) \in Incidents
<1>1. CASE Pending(k)'
  <2>1. Pending(k) /\ IncOf(k)' = IncOf(k)
    BY <1>1, PendingKept
  <2>2. k \in Made
    BY <2>1 DEF Pending, Queued, Made
  <2>3. QED
    BY <2>1, <2>2, KeptRow DEF Open
<1>2. CASE poster'.pc = "post" /\ poster'.delivery = k
  <2>1. (poster.pc = "post" /\ poster.delivery = k) \/ (IsHead(k) /\ poster.pc = "decide" /\ poster.delivery = k)
    BY <1>2, HolderKept
  <2>2. k \in Made /\ Open(k)
    BY <2>1 DEF TInv, Open, IsHead
  <2>3. QED
    BY <2>2, KeptRow
<1>3. QED
  BY <1>1, <1>2 DEF Open

LEMMA NextLabelOf ==
    ASSUME NEW d, NEW e, d.thread = e.thread, d.seq = e.seq
    PROVE  NextLabel(d) = NextLabel(e)
BY DEF NextLabel

LEMMA LabelOld ==
    ASSUME TInv, TInv', KeptInv, TurnInv, LabelInv, RoomStep, removed \subseteq DOMAIN channel, [Next]_vars,
           NEW k \in Attempts, Open(k)', NEW m \in DOMAIN channel, channel[m].delivery = k,
           m \notin removed', channel[m].thread = NoThread \/ channel[m].thread \notin removed'
    PROVE  /\ channel[m].thread = inc'[IncOf(k)'].thread
           /\ channel[m].label = NextLabel(inc'[IncOf(k)'])
<1> DEFINE i == IncOf(k)
<1>1. m \in Messages(k)
  BY DEF Messages
<1>2. Open(k) /\ IncOf(k)' = i /\ i \in Incidents
  BY <1>1, OpenBefore
<1>3. m \in SameId(k)
  BY RemovedKept DEF SameId, Alive
<1>4. channel[m].thread = inc[i].thread /\ channel[m].label = NextLabel(inc[i])
  BY <1>2, <1>3 DEF LabelInv
<1> HIDE DEF i
<1>5. inc'[i].thread = inc[i].thread /\ inc'[i].seq = inc[i].seq
  <2>1. CASE ThreadsKept
    BY <1>2, <2>1 DEF ThreadsKept
  <2>2. CASE ThreadLost
    <3>1. CASE i = poster.inc
      <4>1. channel[m].thread = poster.detail.thread /\ poster.detail.thread \in removed
        BY <1>4, <2>2, <3>1 DEF ThreadLost, TurnInv
      <4>2. 0 \notin DOMAIN channel
        BY LenProperties DEF TInv
      <4>3. QED
        BY <4>1, <4>2, RemovedKept DEF NoThread
    <3>2. CASE i # poster.inc
      BY <1>2, <2>2, <3>2 DEF ThreadLost
    <3>3. QED
      BY <3>1, <3>2
  <2>3. CASE Acknowledges(poster.delivery) /\ poster'.pc \in {"idle", "notice"}
    <3>1. CASE i = poster.inc
      <4>1. k # poster.delivery
        BY <2>3, AcknowledgeIs DEF Open, Pending
      <4>2. Pending(k)
        BY <1>1, <2>3, PendingKept DEF Open
      <4>3. QED
        BY <1>1, <2>3, <3>1, <4>1, <4>2 DEF TurnInv, i, Acknowledges
    <3>2. CASE i # poster.inc
      BY <1>2, <2>3, <3>2, AcknowledgeIs
    <3>3. QED
      BY <3>1, <3>2
  <2>4. QED
    BY <2>1, <2>2, <2>3, ThreadsSteps DEF ThreadsStep
<1>6. QED
  BY <1>2, <1>4, <1>5, NextLabelOf

LEMMA LabelNew ==
    ASSUME TInv, TInv', KeptInv, TurnInv, RoomStep, [Next]_vars,
           NEW k \in Attempts, NEW m \in DOMAIN channel',
           poster.pc = "post", poster.delivery = k, ThreadsKept, channel'[m] = AnalysisMessage(k)
    PROVE  /\ channel'[m].thread = inc'[IncOf(k)'].thread
           /\ channel'[m].label = NextLabel(inc'[IncOf(k)'])
<1>1. k \in Made /\ poster.inc = IncOf(k)
  BY DEF TInv, TurnInv
<1>2. IncOf(k)' = IncOf(k) /\ IncOf(k) \in Incidents
  BY <1>1, KeptRow
<1>3. channel'[m].thread = poster.detail.thread /\ channel'[m].label = NextLabel(poster.detail)
  BY DEF AnalysisMessage
<1>4. /\ poster.detail.thread = inc'[IncOf(k)].thread
      /\ poster.detail.seq = inc'[IncOf(k)].seq
  BY <1>1, <1>2 DEF TurnInv, ThreadsKept
<1>5. QED
  BY <1>2, <1>3, <1>4, NextLabelOf

LEMMA LabelCommitted ==
    ASSUME TInv, KeptInv, TurnInv, LabelInv, PostAccepted
    PROVE  /\ poster'.ts \in DOMAIN channel' /\ channel'[poster'.ts].delivery = poster'.delivery
           /\ channel'[poster'.ts].label = NextLabel(poster'.detail)
<1> DEFINE k == poster.delivery
<1>1. /\ poster.pc = "post" /\ Len(channel) \in Nat /\ poster \in Poster
      /\ AnalysisMessage(k) \in Message /\ AnalysisMessage(k).delivery = k
      /\ AnalysisMessage(k).label = NextLabel(poster.detail)
      /\ k \in Made /\ k \in Attempts /\ poster.inc = IncOf(k)
  BY LenProperties, AnalysisMessageType, PosterFields DEF TInv, PostAccepted, AnalysisMessage, Made, TurnInv
<1>2. PICK ts \in 1..(Len(channel) + 1) :
          /\ Accept(AnalysisMessage(k), SameId(k), ts)
          /\ poster' = [poster EXCEPT !.pc = "commit", !.ts = ts]
  BY DEF PostAccepted
<1>3. poster'.ts = ts /\ poster'.delivery = k /\ poster'.detail = poster.detail
  BY <1>1, <1>2 DEF Poster
<1>4. CASE Posted(AnalysisMessage(k)) /\ ts = Len(channel) + 1
  BY <1>1, <1>3, <1>4, AppendStep
<1>5. CASE UNCHANGED channel /\ ts \in SameId(k)
  <2>1. channel[ts].label = NextLabel(inc[poster.inc])
    BY <1>1, <1>5 DEF LabelInv, Open
  <2>2. NextLabel(inc[poster.inc]) = NextLabel(poster.detail)
    BY <1>1, NextLabelOf DEF TurnInv
  <2>3. QED
    BY <1>3, <1>5, <2>1, <2>2 DEF SameId
<1>6. QED
  BY <1>2, <1>4, <1>5 DEF Accept, Posted

LEMMA LabelStep ==
    ASSUME TInv, TInv', KeptInv, TurnInv, LabelInv, RoomStep, removed \subseteq DOMAIN channel, [Next]_vars
    PROVE  LabelInv'
<1>1. ASSUME NEW k \in Attempts, Open(k)', NEW m \in DOMAIN channel', channel'[m].delivery = k,
             m \notin removed', channel'[m].thread = NoThread \/ channel'[m].thread \notin removed'
      PROVE  /\ channel'[m].thread = inc'[IncOf(k)'].thread
             /\ channel'[m].label = NextLabel(inc'[IncOf(k)'])
  <2>1. k # 0
    BY ConstantsAssumption DEF Attempts
  <2>2. CASE m \in DOMAIN channel /\ channel'[m] = channel[m]
    BY <1>1, <2>2, LabelOld
  <2>3. CASE poster.pc = "post" /\ channel'[m] = AnalysisMessage(poster.delivery) /\ ThreadsKept
    <3>1. poster.delivery = k
      BY <1>1, <2>3 DEF AnalysisMessage
    <3>2. QED
      BY <2>3, <3>1, LabelNew
  <2>4. QED
    BY <1>1, <2>1, <2>2, <2>3, MessageMade
<1>2. ASSUME poster'.pc = "commit"
      PROVE  /\ poster'.ts \in DOMAIN channel' /\ channel'[poster'.ts].delivery = poster'.delivery
             /\ channel'[poster'.ts].label = NextLabel(poster'.detail)
  <2>1. CASE poster' = poster
    BY <1>2, <2>1, MessagesKept DEF LabelInv
  <2>2. CASE PostAccepted
    BY <2>2, LabelCommitted
  <2>3. QED
    BY <1>2, <2>1, <2>2, HolderKept
<1>3. QED
  BY <1>1, <1>2 DEF LabelInv, SameId, Alive, NextLabel

\* Place t of the channel holds an acknowledged message of incident i.
RootIn(i, t, entries, messages) ==
    /\ t \in DOMAIN messages /\ messages[t].inc = i /\ messages[t].delivery \in Attempts
    /\ entries[messages[t].delivery].status = "delivered"

\* A thread hangs from an acknowledged message of its incident, and the ordinals
\* in it go up to the one the incident keeps.
ThreadInv ==
    /\ \A i \in Incidents : inc[i].thread # NoThread => inc[i].seq >= 1 /\ RootIn(i, inc[i].thread, entry, channel)
    /\ \A k \in Attempts : entry[k].status = "delivered" =>
          /\ RootIn(IncOf(k), entry[k].thread, entry, channel)
          /\ entry[k].thread = inc[IncOf(k)].thread => entry[k].seq <= inc[IncOf(k)].seq

LEMMA RootKept ==
    ASSUME TInv, RoomStep, [Next]_vars, NEW i, NEW t, RootIn(i, t, entry, channel)
    PROVE  RootIn(i, t, entry', channel')
BY MessagesKept, DeliveredKept DEF RootIn

\* The message that is acknowledged was not yet, so it is nobody's thread.
LEMMA NotARoot ==
    ASSUME LabelInv, Acknowledges(poster.delivery), NEW i
    PROVE  ~RootIn(i, poster.ts, entry, channel)
BY DEF RootIn, LabelInv, Acknowledges

LEMMA CommitRoot ==
    ASSUME TInv, TInv', KeptInv, TurnInv, LabelInv, ThreadInv, RoomStep, [Next]_vars,
           NEW k, NEW i, Acknowledges(k), i = poster.inc
    PROVE  /\ k \in Attempts /\ i \in Incidents /\ i = IncOf(k) /\ IncOf(k)' = i
           /\ inc'[i].thread # NoThread /\ inc'[i].seq >= 1 /\ RootIn(i, inc'[i].thread, entry', channel')
           /\ inc'[i].seq = NextLabel(poster.detail)
           /\ (inc'[i].seq = 1) <=> (inc'[i].thread = poster.ts)
           /\ \/ inc[i].thread = NoThread /\ inc'[i].thread = poster.ts /\ inc'[i].seq = 1
              \/ inc[i].thread # NoThread /\ inc'[i].thread = inc[i].thread /\ inc'[i].seq = inc[i].seq + 1
           /\ inc[i].seq \in Nat /\ inc'[i].seq \in Nat
<1>0. poster.delivery = k /\ poster.inc = i /\ Acknowledges(poster.delivery)
  BY DEF Acknowledges
<1>1. /\ k \in Attempts /\ k \in Made /\ i \in Incidents /\ i = IncOf(k) /\ IncOf(k)' = i
      /\ poster.detail.thread = inc[i].thread /\ poster.detail.seq = inc[i].seq
  <2>1. k = poster.delivery /\ k \in Made /\ poster.pc = "commit"
    BY DEF Acknowledges, TInv
  <2>2. QED
    BY <2>1, KeptRow DEF TurnInv, Made
<1>2. inc[i].seq \in Nat /\ inc[i].thread \in Nat
  <2>1. inc[i] \in Incident
    BY <1>1 DEF TInv
  <2>2. QED
    BY <2>1 DEF Incident
<1>3. /\ poster.delivery = k /\ poster.ts \in DOMAIN channel /\ channel[poster.ts].delivery = k /\ poster.ts # NoThread
      /\ channel[poster.ts].inc = i
  <2>1. poster.delivery = k /\ poster.ts \in DOMAIN channel /\ channel[poster.ts].delivery = k
    BY DEF LabelInv, Acknowledges
  <2>2. 0 \notin DOMAIN channel /\ k # 0
    BY <1>1, LenProperties, ConstantsAssumption DEF TInv, Attempts
  <2>3. QED
    BY <1>1, <2>1, <2>2 DEF KeptInv, NoThread
<1>4. /\ entry'[k].status = "delivered"
      /\ \/ inc[i].thread = NoThread /\ inc'[i].thread = poster.ts /\ inc'[i].seq = 1
         \/ inc[i].thread # NoThread /\ inc'[i].thread = inc[i].thread /\ inc'[i].seq = inc[i].seq + 1
  BY <1>0, <1>1, AcknowledgeIs
<1>5. RootIn(i, poster.ts, entry', channel')
  BY <1>1, <1>3, <1>4, MessagesKept DEF RootIn
<1>6. CASE inc[i].thread = NoThread
  BY <1>1, <1>2, <1>3, <1>4, <1>5, <1>6 DEF NextLabel
<1>7. CASE inc[i].thread # NoThread
  <2>1. inc[i].seq >= 1 /\ RootIn(i, inc[i].thread, entry, channel)
    BY <1>1, <1>7 DEF ThreadInv
  <2>2. RootIn(i, inc[i].thread, entry', channel') /\ inc[i].thread # poster.ts
    BY <1>0, <2>1, RootKept, NotARoot
  <2>3. QED
    BY <1>1, <1>2, <1>4, <1>7, <2>1, <2>2 DEF NextLabel
<1>8. QED
  BY <1>6, <1>7

LEMMA ThreadIncident ==
    ASSUME TInv, TInv', KeptInv, TurnInv, LabelInv, ThreadInv, RoomStep, [Next]_vars,
           NEW i \in Incidents, inc'[i].thread # NoThread
    PROVE  inc'[i].seq >= 1 /\ RootIn(i, inc'[i].thread, entry', channel')
<1>1. CASE inc'[i].thread = inc[i].thread /\ inc'[i].seq = inc[i].seq
  BY <1>1, RootKept DEF ThreadInv
<1>2. CASE ThreadLost
  BY <1>1, <1>2 DEF ThreadLost
<1>3. CASE Acknowledges(poster.delivery)
  BY <1>1, <1>3, CommitRoot, AcknowledgeIs
<1>4. QED
  BY <1>1, <1>2, <1>3, ThreadsSteps DEF ThreadsStep, ThreadsKept

LEMMA DeliveredRow ==
    ASSUME TInv, KeptInv, [Next]_vars, NEW k \in Attempts, entry[k].status = "delivered"
    PROVE  IncOf(k)' = IncOf(k) /\ IncOf(k) \in Incidents /\ entry[k].seq \in Nat
<1>1. entry[k] \in Entry /\ entry[k] # NoEntry
  BY EntryKnown DEF NoEntry
<1>2. QED
  BY <1>1, KeptRow DEF KeptInv, Entry

LEMMA ThreadDelivered ==
    ASSUME TInv, TInv', KeptInv, TurnInv, LabelInv, ThreadInv, RoomStep, [Next]_vars,
           NEW k \in Attempts, entry'[k].status = "delivered"
    PROVE  /\ RootIn(IncOf(k)', entry'[k].thread, entry', channel')
           /\ entry'[k].thread = inc'[IncOf(k)'].thread => entry'[k].seq <= inc'[IncOf(k)'].seq
<1>1. CASE k = poster.delivery /\ Acknowledges(poster.delivery)
  <2>1. entry'[k].thread = inc'[poster.inc].thread /\ entry'[k].seq = inc'[poster.inc].seq
    BY <1>1, AcknowledgeIs
  <2>2. IncOf(k)' = poster.inc /\ inc'[poster.inc].seq \in Nat
    BY <1>1, CommitRoot
  <2>3. QED
    BY <1>1, <2>1, <2>2, CommitRoot
<1>2. CASE entry'[k] = entry[k]
  <2> DEFINE i == IncOf(k)
  <2>1. /\ IncOf(k)' = i /\ i \in Incidents /\ entry[k].status = "delivered"
        /\ RootIn(i, entry[k].thread, entry, channel) /\ entry[k].seq \in Nat
        /\ entry[k].thread = inc[i].thread => entry[k].seq <= inc[i].seq
    BY <1>2, DeliveredRow DEF ThreadInv
  <2>2. RootIn(i, entry[k].thread, entry', channel')
    BY <2>1, RootKept
  <2> HIDE DEF i
  <2>3. ASSUME entry[k].thread = inc'[i].thread PROVE entry[k].seq <= inc'[i].seq
    <3>1. CASE inc'[i].thread = inc[i].thread /\ inc'[i].seq = inc[i].seq
      BY <2>1, <2>3, <3>1
    <3>2. CASE ThreadLost
      <4>1. 0 \notin DOMAIN channel
        BY LenProperties DEF TInv
      <4>2. entry[k].thread # NoThread
        BY <2>1, <4>1 DEF RootIn, NoThread
      <4>3. QED
        BY <2>1, <2>3, <3>1, <3>2, <4>2 DEF ThreadLost
    <3>3. CASE Acknowledges(poster.delivery)
      <4>1. CASE i = poster.inc
        <5>1. entry[k].thread # poster.ts
          BY <2>1, <3>3, NotARoot
        <5>2. inc'[i].thread = inc[i].thread /\ inc'[i].seq = inc[i].seq + 1 /\ inc[i].seq \in Nat
          BY <2>3, <3>3, <4>1, <5>1, CommitRoot
        <5>3. QED
          BY <2>1, <2>3, <5>2
      <4>2. CASE i # poster.inc
        BY <2>1, <3>1, <3>3, <4>2, AcknowledgeIs
      <4>3. QED
        BY <4>1, <4>2
    <3>4. QED
      BY <2>1, <3>1, <3>2, <3>3, ThreadsSteps DEF ThreadsStep, ThreadsKept
  <2>4. QED
    BY <1>2, <2>1, <2>2, <2>3
<1>3. CASE entry[k].status # "delivered"
  BY <1>1, <1>2, DeliveredKept
<1>4. QED
  BY <1>1, <1>2, DeliveredKept

\* Two acknowledged messages of a thread, one of them just now.
LEMMA NumberedApart ==
    ASSUME TInv, TInv', KeptInv, TurnInv, LabelInv, ThreadInv, RoomStep, [Next]_vars,
           Acknowledges(poster.delivery), NEW o \in Attempts, entry[o].status = "delivered",
           entry[o].thread = entry'[poster.delivery].thread
    PROVE  entry[o].seq # entry'[poster.delivery].seq
<1> DEFINE i == poster.inc
<1>1. entry[o].thread = inc'[i].thread /\ entry'[poster.delivery].seq = inc'[i].seq
  BY AcknowledgeIs
<1>2. RootIn(IncOf(o), entry[o].thread, entry, channel)
  BY DEF ThreadInv
<1>3. inc'[i].thread = inc[i].thread /\ inc[i].thread # NoThread /\ inc'[i].seq = inc[i].seq + 1 /\ inc[i].seq \in Nat
      /\ i \in Incidents
  BY <1>1, <1>2, NotARoot, CommitRoot
<1>4. IncOf(o) = i
  BY <1>1, <1>2, <1>3 DEF RootIn, ThreadInv
<1>5. entry[o].seq <= inc[i].seq /\ entry[o].seq \in Nat
  BY <1>1, <1>3, <1>4, DeliveredRow DEF ThreadInv
<1>6. QED
  BY <1>1, <1>3, <1>5

LEMMA NumberedStep ==
    ASSUME TInv, TInv', KeptInv, TurnInv, LabelInv, ThreadInv, RoomStep, SilentInv, NumberedInThread, [Next]_vars
    PROVE  NumberedInThread'
<1> SUFFICES ASSUME NEW k \in Attempts, entry'[k].status = "delivered"
             PROVE  /\ channel'[entry'[k].ts].delivery = k
                    /\ channel'[entry'[k].ts].label = entry'[k].seq
                    /\ (entry'[k].seq = 1) <=> (entry'[k].thread = entry'[k].ts)
                    /\ \A o \in Attempts \ {k} :
                          entry'[o].status = "delivered" /\ entry'[o].thread = entry'[k].thread
                              => entry'[o].seq # entry'[k].seq
  BY DEF NumberedInThread
<1>1. CASE k = poster.delivery /\ Acknowledges(poster.delivery)
  <2>1. /\ poster.ts \in DOMAIN channel /\ channel[poster.ts].delivery = k
        /\ channel[poster.ts].label = NextLabel(poster.detail)
    BY <1>1 DEF LabelInv, Acknowledges
  <2>2. /\ entry'[k].ts = poster.ts /\ entry'[k].seq = NextLabel(poster.detail)
        /\ (entry'[k].seq = 1) <=> (entry'[k].thread = entry'[k].ts)
    BY <1>1, AcknowledgeIs, CommitRoot
  <2>3. ASSUME NEW o \in Attempts \ {k}, entry'[o].status = "delivered", entry'[o].thread = entry'[k].thread
        PROVE  entry'[o].seq # entry'[k].seq
    <3>1. entry'[o] = entry[o]
      BY <1>1, <2>3, AcknowledgeIs
    <3>2. QED
      BY <1>1, <2>3, <3>1, NumberedApart
  <2>4. QED
    BY <2>1, <2>2, <2>3, MessagesKept
<1>2. CASE entry'[k] = entry[k] /\ entry[k].status = "delivered"
  <2>1. entry[k].ts \in DOMAIN channel
    BY <1>2 DEF SilentInv
  <2>2. ASSUME NEW o \in Attempts \ {k}, entry'[o].status = "delivered", entry'[o].thread = entry'[k].thread
        PROVE  entry'[o].seq # entry'[k].seq
    <3>1. CASE o = poster.delivery /\ Acknowledges(poster.delivery)
      BY <1>2, <2>2, <3>1, NumberedApart
    <3>2. CASE entry'[o] = entry[o]
      BY <1>2, <2>2, <3>2 DEF NumberedInThread
    <3>3. QED
      BY <2>2, <3>1, <3>2, DeliveredKept
  <2>3. QED
    BY <1>2, <2>1, <2>2, MessagesKept DEF NumberedInThread
<1>3. QED
  BY <1>1, <1>2, DeliveredKept

NumberedInv == KeptInv /\ TurnInv /\ LabelInv /\ ThreadInv /\ NumberedInThread

\* While no row has had more attempts than its outbox holds, the channel shows
\* the ordinals the store has recorded.  Beyond that the cap may drop a delivery
\* that was acknowledged before its run is reported, and it is queued again.
THEOREM NumberedInThreadHolds == Spec => [](Roomy => NumberedInThread)
<1>1. Init => NumberedInv /\ BoundsInv /\ OutInv /\ OrderInv
  <2> SUFFICES ASSUME Init PROVE NumberedInv /\ BoundsInv /\ OutInv /\ OrderInv
    OBVIOUS
  <2>1. OutInv
    BY EmptySeq DEF Init, OutInv, IsInjective
  <2>2. /\ poster.pc = "idle" /\ DOMAIN channel = {} /\ removed = {}
        /\ \A k \in Attempts : ~Pending(k) /\ entry[k] = NoEntry /\ entry[k].status # "delivered"
        /\ \A r \in Rows : Range(outbox[r]) = {}
        /\ \A i \in Incidents : inc[i].thread = NoThread
    BY DEF Init, Idle, Pending, Queued, NoEntry, Range
  <2>3. OrderInv
    BY <2>2 DEF OrderInv, PostedInOrder, Analyses
  <2>4. KeptInv
    BY <2>2 DEF KeptInv
  <2>5. TurnInv /\ LabelInv /\ ThreadInv /\ NumberedInThread
    BY <2>2 DEF TurnInv, LabelInv, Open, ThreadInv, NumberedInThread
  <2>6. 0 \in 0..MaxDisruptions /\ 0 \in -1..MaxAttempts
    BY ConstantsAssumption
  <2>7. BoundsInv
    BY <2>6 DEF Init, BoundsInv
  <2>8. QED
    BY <2>1, <2>3, <2>4, <2>5, <2>7 DEF NumberedInv
<1>2. TInv /\ TInv' /\ OutInv /\ OrderInv /\ BoundsInv /\ [Next]_vars => OutInv' /\ OrderInv' /\ BoundsInv'
  BY OutInvStep, OrderStep, BoundsStep
<1>3. /\ TInv /\ TInv' /\ OutInv /\ OrderInv /\ BoundsInv /\ SilentInv
      /\ (Roomy => NumberedInv) /\ [Next]_vars
      => (Roomy => NumberedInv)'
  <2> SUFFICES ASSUME TInv, TInv', OutInv, OrderInv, BoundsInv, SilentInv, Roomy => NumberedInv, [Next]_vars, Roomy'
               PROVE  NumberedInv'
    OBVIOUS
  <2>1. KeptInv /\ TurnInv /\ LabelInv /\ ThreadInv /\ NumberedInThread
    BY RoomyBefore DEF NumberedInv
  <2>2. RoomStep
    BY <2>1, RoomSteps
  <2>3. KeptInv'
    BY <2>1, <2>2, KeptStep
  <2>4. TurnInv'
    BY <2>1, <2>2, TurnStep
  <2>5. LabelInv'
    BY <2>1, <2>2, LabelStep DEF BoundsInv
  <2>6. ThreadInv'
    BY <2>1, <2>2, ThreadIncident, ThreadDelivered DEF ThreadInv
  <2>7. NumberedInThread'
    BY <2>1, <2>2, NumberedStep
  <2>8. QED
    BY <2>3, <2>4, <2>5, <2>6, <2>7 DEF NumberedInv
<1>4. NumberedInv => NumberedInThread
  BY DEF NumberedInv
<1>5. QED
  BY <1>1, <1>2, <1>3, <1>4, TypesAlways, SilentAlways, PTL DEF Spec
=============================================================================
