---------------------------- MODULE AnalysisRuns ----------------------------
(***************************************************************************)
(* The life of an RCA analysis run in the backend                          *)
(* (backend/internal/server/analysis_runs.go, store.go, memory.go).        *)
(*                                                                         *)
(* A trigger (webhook, dashboard button, comment, backfill loop) asks for  *)
(* an analysis of a target, an alert or an incident.  The store either     *)
(* refuses, appends a new row to analysis_runs or REUSES the target's      *)
(* latest row in place.  One goroutine per attempt then waits for an agent *)
(* slot, calls the agent and drives the row to a terminal status.  A       *)
(* reaper fails the rows left "analyzing" longer than their timeout.       *)
(*                                                                         *)
(* Every Store method runs under one lock, so it is one action here; what  *)
(* interleaves is everything between two Store calls of a goroutine.       *)
(*                                                                         *)
(* Attempts are numbered 1, 2, ... in the order they are created and a row *)
(* carries the number of the attempt that created it.  An RCA is named by  *)
(* the attempt that produced it.                                           *)
(***************************************************************************)
EXTENDS Integers, FiniteSets

CONSTANTS
    Alerts,            \* the alert rows
    Incidents,         \* the incident rows
    IncidentOf,        \* [Alerts -> Incidents], alert.IncidentID
    Requests,          \* the triggers: records [source, target]
    Slots,             \* cap(server.agentSlots), the agent concurrency
    AgentTimeout,      \* AGENT_REQUEST_TIMEOUT_SECONDS, in ticks
    ManualTimeout,     \* MANUAL_AGENT_REQUEST_TIMEOUT_SECONDS, in ticks
    ReanalyzeCooldown, \* autoReanalyzeCooldown, in ticks; 0 = once ever
    RetryCooldown,     \* backfillRetryCooldown, in ticks
    BackfillBatch,     \* backfillBatch
    MaxAttempts,       \* bound: attempts started in one behaviour
    MaxCorrections,    \* bound: operator corrections present at a time
    MaxFaults          \* bound: failed Postgres writes and backend crashes

Targets  == Alerts \cup Incidents
Sources  == {"auto", "manual", "comment", "backfill", "operator"}
Attempts == 1..MaxAttempts
NoRCA    == 0          \* no summary and no detail yet
Fallback == -1         \* the placeholder text of a failed first analysis
MaxAge   == LET ages == {AgentTimeout, ManualTimeout, ReanalyzeCooldown, RetryCooldown}
            IN  CHOOSE m \in ages : \A n \in ages : n <= m

ASSUME ConstantsAssumption ==
    /\ Alerts \cap Incidents = {}
    /\ IncidentOf \in [Alerts -> Incidents]
    /\ Requests \subseteq [source : Sources \ {"backfill", "operator"}, target : Targets]
    /\ \A q \in Requests : q.source = "auto" => q.target \in Alerts
    /\ Slots \in Nat \ {0}
    /\ {AgentTimeout, ManualTimeout} \subseteq Nat \ {0}
    /\ {ReanalyzeCooldown, RetryCooldown, BackfillBatch, MaxCorrections, MaxFaults} \subseteq Nat
    /\ MaxAttempts \in Nat \ {0}

VARIABLES
    row,       \* Store.analysisRuns, by run id
    task,      \* the goroutine of each attempt (startAnalysisRun, requestAnalysisRun)
    attempts,  \* number of attempts created so far (analysisRunSeq)
    alertFlag, \* the alerts with is_analyzing set
    incFlag,   \* the incidents with is_analyzing set
    deleted,   \* the incidents hard-deleted, with their alerts and runs
    backlog,   \* alert ids the running backfill cycle has still to start
    slots,     \* len(server.agentSlots)
    clock,     \* the last timestamp handed out; orders CreatedAt and UpdatedAt
    faults     \* failed writes and crashes so far

vars == <<row, task, attempts, alertFlag, incFlag, deleted, backlog, slots, clock, faults>>

(***************************************************************************)
(* Rows and goroutines                                                     *)
(***************************************************************************)
NoRow == [status |-> "none"]

\* AnalysisRun.  rca names the attempt whose RCA the row shows, meta the one
\* its metadata (hash, harness verdict, usage) comes from, prev the metadata
\* parked under previous_success_metadata, first whether FirstCompletedAt is
\* set.  age is the time since UpdatedAt, counted up to MaxAge.
Run == [status : {"analyzing", "complete", "failed"}, source : Sources,
        target : Targets, alert : Alerts, rca : -1..MaxAttempts,
        meta : 0..MaxAttempts, prev : 0..MaxAttempts, first : BOOLEAN,
        pinned : BOOLEAN, created : Attempts, updated : Nat, age : 0..MaxAge]

NoTask == [pc |-> "none"]

\* A goroutine and its locals: the row and alert it was started for, its time
\* in the current wait, whether it holds an agent slot, whether the failure it
\* is about to record carries agent metadata, and what follows the failure.
Task == [pc : {"begin", "slot", "call", "complete", "apply", "fail", "fallback"},
         row : Attempts, alert : Alerts, source : Sources,
         elapsed : 0..MaxAge, held : BOOLEAN, ctx : BOOLEAN,
         after : {"fallback", "stop"}]

IncOf(t)     == IF t \in Incidents THEN t ELSE IncidentOf[t]
MembersOf(i) == {a \in Alerts : IncidentOf[a] = i}
Timeout(src) == IF src = "manual" THEN ManualTimeout ELSE AgentTimeout
Rows         == {r \in Attempts : row[r] # NoRow}
Good(rca)    == rca > 0
Now          == clock + 1
AlertGone(a) == IncidentOf[a] \in deleted
Live         == {k \in Attempts : task[k] # NoTask}
Holders      == {k \in Live : task[k].held}

\* The elements of S with the greatest CreatedAt (UpdatedAt); several only when
\* one reaper pass stamped them all, and then map iteration picks any.
LatestCreated(S) == {r \in S : \A o \in S : row[o].created <= row[r].created}
LatestUpdated(S) == {r \in S : \A o \in S : row[o].updated <= row[r].updated}

TypeOK ==
    /\ row \in [Attempts -> Run \cup {NoRow}]
    /\ task \in [Attempts -> Task \cup {NoTask}]
    /\ attempts \in 0..MaxAttempts
    /\ alertFlag \subseteq Alerts
    /\ incFlag \subseteq Incidents
    /\ deleted \subseteq Incidents
    /\ backlog \subseteq Alerts
    /\ slots \in 0..Slots
    /\ clock \in Nat
    /\ faults \in 0..MaxFaults

Init ==
    /\ row = [r \in Attempts |-> NoRow]
    /\ task = [k \in Attempts |-> NoTask]
    /\ attempts = 0
    /\ alertFlag = {} /\ incFlag = {} /\ deleted = {} /\ backlog = {}
    /\ slots = 0 /\ clock = 0 /\ faults = 0

(***************************************************************************)
(* CreateAnalysisRunIfAllowed                                              *)
(***************************************************************************)
\* Mutant: the dedup looks at the alert only.
AnalyzingForAlert(t, a) == {r \in Rows : row[r].status = "analyzing" /\ row[r].alert = a}

AnalyzingFor(t, a) ==
    {r \in Rows : row[r].status = "analyzing" /\ (row[r].target = t \/ row[r].alert = a)}

AutoRuns(a) == {r \in Rows : row[r].source = "auto" /\ row[r].alert = a}

\* Mutant: a pinned correction does not stop reuse.
ReusableDespitePin(t) == LatestUpdated({r \in Rows : row[r].target = t /\ row[r].status # "analyzing"})

Reusable(t) ==
    IF \E r \in Rows : row[r].target = t /\ row[r].pinned
    THEN {}
    ELSE LatestUpdated({r \in Rows : row[r].target = t /\ row[r].status # "analyzing"})

CooldownOver(a) ==
    /\ ReanalyzeCooldown > 0
    /\ \A r \in LatestCreated(AutoRuns(a)) : row[r].age >= ReanalyzeCooldown

Allowed(src, t, a) ==
    /\ AnalyzingFor(t, a) = {}
    /\ src = "auto" /\ AutoRuns(a) # {} => CooldownOver(a)

ReuseCandidates(src, t, a) ==
    IF src # "auto" \/ AutoRuns(a) # {}
    THEN Reusable(t)
    ELSE {r \in Reusable(t) : row[r].source = "backfill"}

FreshRow(k, src, t, a) ==
    [status |-> "analyzing", source |-> src, target |-> t, alert |-> a,
     rca |-> NoRCA, meta |-> 0, prev |-> 0, first |-> FALSE, pinned |-> FALSE,
     created |-> k, updated |-> Now, age |-> 0]

\* The in-place branch: the row keeps its RCA, its target and its AlertID; its
\* metadata is parked if it ever succeeded.
ReusedRow(r, k, src) ==
    [row[r] EXCEPT !.status = "analyzing", !.source = src,
                   !.meta = 0, !.prev = IF row[r].first THEN row[r].meta ELSE 0,
                   !.pinned = FALSE, !.created = k, !.updated = Now, !.age = 0]

CreateRun(k, src, t, a) ==
    LET candidates == ReuseCandidates(src, t, a)
        attempt(r) == [pc |-> "begin", row |-> r, alert |-> a, source |-> src, elapsed |-> 0,
                       held |-> FALSE, ctx |-> FALSE, after |-> "fallback"]
    IN  \/ /\ candidates = {}
           /\ row' = [row EXCEPT ![k] = FreshRow(k, src, t, a)]
           /\ task' = [task EXCEPT ![k] = attempt(k)]
        \/ \E r \in candidates :
               /\ row' = [row EXCEPT ![r] = ReusedRow(r, k, src)]
               /\ task' = [task EXCEPT ![k] = attempt(r)]

\* startAnalysisRun up to its first Store write.  Which alert represents an
\* incident depends on the webhooks received so far: it may be any member.
Start(src, t) ==
    /\ attempts < MaxAttempts
    /\ IncOf(t) \notin deleted
    /\ \E a \in IF t \in Alerts THEN {t} ELSE MembersOf(t) :
           /\ Allowed(src, t, a)
           /\ CreateRun(attempts + 1, src, t, a)
    /\ attempts' = attempts + 1
    /\ clock' = Now
    /\ UNCHANGED <<alertFlag, incFlag, deleted, slots, faults>>

Request(q) == Start(q.source, q.target) /\ UNCHANGED backlog

\* AlertIDsNeedingAnalysis.  Resolved alerts and filtered severities are left
\* out by choosing a subset.
NeedsAnalysis(a) ==
    /\ a \notin alertFlag
    /\ ~AlertGone(a)
    /\ LET runs == {r \in Rows : row[r].alert = a}
       IN  runs = {} \/ \E r \in LatestUpdated(runs) :
                            row[r].status = "failed" /\ row[r].age >= RetryCooldown

BackfillScan ==
    /\ backlog = {}
    /\ \E S \in SUBSET {a \in Alerts : NeedsAnalysis(a)} :
           /\ S # {} /\ Cardinality(S) <= BackfillBatch
           /\ backlog' = S
    /\ UNCHANGED <<row, task, attempts, alertFlag, incFlag, deleted, slots, clock, faults>>

\* The cycle starts the ids it listed one by one; a refused id is skipped.
BackfillStart(a) ==
    /\ a \in backlog
    /\ backlog' = backlog \ {a}
    /\ \/ Start("backfill", a)
       \/ /\ AlertGone(a) \/ ~Allowed("backfill", a, a) \/ attempts = MaxAttempts
          /\ UNCHANGED <<row, task, attempts, alertFlag, incFlag, deleted, slots, clock, faults>>

(***************************************************************************)
(* The attempt's goroutine: requestAnalysisRun                             *)
(***************************************************************************)
Goto(k, pc) == task' = [task EXCEPT ![k].pc = pc]

\* Mutant: a return path that forgets the slot.
ReturnHoldingSlot(k) == task' = [task EXCEPT ![k] = NoTask] /\ UNCHANGED slots

\* A return, with the deferred releaseAgentSlot.
Return(k) ==
    /\ task' = [task EXCEPT ![k] = NoTask]
    /\ slots' = IF task[k].held THEN slots - 1 ELSE slots

\* A write the database rejects: the store rolls its copy back.
Fault == faults < MaxFaults /\ faults' = faults + 1

SetRow(r, run) == row' = [row EXCEPT ![r] = run] /\ clock' = Now

\* isLatestAnalysisRunForAlertLocked
IsLatest(r, a) ==
    /\ r \in Rows
    /\ \A o \in Rows \ {r} : row[o].alert = a => row[o].created <= row[r].created

\* BeginAnalyzing, before the goroutine is spawned.
Begin(k) ==
    /\ task[k].pc = "begin"
    /\ LET a == task[k].alert
       IN  IF AlertGone(a)
           THEN UNCHANGED <<alertFlag, incFlag>>
           ELSE /\ alertFlag' = alertFlag \cup {a}
                /\ incFlag' = incFlag \cup {IncidentOf[a]}
    /\ Goto(k, "slot")
    /\ UNCHANGED <<row, attempts, deleted, backlog, slots, clock, faults>>

Fails(k, ctx, after) ==
    task' = [task EXCEPT ![k].pc = "fail", ![k].ctx = ctx, ![k].after = after]

\* acquireAgentSlot: the send on the semaphore channel, or its timer.
AcquireSlot(k) ==
    /\ task[k].pc = "slot"
    /\ slots < Slots
    /\ slots' = slots + 1
    /\ task' = [task EXCEPT ![k].pc = "call", ![k].held = TRUE, ![k].elapsed = 0]
    /\ UNCHANGED <<row, attempts, alertFlag, incFlag, deleted, backlog, clock, faults>>

\* Mutant: giving up on the slot without recording the failure.
SlotTimeoutUnrecorded(k) ==
    /\ task[k].pc = "slot"
    /\ task[k].elapsed >= Timeout(task[k].source)
    /\ Return(k)
    /\ UNCHANGED <<row, attempts, alertFlag, incFlag, deleted, backlog, clock, faults>>

SlotTimeout(k) ==
    /\ task[k].pc = "slot"
    /\ task[k].elapsed >= Timeout(task[k].source)
    /\ Fails(k, FALSE, "fallback")
    /\ UNCHANGED <<row, attempts, alertFlag, incFlag, deleted, backlog, slots, clock, faults>>

\* callAnalyze: an answer, an error (timeout, network, bad JSON) without
\* metadata, or a terminal agent failure, which has a context.
CallSucceeds(k) ==
    /\ task[k].pc = "call"
    /\ Goto(k, "complete")
    /\ UNCHANGED <<row, attempts, alertFlag, incFlag, deleted, backlog, slots, clock, faults>>

CallFails(k) ==
    /\ task[k].pc = "call"
    /\ \E terminal \in BOOLEAN : Fails(k, terminal, "fallback")
    /\ UNCHANGED <<row, attempts, alertFlag, incFlag, deleted, backlog, slots, clock, faults>>

\* CompleteAnalysisRun: whatever the row's status is by now.
Complete(k) ==
    LET r == task[k].row
    IN  /\ task[k].pc = "complete"
        /\ \/ /\ r \in Rows
              /\ SetRow(r, [row[r] EXCEPT !.status = "complete", !.rca = k, !.meta = k, !.prev = 0,
                                          !.first = TRUE, !.updated = Now, !.age = 0])
              /\ Goto(k, "apply")
              /\ UNCHANGED <<slots, faults>>
           \/ /\ r \notin Rows
              /\ Return(k)
              /\ UNCHANGED <<row, clock, faults>>
           \/ /\ r \in Rows
              /\ Return(k) /\ Fault
              /\ UNCHANGED <<row, clock>>
        /\ UNCHANGED <<attempts, alertFlag, incFlag, deleted, backlog>>

\* Mutant: clearing the incident's flag with the first alert that ends.
ClearBothFlags(a) == alertFlag' = alertFlag \ {a} /\ incFlag' = incFlag \ {IncidentOf[a]}

\* Clearing an alert's flag and recomputing its incident's from its members.
ClearFlags(a) ==
    /\ alertFlag' = alertFlag \ {a}
    /\ incFlag' = IF MembersOf(IncidentOf[a]) \cap alertFlag' = {}
                  THEN incFlag \ {IncidentOf[a]}
                  ELSE incFlag \cup {IncidentOf[a]}

\* ApplyAnalysisForRun.  An attempt whose result is not applied, superseded or
\* not persisted, fails the row it has just completed.
Apply(k) ==
    LET r == task[k].row
        a == task[k].alert
    IN  /\ task[k].pc = "apply"
        /\ \/ /\ ~AlertGone(a) /\ IsLatest(r, a)
              /\ ClearFlags(a)
              /\ \/ Return(k) /\ UNCHANGED faults
                 \/ Fails(k, FALSE, "stop") /\ Fault /\ UNCHANGED slots
           \/ /\ AlertGone(a) \/ ~IsLatest(r, a)
              /\ Fails(k, FALSE, "stop")
              /\ UNCHANGED <<alertFlag, incFlag, slots, faults>>
        /\ UNCHANGED <<row, attempts, deleted, backlog, clock>>

\* Mutant: a failure always writes its fallback text.
FailedRowWithFallback(r, k) ==
    [row[r] EXCEPT !.status = "failed", !.rca = Fallback, !.updated = Now, !.age = 0]

\* FailAnalysisRun's new row: an RCA that is already there stays; the parked
\* metadata comes back if the row once succeeded.
FailedRow(r, k) ==
    LET run     == row[r]
        restore == run.first /\ run.rca # NoRCA /\ run.prev # 0
    IN  [run EXCEPT !.status = "failed",
                    !.rca = IF run.rca = NoRCA THEN Fallback ELSE run.rca,
                    !.meta = IF restore THEN run.prev ELSE IF task[k].ctx THEN k ELSE run.meta,
                    !.prev = IF restore THEN 0 ELSE run.prev,
                    !.updated = Now, !.age = 0]

Fail(k) ==
    LET r == task[k].row
    IN  /\ task[k].pc = "fail"
        /\ \/ /\ r \in Rows
              /\ SetRow(r, FailedRow(r, k))
              /\ IF task[k].after = "stop"
                 THEN Return(k)
                 ELSE Goto(k, "fallback") /\ UNCHANGED slots
              /\ UNCHANGED faults
           \/ /\ r \notin Rows
              /\ Return(k)
              /\ UNCHANGED <<row, clock, faults>>
           \/ /\ r \in Rows
              /\ Return(k) /\ Fault
              /\ UNCHANGED <<row, clock>>
        /\ UNCHANGED <<attempts, alertFlag, incFlag, deleted, backlog>>

\* ApplyFallbackAnalysisIfAbsentForRun
ApplyFallback(k) ==
    LET a == task[k].alert
    IN  /\ task[k].pc = "fallback"
        /\ IF ~AlertGone(a) /\ IsLatest(task[k].row, a)
           THEN ClearFlags(a)
           ELSE UNCHANGED <<alertFlag, incFlag>>
        /\ Return(k)
        /\ UNCHANGED <<row, attempts, deleted, backlog, clock, faults>>

(***************************************************************************)
(* ReapStaleAnalyzingRuns: one pass under the lock, the flags included     *)
(***************************************************************************)
\* Mutant: operator-triggered runs are never reaped.
StaleUnattended ==
    {r \in Rows : /\ row[r].status = "analyzing" /\ row[r].source # "manual"
                  /\ row[r].age >= Timeout(row[r].source)}

Stale == {r \in Rows : row[r].status = "analyzing" /\ row[r].age >= Timeout(row[r].source)}

ReapedRow(r) ==
    [row[r] EXCEPT !.status = "failed",
                   !.meta = IF row[r].prev # 0 THEN row[r].prev ELSE row[r].meta,
                   !.prev = 0, !.updated = Now, !.age = 0]

StillAnalyzing(reaped) == {row[r] : r \in {q \in Rows \ reaped : row[q].status = "analyzing"}}

\* Mutant: the reaper leaves the flags to the goroutines.
ReapRowsOnly ==
    /\ Stale # {}
    /\ row' = [r \in Attempts |-> IF r \in Stale THEN ReapedRow(r) ELSE row[r]]
    /\ clock' = Now
    /\ UNCHANGED <<task, attempts, alertFlag, incFlag, deleted, backlog, slots, faults>>

Reap ==
    \E reaped \in SUBSET Stale :
        LET active == StillAnalyzing(reaped)
        IN  /\ IF reaped = Stale THEN UNCHANGED faults ELSE Fault
            /\ row' = [r \in Attempts |-> IF r \in reaped THEN ReapedRow(r) ELSE row[r]]
            /\ alertFlag' = {a \in alertFlag : \E run \in active : run.alert = a}
            /\ incFlag' = {i \in incFlag : \E run \in active : IncOf(run.target) = i}
            /\ reaped # {} \/ alertFlag' # alertFlag \/ incFlag' # incFlag
            /\ clock' = IF reaped = {} THEN clock ELSE Now
            /\ UNCHANGED <<task, attempts, deleted, backlog, slots>>

(***************************************************************************)
(* Operator corrections, deletion, crashes and time                        *)
(***************************************************************************)
\* CreateOperatorRun: a complete, pinned row appended next to whatever runs.
OperatorCorrection(i) ==
    /\ attempts < MaxAttempts
    /\ Cardinality({r \in Rows : row[r].source = "operator"}) < MaxCorrections
    /\ i \notin deleted
    /\ \E a \in MembersOf(i) :
           row' = [row EXCEPT ![attempts + 1] =
                       [FreshRow(attempts + 1, "operator", i, a) EXCEPT
                            !.status = "complete", !.rca = attempts + 1, !.meta = attempts + 1,
                            !.first = TRUE, !.pinned = TRUE]]
    /\ attempts' = attempts + 1
    /\ clock' = Now
    /\ UNCHANGED <<task, alertFlag, incFlag, deleted, backlog, slots, faults>>

\* SetLatestOperatorRunPinned
SetPinned(i, pinned) ==
    /\ i \notin deleted
    /\ \E r \in LatestUpdated({q \in Rows : row[q].source = "operator" /\ IncOf(row[q].target) = i}) :
           /\ row[r].pinned # pinned
           /\ row' = [row EXCEPT ![r].pinned = pinned]
    /\ UNCHANGED <<task, attempts, alertFlag, incFlag, deleted, backlog, slots, clock, faults>>

\* HardDeleteIncident removes the incident, its alerts and its runs.
HardDelete(i) ==
    /\ i \notin deleted
    /\ deleted' = deleted \cup {i}
    /\ row' = [r \in Attempts |->
                  IF r \in Rows /\ IncOf(row[r].target) = i THEN NoRow ELSE row[r]]
    /\ alertFlag' = alertFlag \ MembersOf(i)
    /\ incFlag' = incFlag \ {i}
    /\ UNCHANGED <<task, attempts, backlog, slots, clock, faults>>

\* The process dies and a new one loads the store: the goroutines are gone.
Crash ==
    /\ Fault
    /\ Live # {} \/ backlog # {}
    /\ task' = [k \in Attempts |-> NoTask]
    /\ slots' = 0
    /\ backlog' = {}
    /\ UNCHANGED <<row, attempts, alertFlag, incFlag, deleted, clock>>

Waiting == {k \in Live : task[k].pc \in {"slot", "call"}}

\* Time is counted in minutes: it passes while goroutines wait for a slot (which
\* analyses of other incidents may hold) or for the agent, not between their
\* Store calls, and never beyond a timer that has fired.
Tick ==
    LET older(n) == IF n < MaxAge THEN n + 1 ELSE n
    IN  /\ Live \subseteq Waiting
        /\ \A k \in Waiting : task[k].elapsed < Timeout(task[k].source)
        /\ Waiting # {} \/ \E r \in Rows : row[r].age < MaxAge
        /\ row' = [r \in Attempts |->
                      IF r \in Rows THEN [row[r] EXCEPT !.age = older(@)] ELSE NoRow]
        /\ task' = [k \in Attempts |->
                      IF k \in Waiting THEN [task[k] EXCEPT !.elapsed = older(@)] ELSE task[k]]
        /\ UNCHANGED <<attempts, alertFlag, incFlag, deleted, backlog, slots, clock, faults>>

Step(k) ==
    \/ Begin(k) \/ AcquireSlot(k) \/ SlotTimeout(k) \/ CallSucceeds(k) \/ CallFails(k)
    \/ Complete(k) \/ Apply(k) \/ Fail(k) \/ ApplyFallback(k)

Next ==
    \/ \E q \in Requests : Request(q)
    \/ BackfillScan
    \/ \E a \in Alerts : BackfillStart(a)
    \/ \E k \in Attempts : Step(k)
    \/ Reap
    \/ \E i \in Incidents : OperatorCorrection(i) \/ HardDelete(i)
    \/ \E i \in Incidents, pinned \in BOOLEAN : SetPinned(i, pinned)
    \/ Crash
    \/ Tick

Spec == Init /\ [][Next]_vars

\* Goroutines are scheduled, the agent's answer or its timer arrives, the
\* reaper's ticker fires every minute, and time passes.
Fairness ==
    /\ \A k \in Attempts : WF_vars(Step(k))
    /\ WF_vars(Reap)
    /\ WF_vars(Tick)

FairSpec == Spec /\ Fairness

(***************************************************************************)
(* Properties                                                              *)
(***************************************************************************)
\* The goroutine's attempt is the last one its row was handed to.
Current(k) == task[k].row \in Rows /\ row[task[k].row].created = k

\* A target is analysed by one run at a time: the dedup of
\* CreateAnalysisRunIfAllowed holds against reuse, reaping and late answers.
OneRunPerTarget ==
    \A r, o \in Rows :
        row[r].status = "analyzing" /\ row[o].status = "analyzing"
            /\ row[r].target = row[o].target => r = o

\* Every held agent slot belongs to a goroutine that still runs: no return path
\* of requestAnalysisRun leaks one and none is released twice.
SlotsAccounted == slots = Cardinality(Holders)

\* No return path of requestAnalysisRun leaves its row "analyzing": without a
\* crash or a rejected write the reaper never finds a row nobody works on.
AnalyzingIsDriven ==
    faults = 0 =>
        \A r \in Rows : row[r].status = "analyzing" => \E k \in Live : task[k].row = r /\ Current(k)

\* The dashboard never shows an alert in progress under an idle incident.
FlagsNested == \A a \in alertFlag : IncidentOf[a] \in incFlag

\* A row that shows a successful RCA never falls back to a failure text or to
\* nothing, whatever fails, is reaped or answers late (FailAnalysisRun: "a
\* failed re-analysis must not clobber the last-good result").
LastGoodKept ==
    [][\A r \in Rows : Good(row[r].rca) /\ row'[r] # NoRow => Good(row'[r].rca)]_vars

\* While an operator correction is pinned nothing rewrites it: neither a new
\* attempt nor a late answer of an old one.
PinnedUntouched ==
    [][\A r \in Rows : row[r].pinned /\ row'[r] # NoRow =>
           /\ row'[r].rca = row[r].rca
           /\ row'[r].status = "complete"
           /\ row'[r].source = "operator"]_vars

\* Every analyzing run reaches a terminal status, also when its goroutine died
\* with the process or its terminal write was rejected.
RunsEnd == \A r \in Attempts : row[r].status = "analyzing" ~> row[r].status # "analyzing"

\* No alert or incident stays "analyzing" for ever.
FlagsClear ==
    /\ \A a \in Alerts : a \in alertFlag ~> a \notin alertFlag
    /\ \A i \in Incidents : i \in incFlag ~> i \notin incFlag

(***************************************************************************)
(* Facts the properties above rest on                                      *)
(***************************************************************************)
\* Attempt numbers are handed out in order; nothing refers to one still to come.
Numbered ==
    /\ \A r \in Attempts : r > attempts => row[r] = NoRow /\ task[r] = NoTask
    /\ \A k \in Live : task[k].row <= attempts

\* A goroutine that has not reached the agent holds no slot.
WaitersHoldNone == \A k \in Live : task[k].pc \in {"begin", "slot"} => ~task[k].held

\* The alert recorded on a row belongs to the row's incident.
AlertOfIncident == \A r \in Rows : IncidentOf[row[r].alert] = IncOf(row[r].target)

\* Only operator rows are pinned; they are complete and nobody drives them.
OperatorRowsRest ==
    /\ \A r \in Rows : /\ row[r].pinned => row[r].source = "operator"
                       /\ row[r].source = "operator" => row[r].status = "complete"
    /\ \A k \in Live : task[k].row \in Rows => row[task[k].row].source # "operator"

\* An attempt past its terminal write has left its row terminal, unless a later
\* attempt has taken the row over.
SettledRowsRest ==
    \A k \in Live : task[k].pc \in {"apply", "fallback"} /\ Current(k)
                       => row[task[k].row].status # "analyzing"

(***************************************************************************)
(* What the code's comments, tests and docs say and the code does not do   *)
(***************************************************************************)
\* ApplyAnalysisForRun: a slow older attempt's answer does not overwrite the
\* RCA of a fresher one.
NewerRCAKept ==
    [][\A r \in Rows : row'[r] # NoRow /\ Good(row[r].rca) => row'[r].rca >= row[r].rca]_vars

\* The metadata of a row at rest belongs to the RCA it shows: a failed
\* re-analysis restores the hash and the verdict together with the text.
MetaMatchesRCA ==
    \A r \in Rows : row[r].status # "analyzing" /\ Good(row[r].rca) => row[r].meta = row[r].rca
=============================================================================
