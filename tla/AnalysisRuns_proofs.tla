------------------------- MODULE AnalysisRuns_proofs -------------------------
(***************************************************************************)
(* Proofs about the life of an analysis run, for any number of alerts,     *)
(* incidents, attempts, slots and faults.  Inv collects the type          *)
(* invariant, the safety invariants and the facts they rest on; it is      *)
(* inductive (InitInv, NextInv).  Types and the slots come first,          *)
(* then what each step does to rows and goroutines, then one lemma per     *)
(* conjunct of Inv, then the theorems.                                     *)
(***************************************************************************)
EXTENDS AnalysisRuns, FiniteSetTheorems, TLAPS

\* Every timeout is within the counter of ages.
LEMMA MaxAgeBounds ==
    /\ MaxAge \in Nat
    /\ \A src \in Sources : Timeout(src) \in 0..MaxAge
<1> DEFINE ages == {AgentTimeout, ManualTimeout, ReanalyzeCooldown, RetryCooldown}
<1>1. ages \subseteq Nat
  BY ConstantsAssumption
<1>2. \E m \in ages : \A n \in ages : n <= m
  BY <1>1
<1>3. MaxAge \in ages /\ \A n \in ages : n <= MaxAge
  BY <1>2 DEF MaxAge
<1> QED
  BY <1>1, <1>3 DEF Timeout

\* A row that exists is a run.
LEMMA RunRow == ASSUME TypeOK, NEW r \in Rows PROVE row[r] \in Run
BY DEF TypeOK, Rows

\* A live goroutine is an attempt's and has a task record.
LEMMA LiveTask == ASSUME TypeOK, NEW k \in Live PROVE k \in Attempts /\ task[k] \in Task
BY DEF TypeOK, Live

\* Changing one field of a run within its type gives a run.
LEMMA RunUpdate == ASSUME NEW run \in Run PROVE
    /\ \A x \in {"analyzing", "complete", "failed"} : [run EXCEPT !.status = x] \in Run
    /\ \A x \in Sources : [run EXCEPT !.source = x] \in Run
    /\ \A x \in -1..MaxAttempts : [run EXCEPT !.rca = x] \in Run
    /\ \A x \in 0..MaxAttempts : [run EXCEPT !.meta = x] \in Run
    /\ \A x \in 0..MaxAttempts : [run EXCEPT !.prev = x] \in Run
    /\ \A x \in BOOLEAN : [run EXCEPT !.first = x] \in Run
    /\ \A x \in BOOLEAN : [run EXCEPT !.pinned = x] \in Run
    /\ \A x \in Attempts : [run EXCEPT !.created = x] \in Run
    /\ \A x \in Nat : [run EXCEPT !.updated = x] \in Run
    /\ \A x \in 0..MaxAge : [run EXCEPT !.age = x] \in Run
BY DEF Run

\* Changing one field of a task within its type gives a task.
LEMMA TaskUpdate == ASSUME NEW t \in Task PROVE
    /\ \A x \in {"begin", "slot", "call", "complete", "apply", "fail", "fallback"} :
           [t EXCEPT !.pc = x] \in Task
    /\ \A x \in 0..MaxAge : [t EXCEPT !.elapsed = x] \in Task
    /\ \A x \in BOOLEAN : [t EXCEPT !.held = x] \in Task
    /\ \A x \in BOOLEAN : [t EXCEPT !.ctx = x] \in Task
    /\ \A x \in {"fallback", "stop"} : [t EXCEPT !.after = x] \in Task
BY DEF Task

\* The numbers the records hold are in their ranges.
LEMMA Numbers ==
    /\ MaxAttempts \in Nat /\ 0 \in 0..MaxAge /\ 0 \in 0..MaxAttempts
    /\ \A k \in Attempts : k \in Nat /\ k \in -1..MaxAttempts /\ k \in 0..MaxAttempts
    /\ NoRCA \in -1..MaxAttempts /\ Fallback \in -1..MaxAttempts
    /\ TypeOK => Now \in Nat
BY ConstantsAssumption, MaxAgeBounds DEF Attempts, NoRCA, Fallback, TypeOK, Now

\* CreateAnalysisRunIfAllowed appends a well-formed row.
LEMMA FreshRowType ==
    ASSUME TypeOK, NEW k \in Attempts, NEW src \in Sources, NEW t \in Targets, NEW a \in Alerts
    PROVE  FreshRow(k, src, t, a) \in Run
BY Numbers DEF FreshRow, Run

\* Reuse in place leaves a well-formed row.
LEMMA ReusedRowType ==
    ASSUME TypeOK, NEW r \in Rows, NEW k \in Attempts, NEW src \in Sources
    PROVE  ReusedRow(r, k, src) \in Run
<1>1. row[r] \in Run
  BY RunRow
<1> DEFINE prev == IF row[r].first THEN row[r].meta ELSE 0
           half == [[[row[r] EXCEPT !.status = "analyzing"] EXCEPT !.source = src] EXCEPT !.meta = 0]
<1>2. prev \in 0..MaxAttempts
  BY <1>1, Numbers DEF Run
<1>3. half \in Run
  BY <1>1, Numbers, RunUpdate
<1>4. ReusedRow(r, k, src) =
        [[[[[half EXCEPT !.prev = prev] EXCEPT !.pinned = FALSE] EXCEPT !.created = k]
            EXCEPT !.updated = Now] EXCEPT !.age = 0]
  BY DEF ReusedRow
<1>5. Now \in Nat /\ 0 \in 0..MaxAge
  BY Numbers
<1> HIDE DEF prev, half
<1>6. [[[half EXCEPT !.prev = prev] EXCEPT !.pinned = FALSE] EXCEPT !.created = k] \in Run
  BY <1>2, <1>3, RunUpdate
<1>7. [[[[[half EXCEPT !.prev = prev] EXCEPT !.pinned = FALSE] EXCEPT !.created = k]
           EXCEPT !.updated = Now] EXCEPT !.age = 0] \in Run
  BY <1>5, <1>6, RunUpdate
<1> QED
  BY <1>4, <1>7

\* FailAnalysisRun leaves a well-formed row.
LEMMA FailedRowType ==
    ASSUME TypeOK, NEW r \in Rows, NEW k \in Live
    PROVE  FailedRow(r, k) \in Run
<1> DEFINE restore == row[r].first /\ row[r].rca # NoRCA /\ row[r].prev # 0
           rca == IF row[r].rca = NoRCA THEN Fallback ELSE row[r].rca
           meta == IF restore THEN row[r].prev ELSE IF task[k].ctx THEN k ELSE row[r].meta
           prev == IF restore THEN 0 ELSE row[r].prev
<1>1. row[r] \in Run /\ k \in Attempts
  BY RunRow DEF Live
<1>2. rca \in -1..MaxAttempts /\ meta \in 0..MaxAttempts /\ prev \in 0..MaxAttempts
  BY <1>1, Numbers DEF Run
<1>3. FailedRow(r, k) =
        [[[[[[row[r] EXCEPT !.status = "failed"] EXCEPT !.rca = rca] EXCEPT !.meta = meta]
            EXCEPT !.prev = prev] EXCEPT !.updated = Now] EXCEPT !.age = 0]
  BY DEF FailedRow
<1> HIDE DEF restore, rca, meta, prev
<1> DEFINE half == [[[row[r] EXCEPT !.status = "failed"] EXCEPT !.rca = rca] EXCEPT !.meta = meta]
<1>4. half \in Run
  BY <1>1, <1>2, RunUpdate
<1>5. FailedRow(r, k) = [[[half EXCEPT !.prev = prev] EXCEPT !.updated = Now] EXCEPT !.age = 0]
  BY <1>3
<1>6. Now \in Nat /\ 0 \in 0..MaxAge
  BY Numbers
<1> HIDE DEF half
<1>7. [[[half EXCEPT !.prev = prev] EXCEPT !.updated = Now] EXCEPT !.age = 0] \in Run
  BY <1>2, <1>4, <1>6, RunUpdate
<1> QED
  BY <1>5, <1>7

\* ReapStaleAnalyzingRuns leaves a well-formed row.
LEMMA ReapedRowType ==
    ASSUME TypeOK, NEW r \in Rows
    PROVE  ReapedRow(r) \in Run
<1>1. row[r] \in Run
  BY RunRow
<1>2. (IF row[r].prev # 0 THEN row[r].prev ELSE row[r].meta) \in 0..MaxAttempts
  BY <1>1 DEF Run
<1> QED
  BY <1>1, <1>2, Numbers, RunUpdate DEF ReapedRow

\* Only a live goroutine takes steps.
LEMMA StepTask ==
    ASSUME TypeOK, NEW k \in Attempts, task[k].pc # "none"
    PROVE  k \in Live /\ task[k] \in Task
BY DEF TypeOK, Live, NoTask

\* What reusableTargetAnalysisRunLocked returns is a row at rest of the target.
LEMMA CandidateRow ==
    ASSUME TypeOK, NEW src, NEW t, NEW a, NEW r \in ReuseCandidates(src, t, a)
    PROVE  /\ r \in Rows /\ row[r].target = t /\ row[r].status # "analyzing"
           /\ ~row[r].pinned
<1>1. r \in Reusable(t)
  BY DEF ReuseCandidates
<1>2. /\ r \in Rows /\ row[r].target = t /\ row[r].status # "analyzing"
      /\ ~ \E q \in Rows : row[q].target = t /\ row[q].pinned
  BY <1>1 DEF Reusable, LatestUpdated
<1> QED
  BY <1>2

\* What a trigger does: a new goroutine, on a new row or on one at rest.
LEMMA StartEffect ==
    ASSUME TypeOK, NEW src \in Sources, NEW t \in Targets, Start(src, t)
    PROVE  \E k \in Attempts, r \in Attempts, a \in Alerts :
               /\ k = attempts + 1 /\ attempts' = k /\ clock' \in Nat
               /\ Allowed(src, t, a) /\ IncOf(t) = IncidentOf[a]
               /\ task' = [task EXCEPT ![k] =
                       [pc |-> "begin", row |-> r, alert |-> a, source |-> src, elapsed |-> 0,
                        held |-> FALSE, ctx |-> FALSE, after |-> "fallback"]]
               /\ \/ r = k /\ row' = [row EXCEPT ![k] = FreshRow(k, src, t, a)]
                  \/ r \in ReuseCandidates(src, t, a) /\ row' = [row EXCEPT ![r] = ReusedRow(r, k, src)]
<1>1. attempts + 1 \in Attempts /\ Now \in Nat
  BY Numbers DEF Start, TypeOK, Attempts
<1>2. PICK a \in IF t \in Alerts THEN {t} ELSE MembersOf(t) :
          Allowed(src, t, a) /\ CreateRun(attempts + 1, src, t, a)
  BY DEF Start
<1>3. a \in Alerts /\ IncOf(t) = IncidentOf[a]
  BY <1>2, ConstantsAssumption DEF MembersOf, IncOf, Targets
<1>4. \A r \in ReuseCandidates(src, t, a) : r \in Attempts
  BY CandidateRow DEF Rows
<1> QED
  BY <1>1, <1>2, <1>3, <1>4 DEF Start, CreateRun

\* A trigger keeps the types of rows and goroutines.
LEMMA StartType ==
    ASSUME TypeOK, NEW src \in Sources, NEW t \in Targets, Start(src, t)
    PROVE  /\ row' \in [Attempts -> Run \cup {NoRow}]
           /\ task' \in [Attempts -> Task \cup {NoTask}]
           /\ attempts' \in 0..MaxAttempts
           /\ clock' \in Nat
<1>1. PICK k \in Attempts, r \in Attempts, a \in Alerts :
               /\ k = attempts + 1 /\ attempts' = k /\ clock' \in Nat
               /\ Allowed(src, t, a) /\ IncOf(t) = IncidentOf[a]
               /\ task' = [task EXCEPT ![k] =
                       [pc |-> "begin", row |-> r, alert |-> a, source |-> src, elapsed |-> 0,
                        held |-> FALSE, ctx |-> FALSE, after |-> "fallback"]]
               /\ \/ r = k /\ row' = [row EXCEPT ![k] = FreshRow(k, src, t, a)]
                  \/ r \in ReuseCandidates(src, t, a) /\ row' = [row EXCEPT ![r] = ReusedRow(r, k, src)]
  BY StartEffect
<1>2. [pc |-> "begin", row |-> r, alert |-> a, source |-> src, elapsed |-> 0,
       held |-> FALSE, ctx |-> FALSE, after |-> "fallback"] \in Task
  BY Numbers DEF Task
<1>3. FreshRow(k, src, t, a) \in Run
  BY FreshRowType
<1>4. r \in ReuseCandidates(src, t, a) => ReusedRow(r, k, src) \in Run
  BY CandidateRow, ReusedRowType
<1>5. row' \in [Attempts -> Run \cup {NoRow}]
  BY <1>1, <1>3, <1>4 DEF TypeOK
<1>6. task' \in [Attempts -> Task \cup {NoTask}]
  BY <1>1, <1>2 DEF TypeOK
<1> QED
  BY <1>1, <1>5, <1>6, Numbers

\* A terminal write keeps the type of the rows.
LEMMA SetRowType ==
    ASSUME TypeOK, NEW r \in Rows, NEW run \in Run, SetRow(r, run)
    PROVE  row' \in [Attempts -> Run \cup {NoRow}] /\ clock' \in Nat
BY Numbers DEF TypeOK, SetRow, Rows

\* Moving a goroutine on keeps the type of the goroutines.
LEMMA GotoType ==
    ASSUME TypeOK, NEW k \in Live,
           NEW pc \in {"begin", "slot", "call", "complete", "apply", "fail", "fallback"}, Goto(k, pc)
    PROVE  task' \in [Attempts -> Task \cup {NoTask}]
<1>1. [task[k] EXCEPT !.pc = pc] \in Task
  BY LiveTask, TaskUpdate
<1>2. task' = [task EXCEPT ![k] = [task[k] EXCEPT !.pc = pc]]
  BY DEF Goto
<1> QED
  BY <1>1, <1>2, LiveTask DEF TypeOK

\* So does sending it to FailAnalysisRun.
LEMMA FailsType ==
    ASSUME TypeOK, NEW k \in Live, NEW ctx \in BOOLEAN, NEW after \in {"fallback", "stop"},
           Fails(k, ctx, after)
    PROVE  task' \in [Attempts -> Task \cup {NoTask}]
<1>1. [task[k] EXCEPT !.pc = "fail", !.ctx = ctx, !.after = after] \in Task
  BY LiveTask, TaskUpdate
<1>2. task' = [task EXCEPT ![k] = [task[k] EXCEPT !.pc = "fail", !.ctx = ctx, !.after = after]]
  BY DEF Fails
<1> QED
  BY <1>1, <1>2, LiveTask DEF TypeOK

\* The goroutines that hold a slot can be counted.
LEMMA HoldersFinite == IsFiniteSet(Attempts) /\ IsFiniteSet(Holders) /\ Holders \subseteq Attempts
<1>1. IsFiniteSet(1..MaxAttempts)
  BY FS_Interval, ConstantsAssumption
<1>2. Holders \subseteq Attempts
  BY DEF Holders, Live
<1> QED
  BY <1>1, <1>2, FS_Subset DEF Attempts

\* The deferred releaseAgentSlot gives back what this goroutine held, once.
LEMMA ReturnType ==
    ASSUME TypeOK, SlotsAccounted, NEW k \in Live, Return(k)
    PROVE  /\ task' \in [Attempts -> Task \cup {NoTask}]
           /\ slots' \in 0..Slots
           /\ slots' = Cardinality(Holders')
<1>1. k \in Attempts /\ task[k] \in Task
  BY LiveTask
<1>2. /\ task' = [task EXCEPT ![k] = NoTask]
      /\ slots' = IF task[k].held THEN slots - 1 ELSE slots
  BY DEF Return
<1>3. task' \in [Attempts -> Task \cup {NoTask}]
  BY <1>1, <1>2 DEF TypeOK
<1>4. Holders' = Holders \ {k}
  BY <1>1, <1>2 DEF Holders, Live, TypeOK
<1>5. Cardinality(Holders') = IF k \in Holders THEN Cardinality(Holders) - 1 ELSE Cardinality(Holders)
  BY <1>4, HoldersFinite, FS_RemoveElement
<1>6. k \in Holders <=> task[k].held
  BY DEF Holders
<1>7. Cardinality(Holders') \in Nat
  BY <1>4, HoldersFinite, FS_RemoveElement, FS_CardinalityType
<1> QED
  BY <1>2, <1>3, <1>5, <1>6, <1>7, ConstantsAssumption DEF SlotsAccounted, TypeOK

\* A step that changes no holder and no count keeps the account.
LEMMA SameHolders ==
    ASSUME TypeOK, SlotsAccounted, UNCHANGED slots,
           \A j \in Attempts : j \in Holders' <=> j \in Holders
    PROVE  slots' = Cardinality(Holders')
<1>1. Holders' = Holders
  BY DEF Holders, Live
<1> QED
  BY <1>1 DEF SlotsAccounted

\* Moving a goroutine on changes no holder.
LEMMA GotoHolders ==
    ASSUME TypeOK, NEW k \in Live, NEW pc, pc # "none", Goto(k, pc)
    PROVE  \A j \in Attempts : j \in Holders' <=> j \in Holders
<1>1. k \in Attempts /\ task[k] \in Task
  BY LiveTask
<1>2. task' = [task EXCEPT ![k] = [task[k] EXCEPT !.pc = pc]]
  BY DEF Goto
<1>3. /\ [task[k] EXCEPT !.pc = pc].held = task[k].held
      /\ [task[k] EXCEPT !.pc = pc].pc # "none"
  BY <1>1 DEF Task
<1> QED
  BY <1>1, <1>2, <1>3 DEF Holders, Live, TypeOK, NoTask

\* Neither does recording its failure.
LEMMA FailsHolders ==
    ASSUME TypeOK, NEW k \in Live, NEW ctx, NEW after, Fails(k, ctx, after)
    PROVE  \A j \in Attempts : j \in Holders' <=> j \in Holders
<1>1. k \in Attempts /\ task[k] \in Task
  BY LiveTask
<1>2. task' = [task EXCEPT ![k] = [task[k] EXCEPT !.pc = "fail", !.ctx = ctx, !.after = after]]
  BY DEF Fails
<1>3. /\ [task[k] EXCEPT !.pc = "fail", !.ctx = ctx, !.after = after].held = task[k].held
      /\ [task[k] EXCEPT !.pc = "fail", !.ctx = ctx, !.after = after].pc # "none"
  BY <1>1 DEF Task
<1> QED
  BY <1>1, <1>2, <1>3 DEF Holders, Live, TypeOK, NoTask

RowsTyped  == row' \in [Attempts -> Run \cup {NoRow}] /\ clock' \in Nat
TasksTyped == task' \in [Attempts -> Task \cup {NoTask}]
FlagsTyped == alertFlag' \subseteq Alerts /\ incFlag' \subseteq Incidents
SlotsTyped == slots' \in 0..Slots /\ slots' = Cardinality(Holders')

\* A step without goroutines keeps their types and the account.
LEMMA SameTasks ==
    ASSUME TypeOK, SlotsAccounted, UNCHANGED <<task, slots>>
    PROVE  TasksTyped /\ SlotsTyped
<1>1. Holders' = Holders
  BY DEF Holders, Live
<1> QED
  BY <1>1 DEF TypeOK, SlotsAccounted, TasksTyped, SlotsTyped

\* Every step of a goroutine keeps types and the account of the slots.
LEMMA StepTypes ==
    ASSUME TypeOK, SlotsAccounted, WaitersHoldNone, NEW k \in Attempts, Step(k)
    PROVE  RowsTyped /\ TasksTyped /\ FlagsTyped /\ SlotsTyped
<1>0. k \in Live /\ task[k] \in Task /\ task[k].row \in Attempts /\ task[k].alert \in Alerts
  <2>1. task[k].pc # "none"
    BY DEF Step, Begin, AcquireSlot, SlotTimeout, CallSucceeds, CallFails, Complete, Apply, Fail, ApplyFallback
  <2> QED
    BY <2>1, StepTask DEF Task
<1>a. UNCHANGED <<row, clock>> => RowsTyped
  BY DEF RowsTyped, TypeOK
<1>b. UNCHANGED <<alertFlag, incFlag>> => FlagsTyped
  BY DEF FlagsTyped, TypeOK
<1>c. ASSUME NEW pc \in {"begin", "slot", "call", "complete", "apply", "fail", "fallback"}, Goto(k, pc),
             UNCHANGED slots
      PROVE  TasksTyped /\ SlotsTyped
  <2>1. pc # "none"
    OBVIOUS
  <2> QED
    BY <1>0, <1>c, <2>1, GotoType, GotoHolders, SameHolders DEF TasksTyped, SlotsTyped, TypeOK
<1>d. ASSUME NEW ctx \in BOOLEAN, NEW after \in {"fallback", "stop"}, Fails(k, ctx, after), UNCHANGED slots
      PROVE  TasksTyped /\ SlotsTyped
  BY <1>0, <1>d, FailsType, FailsHolders, SameHolders DEF TasksTyped, SlotsTyped, TypeOK
<1>e. Return(k) => TasksTyped /\ SlotsTyped
  BY <1>0, ReturnType DEF TasksTyped, SlotsTyped
<1>f. ClearFlags(task[k].alert) => FlagsTyped
  BY <1>0, ConstantsAssumption DEF ClearFlags, FlagsTyped, TypeOK
<1>1. CASE Begin(k)
  <2>1. FlagsTyped
    BY <1>0, <1>1, ConstantsAssumption DEF Begin, FlagsTyped, TypeOK
  <2> QED
    BY <1>1, <1>a, <1>c, <2>1 DEF Begin
<1>2. CASE AcquireSlot(k)
  <2>1. ~task[k].held /\ slots < Slots /\ slots' = slots + 1
    BY <1>0, <1>2 DEF AcquireSlot, WaitersHoldNone
  <2> DEFINE t == [task[k] EXCEPT !.pc = "call", !.held = TRUE, !.elapsed = 0]
  <2>2. t \in Task /\ t.held /\ t.pc # "none"
    <3>1. t \in Task
      BY <1>0, TaskUpdate, Numbers
    <3>2. t.held /\ t.pc # "none"
      BY <1>0 DEF Task
    <3> QED
      BY <3>1, <3>2
  <2>3. task' = [task EXCEPT ![k] = t]
    BY <1>2 DEF AcquireSlot
  <2> HIDE DEF t
  <2>4. TasksTyped
    BY <2>2, <2>3 DEF TypeOK, TasksTyped
  <2>5. Holders' = Holders \cup {k} /\ k \notin Holders
    BY <2>1, <2>2, <2>3, <1>0 DEF Holders, Live, TypeOK, NoTask
  <2>6. Cardinality(Holders') = Cardinality(Holders) + 1
    BY <2>5, HoldersFinite, FS_AddElement
  <2>7. SlotsTyped
    BY <2>1, <2>6, ConstantsAssumption DEF SlotsTyped, TypeOK, SlotsAccounted
  <2> QED
    BY <1>2, <1>a, <1>b, <2>4, <2>7 DEF AcquireSlot
<1>3. CASE SlotTimeout(k)
  BY <1>3, <1>a, <1>b, <1>d DEF SlotTimeout
<1>4. CASE CallSucceeds(k)
  BY <1>4, <1>a, <1>b, <1>c DEF CallSucceeds
<1>5. CASE CallFails(k)
  BY <1>5, <1>a, <1>b, <1>d DEF CallFails
<1>6. CASE Complete(k)
  <2> DEFINE r   == task[k].row
             run == [row[r] EXCEPT !.status = "complete", !.rca = k, !.meta = k, !.prev = 0,
                                   !.first = TRUE, !.updated = Now, !.age = 0]
  <2>1. ASSUME r \in Rows, SetRow(r, run)
        PROVE  RowsTyped
    <3>1. run \in Run
      BY <2>1, RunRow, RunUpdate, Numbers
    <3> QED
      BY <2>1, <3>1, SetRowType DEF RowsTyped
  <2>2. CASE r \in Rows /\ SetRow(r, run) /\ Goto(k, "apply") /\ UNCHANGED slots
    BY <2>1, <2>2, <1>6, <1>b, <1>c DEF Complete
  <2>3. CASE Return(k) /\ UNCHANGED <<row, clock>>
    BY <2>3, <1>6, <1>a, <1>b, <1>e DEF Complete
  <2> QED
    BY <1>6, <2>2, <2>3 DEF Complete
<1>7. CASE Apply(k)
  <2>1. FlagsTyped /\ RowsTyped
    BY <1>7, <1>a, <1>b, <1>f DEF Apply
  <2>2. TasksTyped /\ SlotsTyped
    BY <1>7, <1>d, <1>e DEF Apply
  <2> QED
    BY <2>1, <2>2
<1>8. CASE Fail(k)
  <2>1. ASSUME task[k].row \in Rows, SetRow(task[k].row, FailedRow(task[k].row, k))
        PROVE  RowsTyped
    BY <1>0, <2>1, FailedRowType, SetRowType DEF RowsTyped
  <2>2. RowsTyped
    BY <1>8, <1>a, <2>1 DEF Fail
  <2>3. TasksTyped /\ SlotsTyped
    BY <1>8, <1>c, <1>e DEF Fail
  <2> QED
    BY <1>8, <1>b, <2>2, <2>3 DEF Fail
<1>9. CASE ApplyFallback(k)
  <2>1. FlagsTyped
    BY <1>9, <1>b, <1>f DEF ApplyFallback
  <2> QED
    BY <1>9, <1>a, <1>e, <2>1 DEF ApplyFallback
<1> QED
  BY <1>1, <1>2, <1>3, <1>4, <1>5, <1>6, <1>7, <1>8, <1>9 DEF Step

\* A goroutine's step keeps the counters within their bounds.
LEMMA StepKeepsCounters ==
    ASSUME TypeOK, NEW k \in Attempts, Step(k)
    PROVE  UNCHANGED <<attempts, deleted, backlog>> /\ faults' \in 0..MaxFaults
<1>1. UNCHANGED <<attempts, deleted, backlog>>
  BY DEF Step, Begin, AcquireSlot, SlotTimeout, CallSucceeds, CallFails, Complete, Apply, Fail, ApplyFallback
<1>2. UNCHANGED faults \/ Fault
  BY DEF Step, Begin, AcquireSlot, SlotTimeout, CallSucceeds, CallFails, Complete, Apply, Fail, ApplyFallback
<1> QED
  BY <1>1, <1>2, ConstantsAssumption DEF Fault, TypeOK

\* A trigger takes no slot.
LEMMA StartSlots ==
    ASSUME TypeOK, SlotsAccounted, Numbered, NEW src \in Sources, NEW t \in Targets, Start(src, t)
    PROVE  SlotsTyped
<1>1. PICK k \in Attempts, r \in Attempts, a \in Alerts :
               /\ k = attempts + 1
               /\ task' = [task EXCEPT ![k] =
                       [pc |-> "begin", row |-> r, alert |-> a, source |-> src, elapsed |-> 0,
                        held |-> FALSE, ctx |-> FALSE, after |-> "fallback"]]
  BY StartEffect
<1>2. task[k] = NoTask
  BY <1>1 DEF Numbered, TypeOK, Attempts
<1>3. \A j \in Attempts : j \in Holders' <=> j \in Holders
  BY <1>1, <1>2 DEF Holders, Live, TypeOK
<1> QED
  BY <1>3, SameHolders DEF Start, SlotsTyped, TypeOK

\* Time keeps types and the account of the slots.
LEMMA TickTypes ==
    ASSUME TypeOK, SlotsAccounted, Tick
    PROVE  RowsTyped /\ TasksTyped /\ SlotsTyped
<1> DEFINE older(n) == IF n < MaxAge THEN n + 1 ELSE n
<1>1. \A n \in 0..MaxAge : older(n) \in 0..MaxAge
  BY MaxAgeBounds
<1>2. ASSUME NEW r \in Rows
      PROVE  [row[r] EXCEPT !.age = older(@)] \in Run
  <2>1. row[r] \in Run /\ row[r].age \in 0..MaxAge
    BY RunRow DEF Run
  <2>2. older(row[r].age) \in 0..MaxAge
    BY <2>1, <1>1
  <2> HIDE DEF older
  <2> QED
    BY <2>1, <2>2, RunUpdate
<1>3. RowsTyped
  <2> HIDE DEF older
  <2>1. row' = [r \in Attempts |-> IF r \in Rows THEN [row[r] EXCEPT !.age = older(@)] ELSE NoRow]
    BY DEF Tick, older
  <2> QED
    BY <2>1, <1>2 DEF Tick, RowsTyped, TypeOK
<1>4. ASSUME NEW k \in Live
      PROVE  /\ [task[k] EXCEPT !.elapsed = older(@)] \in Task
             /\ [task[k] EXCEPT !.elapsed = older(@)].held = task[k].held
             /\ [task[k] EXCEPT !.elapsed = older(@)].pc # "none"
  <2>1. task[k] \in Task /\ task[k].elapsed \in 0..MaxAge
    BY LiveTask DEF Task
  <2>2. older(task[k].elapsed) \in 0..MaxAge
    BY <2>1, <1>1
  <2> HIDE DEF older
  <2>3. [task[k] EXCEPT !.elapsed = older(@)] \in Task
    BY <2>1, <2>2, TaskUpdate
  <2> QED
    BY <2>1, <2>3 DEF Task
<1>5. task' = [k \in Attempts |-> IF k \in Waiting THEN [task[k] EXCEPT !.elapsed = older(@)] ELSE task[k]]
  BY DEF Tick
<1>6. TasksTyped
  <2> HIDE DEF older
  <2> QED
    BY <1>4, <1>5 DEF TasksTyped, TypeOK, Waiting
<1>7. \A j \in Attempts : j \in Holders' <=> j \in Holders
  <2> HIDE DEF older
  <2> QED
    BY <1>4, <1>5 DEF Holders, Live, Waiting, NoTask, TypeOK
<1> QED
  BY <1>3, <1>6, <1>7, SameHolders DEF Tick, SlotsTyped, TypeOK

\* Every step of the system keeps types and the account of the slots.
LEMMA NextTypes ==
    ASSUME TypeOK, SlotsAccounted, WaitersHoldNone, Numbered, Next
    PROVE  TypeOK' /\ SlotsAccounted'
<1> DEFINE Typed == /\ RowsTyped /\ TasksTyped /\ FlagsTyped /\ SlotsTyped
                    /\ attempts' \in 0..MaxAttempts /\ deleted' \subseteq Incidents
                    /\ backlog' \subseteq Alerts /\ faults' \in 0..MaxFaults
<1> SUFFICES Typed
  BY DEF TypeOK, SlotsAccounted, RowsTyped, TasksTyped, FlagsTyped, SlotsTyped
<1>a. UNCHANGED <<row, clock>> => RowsTyped
  BY DEF RowsTyped, TypeOK
<1>b. UNCHANGED <<alertFlag, incFlag>> => FlagsTyped
  BY DEF FlagsTyped, TypeOK
<1>c. UNCHANGED <<task, slots>> => TasksTyped /\ SlotsTyped
  BY SameTasks
<1>d. Fault => faults' \in 0..MaxFaults
  BY ConstantsAssumption DEF Fault, TypeOK
<1>e. UNCHANGED attempts => attempts' \in 0..MaxAttempts
  BY DEF TypeOK
<1>f. ASSUME NEW src \in Sources, NEW t \in Targets, Start(src, t)
      PROVE  /\ RowsTyped /\ TasksTyped /\ FlagsTyped /\ SlotsTyped
             /\ attempts' \in 0..MaxAttempts /\ deleted' \subseteq Incidents /\ faults' \in 0..MaxFaults
  <2>1. RowsTyped /\ TasksTyped /\ attempts' \in 0..MaxAttempts
    BY <1>f, StartType DEF RowsTyped, TasksTyped
  <2>2. SlotsTyped
    BY <1>f, StartSlots
  <2> QED
    BY <1>f, <1>b, <2>1, <2>2 DEF Start, TypeOK
<1>1. ASSUME NEW q \in Requests, Request(q)
      PROVE  Typed
  <2>1. q.source \in Sources /\ q.target \in Targets
    BY ConstantsAssumption
  <2> QED
    BY <1>1, <1>f, <2>1 DEF Request, TypeOK
<1>2. CASE BackfillScan
  BY <1>2, <1>a, <1>b, <1>c, <1>e DEF BackfillScan, TypeOK
<1>3. ASSUME NEW a \in Alerts, BackfillStart(a)
      PROVE  Typed
  <2>1. "backfill" \in Sources /\ a \in Targets
    BY DEF Sources, Targets
  <2>2. backlog' \subseteq Alerts
    BY <1>3 DEF BackfillStart, TypeOK
  <2>3. CASE Start("backfill", a)
    BY <1>f, <2>1, <2>2, <2>3
  <2>4. CASE UNCHANGED <<row, task, attempts, alertFlag, incFlag, deleted, slots, clock, faults>>
    BY <2>2, <2>4, <1>a, <1>b, <1>c, <1>e DEF TypeOK
  <2> QED
    BY <1>3, <2>3, <2>4 DEF BackfillStart
<1>4. ASSUME NEW k \in Attempts, Step(k)
      PROVE  Typed
  <2>1. RowsTyped /\ TasksTyped /\ FlagsTyped /\ SlotsTyped
    BY <1>4, StepTypes
  <2>2. UNCHANGED <<attempts, deleted, backlog>> /\ faults' \in 0..MaxFaults
    BY <1>4, StepKeepsCounters
  <2> QED
    BY <2>1, <2>2 DEF TypeOK
<1>5. CASE Reap
  <2>1. PICK reaped \in SUBSET Stale :
            /\ row' = [r \in Attempts |-> IF r \in reaped THEN ReapedRow(r) ELSE row[r]]
            /\ IF reaped = Stale THEN UNCHANGED faults ELSE Fault
            /\ clock' = IF reaped = {} THEN clock ELSE Now
    BY <1>5 DEF Reap
  <2>2. \A r \in reaped : r \in Rows
    BY <2>1 DEF Stale
  <2>3. RowsTyped
    BY <2>1, <2>2, ReapedRowType, Numbers DEF RowsTyped, TypeOK
  <2>4. FlagsTyped
    BY <1>5 DEF Reap, FlagsTyped, TypeOK
  <2> QED
    BY <1>5, <1>c, <1>d, <2>1, <2>3, <2>4 DEF Reap, TypeOK
<1>6. ASSUME NEW i \in Incidents, OperatorCorrection(i)
      PROVE  Typed
  <2>1. attempts + 1 \in Attempts
    BY <1>6, Numbers DEF OperatorCorrection, TypeOK, Attempts
  <2> DEFINE correction(a) == [FreshRow(attempts + 1, "operator", i, a) EXCEPT
                                  !.status = "complete", !.rca = attempts + 1, !.meta = attempts + 1,
                                  !.first = TRUE, !.pinned = TRUE]
  <2>2. ASSUME NEW a \in Alerts
        PROVE  correction(a) \in Run
    <3>1. FreshRow(attempts + 1, "operator", i, a) \in Run
      BY <2>1, FreshRowType DEF Sources, Targets
    <3>2. attempts + 1 \in 0..MaxAttempts /\ attempts + 1 \in -1..MaxAttempts
      BY <2>1, Numbers
    <3> QED
      BY <3>1, <3>2, RunUpdate
  <2>3. PICK a \in MembersOf(i) : row' = [row EXCEPT ![attempts + 1] = correction(a)]
    BY <1>6 DEF OperatorCorrection
  <2>4. a \in Alerts
    BY <2>3 DEF MembersOf
  <2> HIDE DEF correction
  <2>5. RowsTyped
    BY <1>6, <2>1, <2>2, <2>3, <2>4, Numbers DEF OperatorCorrection, RowsTyped, TypeOK
  <2> QED
    BY <1>6, <1>b, <1>c, <2>1, <2>5, Numbers DEF OperatorCorrection, TypeOK
<1>7. ASSUME NEW i \in Incidents, HardDelete(i)
      PROVE  Typed
  <2>1. RowsTyped /\ FlagsTyped
    BY <1>7 DEF HardDelete, RowsTyped, FlagsTyped, TypeOK
  <2> QED
    BY <1>7, <1>c, <2>1 DEF HardDelete, TypeOK
<1>8. ASSUME NEW i \in Incidents, NEW pinned \in BOOLEAN, SetPinned(i, pinned)
      PROVE  Typed
  <2>1. PICK r \in Rows : row' = [row EXCEPT ![r] = [row[r] EXCEPT !.pinned = pinned]]
    BY <1>8 DEF SetPinned, LatestUpdated
  <2>2. [row[r] EXCEPT !.pinned = pinned] \in Run
    BY RunRow, RunUpdate
  <2>3. RowsTyped
    BY <1>8, <2>1, <2>2 DEF SetPinned, RowsTyped, TypeOK, Rows
  <2> QED
    BY <1>8, <1>b, <1>c, <2>3 DEF SetPinned, TypeOK
<1>9. CASE Crash
  <2>1. TasksTyped
    BY <1>9 DEF Crash, TasksTyped
  <2>2. Holders' = {}
    BY <1>9 DEF Crash, Holders, Live
  <2>3. SlotsTyped
    BY <1>9, <2>2, FS_EmptySet, ConstantsAssumption DEF Crash, SlotsTyped
  <2> QED
    BY <1>9, <1>a, <1>b, <1>d, <2>1, <2>3 DEF Crash, TypeOK
<1>10. CASE Tick
  BY <1>10, <1>b, TickTypes DEF Tick, TypeOK
<1> QED
  BY <1>1, <1>2, <1>3, <1>4, <1>5, <1>6, <1>7, <1>8, <1>9, <1>10 DEF Next

(***************************************************************************)
(* What a step does to the rows and goroutines                             *)
(***************************************************************************)
SameRun(r) ==
    /\ r \in Rows <=> r \in Rows'
    /\ r \in Rows => /\ row'[r].status = row[r].status /\ row'[r].source = row[r].source
                     /\ row'[r].target = row[r].target /\ row'[r].alert = row[r].alert
                     /\ row'[r].rca = row[r].rca /\ row'[r].pinned = row[r].pinned
                     /\ row'[r].created = row[r].created

\* A row brought to a terminal status.
Ended(r) ==
    /\ r \in Rows /\ r \in Rows'
    /\ row'[r].status \in {"complete", "failed"}
    /\ row'[r].source = row[r].source /\ row'[r].target = row[r].target
    /\ row'[r].alert = row[r].alert /\ row'[r].pinned = row[r].pinned
    /\ row'[r].created = row[r].created
    /\ Good(row[r].rca) => Good(row'[r].rca)

SameGoroutine(k) ==
    /\ k \in Live /\ k \in Live'
    /\ task'[k].row = task[k].row /\ task'[k].alert = task[k].alert

\* A row a step leaves alone is the same run.
LEMMA KeptRow ==
    ASSUME NEW r \in Attempts, row'[r] = row[r]
    PROVE  SameRun(r)
BY DEF SameRun, Rows

\* A terminal write ends one row and touches no other.
LEMMA SetRowEffect ==
    ASSUME TypeOK, NEW r \in Rows, NEW run, SetRow(r, run), run # NoRow,
           run.status \in {"complete", "failed"},
           run.source = row[r].source, run.target = row[r].target, run.alert = row[r].alert,
           run.pinned = row[r].pinned, run.created = row[r].created,
           Good(row[r].rca) => Good(run.rca)
    PROVE  Ended(r) /\ \A o \in Attempts : o # r => row'[o] = row[o]
BY DEF SetRow, TypeOK, Rows, Ended

\* A goroutine's step changes at most its own row, to a terminal one.
LEMMA StepRows ==
    ASSUME TypeOK, NEW k \in Attempts, Step(k)
    PROVE  \A r \in Attempts : row'[r] = row[r] \/ (r = task[k].row /\ Ended(r))
<1>1. CASE UNCHANGED row
  BY <1>1
<1>2. CASE Complete(k) /\ ~UNCHANGED row
  <2> DEFINE r   == task[k].row
             run == [row[r] EXCEPT !.status = "complete", !.rca = k, !.meta = k, !.prev = 0,
                                   !.first = TRUE, !.updated = Now, !.age = 0]
  <2>1. r \in Rows /\ SetRow(r, run)
    BY <1>2 DEF Complete
  <2>2. row[r] \in Run /\ k > 0
    BY <2>1, RunRow, ConstantsAssumption DEF Attempts
  <2>3. /\ run # NoRow /\ run.status = "complete" /\ run.rca = k
        /\ run.source = row[r].source /\ run.target = row[r].target /\ run.alert = row[r].alert
        /\ run.pinned = row[r].pinned /\ run.created = row[r].created
    <3>1. run.status = "complete"
      BY <2>2 DEF Run
    <3>2. run # NoRow
      BY <3>1 DEF NoRow
    <3> QED
      BY <2>2, <3>1, <3>2 DEF Run
  <2> HIDE DEF run
  <2>4. Ended(r) /\ \A o \in Attempts : o # r => row'[o] = row[o]
    BY <2>1, <2>2, <2>3, SetRowEffect DEF Good
  <2> QED
    BY <2>4
<1>3. CASE Fail(k) /\ ~UNCHANGED row
  <2> DEFINE r == task[k].row
             run == FailedRow(r, k)
  <2>1. r \in Rows /\ SetRow(r, run)
    BY <1>3 DEF Fail
  <2>2. row[r] \in Run
    BY <2>1, RunRow
  <2>3. /\ run # NoRow /\ run.status = "failed"
        /\ run.rca = IF row[r].rca = NoRCA THEN Fallback ELSE row[r].rca
        /\ run.source = row[r].source /\ run.target = row[r].target /\ run.alert = row[r].alert
        /\ run.pinned = row[r].pinned /\ run.created = row[r].created
    <3>1. run.status = "failed"
      BY <2>2 DEF Run, FailedRow
    <3>2. run # NoRow
      BY <3>1 DEF NoRow
    <3> QED
      BY <2>2, <3>1, <3>2 DEF Run, FailedRow
  <2> HIDE DEF run
  <2>4. Ended(r) /\ \A o \in Attempts : o # r => row'[o] = row[o]
    BY <2>1, <2>2, <2>3, SetRowEffect DEF Good, NoRCA
  <2> QED
    BY <2>4
<1> QED
  BY <1>1, <1>2, <1>3
     DEF Step, Begin, AcquireSlot, SlotTimeout, CallSucceeds, CallFails, Apply, ApplyFallback

\* The reaper ends stale rows and leaves the others.
LEMMA ReapRows ==
    ASSUME TypeOK, Reap
    PROVE  \A r \in Attempts : row'[r] = row[r] \/ Ended(r)
<1>1. PICK reaped \in SUBSET Stale :
          row' = [r \in Attempts |-> IF r \in reaped THEN ReapedRow(r) ELSE row[r]]
  BY DEF Reap
<1>2. ASSUME NEW r \in reaped
      PROVE  Ended(r)
  <2>1. r \in Rows /\ row[r] \in Run
    BY RunRow DEF Stale
  <2> DEFINE run == ReapedRow(r)
  <2>2. run.status = "failed"
    BY <2>1 DEF Run, ReapedRow
  <2>3. run # NoRow
    BY <2>2 DEF NoRow
  <2>4. /\ run.rca = row[r].rca
        /\ run.source = row[r].source /\ run.target = row[r].target /\ run.alert = row[r].alert
        /\ run.pinned = row[r].pinned /\ run.created = row[r].created
    BY <2>1 DEF Run, ReapedRow
  <2>5. row'[r] = run /\ r \in Attempts
    BY <1>1, <2>1 DEF Rows
  <2> HIDE DEF run
  <2> QED
    BY <2>1, <2>2, <2>3, <2>4, <2>5 DEF Ended, Rows
<1> QED
  BY <1>1, <1>2

\* Time changes nothing of a row but its age.
LEMMA TickRows ==
    ASSUME TypeOK, Tick
    PROVE  \A r \in Attempts : SameRun(r)
<1> TAKE r \in Attempts
<1>1. PICK n : row'[r] = IF r \in Rows THEN [row[r] EXCEPT !.age = n] ELSE NoRow
  BY DEF Tick
<1>2. CASE r \notin Rows
  BY <1>1, <1>2 DEF SameRun, Rows
<1>3. CASE r \in Rows
  <2>1. row[r] \in Run
    BY <1>3, RunRow
  <2> DEFINE run == [row[r] EXCEPT !.age = n]
  <2>2. /\ run.status = row[r].status /\ run.source = row[r].source
        /\ run.target = row[r].target /\ run.alert = row[r].alert
        /\ run.rca = row[r].rca /\ run.pinned = row[r].pinned /\ run.created = row[r].created
    BY <2>1 DEF Run
  <2>3. run # NoRow
    BY <2>1, <2>2 DEF Run, NoRow
  <2> HIDE DEF run
  <2> QED
    BY <1>1, <1>3, <2>2, <2>3 DEF SameRun, Rows, run
<1> QED
  BY <1>2, <1>3

\* SetLatestOperatorRunPinned touches the pin of an operator row only.
LEMMA PinRows ==
    ASSUME TypeOK, NEW i \in Incidents, NEW pinned \in BOOLEAN, SetPinned(i, pinned)
    PROVE  \E r \in Rows :
               /\ row[r].source = "operator"
               /\ r \in Rows' /\ row'[r].pinned = pinned
               /\ row'[r].status = row[r].status /\ row'[r].source = row[r].source
               /\ row'[r].target = row[r].target /\ row'[r].alert = row[r].alert
               /\ row'[r].rca = row[r].rca /\ row'[r].created = row[r].created
               /\ \A o \in Attempts : o # r => row'[o] = row[o]
<1>1. PICK r \in Rows : /\ row[r].source = "operator"
                        /\ row' = [row EXCEPT ![r] = [row[r] EXCEPT !.pinned = pinned]]
  BY DEF SetPinned, LatestUpdated
<1>2. row[r] \in Run /\ r \in Attempts
  BY RunRow DEF Rows
<1> DEFINE run == [row[r] EXCEPT !.pinned = pinned]
<1>3. /\ run.pinned = pinned
      /\ run.status = row[r].status /\ run.source = row[r].source
      /\ run.target = row[r].target /\ run.alert = row[r].alert
      /\ run.rca = row[r].rca /\ run.created = row[r].created
  BY <1>2 DEF Run
<1>4. run # NoRow
  BY <1>2, <1>3 DEF Run, NoRow
<1>5. row'[r] = run /\ \A o \in Attempts : o # r => row'[o] = row[o]
  BY <1>1, <1>2 DEF TypeOK
<1> HIDE DEF run
<1> QED
  BY <1>1, <1>2, <1>3, <1>4, <1>5 DEF Rows

\* The row a trigger hands to its attempt: a new one, or one at rest whose
\* target, alert and RCA stay.
StartRow(r, k, src, t, a) ==
    /\ r \in Rows'
    /\ row'[r].status = "analyzing" /\ row'[r].source = src /\ row'[r].target = t
    /\ row'[r].created = k /\ ~row'[r].pinned
    /\ \/ r = k /\ r \notin Rows /\ row'[r].alert = a
       \/ /\ r \in Rows /\ row[r].status # "analyzing" /\ ~row[r].pinned /\ row[r].target = t
          /\ row'[r].alert = row[r].alert /\ row'[r].rca = row[r].rca

\* A trigger adds a row or takes over one at rest, and leaves the others.
LEMMA StartRows ==
    ASSUME TypeOK, Numbered, NEW src \in Sources, NEW t \in Targets, Start(src, t)
    PROVE  \E k \in Attempts, r \in Attempts, a \in Alerts :
               /\ k = attempts + 1 /\ attempts' = k
               /\ Allowed(src, t, a) /\ IncOf(t) = IncidentOf[a]
               /\ task[k] = NoTask /\ k \in Live' /\ task'[k].row = r /\ task'[k].pc = "begin"
               /\ ~task'[k].held
               /\ \A j \in Attempts : j # k => task'[j] = task[j]
               /\ StartRow(r, k, src, t, a)
               /\ \A o \in Attempts : o # r => row'[o] = row[o]
<1>1. PICK k \in Attempts, r \in Attempts, a \in Alerts :
               /\ k = attempts + 1 /\ attempts' = k /\ clock' \in Nat
               /\ Allowed(src, t, a) /\ IncOf(t) = IncidentOf[a]
               /\ task' = [task EXCEPT ![k] =
                       [pc |-> "begin", row |-> r, alert |-> a, source |-> src, elapsed |-> 0,
                        held |-> FALSE, ctx |-> FALSE, after |-> "fallback"]]
               /\ \/ r = k /\ row' = [row EXCEPT ![k] = FreshRow(k, src, t, a)]
                  \/ r \in ReuseCandidates(src, t, a) /\ row' = [row EXCEPT ![r] = ReusedRow(r, k, src)]
  BY StartEffect
<1>2. task[k] = NoTask /\ row[k] = NoRow
  BY <1>1, Numbers DEF Numbered, TypeOK
<1>3. /\ k \in Live' /\ task'[k].row = r /\ task'[k].pc = "begin" /\ ~task'[k].held
      /\ \A j \in Attempts : j # k => task'[j] = task[j]
  BY <1>1 DEF TypeOK, Live, NoTask
<1>4. ASSUME r = k, row' = [row EXCEPT ![k] = FreshRow(k, src, t, a)]
      PROVE  StartRow(r, k, src, t, a) /\ \A o \in Attempts : o # r => row'[o] = row[o]
  <2>1. row'[k] = FreshRow(k, src, t, a)
    BY <1>4 DEF TypeOK
  <2> QED
    BY <1>2, <1>4, <2>1 DEF StartRow, Rows, FreshRow, NoRow, TypeOK
<1>5. ASSUME r \in ReuseCandidates(src, t, a), row' = [row EXCEPT ![r] = ReusedRow(r, k, src)]
      PROVE  StartRow(r, k, src, t, a) /\ \A o \in Attempts : o # r => row'[o] = row[o]
  <2>1. r \in Rows /\ row[r].target = t /\ row[r].status # "analyzing" /\ ~row[r].pinned
    BY <1>5, CandidateRow
  <2>2. row[r] \in Run
    BY <2>1, RunRow
  <2> DEFINE run == ReusedRow(r, k, src)
  <2>3. /\ run.status = "analyzing" /\ run.source = src /\ run.target = row[r].target
        /\ run.alert = row[r].alert /\ run.rca = row[r].rca /\ run.created = k /\ ~run.pinned
    BY <2>2 DEF Run, ReusedRow
  <2>4. run # NoRow
    BY <2>3 DEF NoRow
  <2>5. row'[r] = run /\ \A o \in Attempts : o # r => row'[o] = row[o]
    BY <1>5, <2>1 DEF TypeOK, Rows
  <2> HIDE DEF run
  <2> QED
    BY <2>1, <2>3, <2>4, <2>5 DEF StartRow, Rows
<1> QED
  BY <1>1, <1>2, <1>3, <1>4, <1>5

\* A goroutine's step: its own task moves on or is gone, the others stay.
LEMMA StepTasks ==
    ASSUME TypeOK, NEW k \in Attempts, Step(k)
    PROVE  /\ k \in Live
           /\ \A j \in Attempts : j # k => task'[j] = task[j]
           /\ task'[k] = NoTask \/ SameGoroutine(k)
<1>1. task[k].pc # "none"
  BY DEF Step, Begin, AcquireSlot, SlotTimeout, CallSucceeds, CallFails, Complete, Apply, Fail, ApplyFallback
<1>2. k \in Live /\ task[k] \in Task
  BY <1>1, StepTask
<1>a. ASSUME NEW pc, pc # "none", Goto(k, pc)
      PROVE  SameGoroutine(k) /\ \A j \in Attempts : j # k => task'[j] = task[j]
  <2> DEFINE t == [task[k] EXCEPT !.pc = pc]
  <2>1. t.pc = pc /\ t.row = task[k].row /\ t.alert = task[k].alert
    BY <1>2 DEF Task
  <2>2. task'[k] = t /\ \A j \in Attempts : j # k => task'[j] = task[j]
    BY <1>a DEF Goto, TypeOK
  <2> HIDE DEF t
  <2> QED
    BY <1>a, <1>2, <2>1, <2>2 DEF SameGoroutine, Live, NoTask
<1>b. ASSUME NEW ctx, NEW after, Fails(k, ctx, after)
      PROVE  SameGoroutine(k) /\ \A j \in Attempts : j # k => task'[j] = task[j]
  <2> DEFINE t == [task[k] EXCEPT !.pc = "fail", !.ctx = ctx, !.after = after]
  <2>1. t.pc = "fail" /\ t.row = task[k].row /\ t.alert = task[k].alert
    BY <1>2 DEF Task
  <2>2. task'[k] = t /\ \A j \in Attempts : j # k => task'[j] = task[j]
    BY <1>b DEF Fails, TypeOK
  <2> HIDE DEF t
  <2> QED
    BY <1>2, <2>1, <2>2 DEF SameGoroutine, Live, NoTask
<1>c. Return(k) => task'[k] = NoTask /\ \A j \in Attempts : j # k => task'[j] = task[j]
  BY DEF Return, TypeOK
<1>3. CASE AcquireSlot(k)
  <2> DEFINE t == [task[k] EXCEPT !.pc = "call", !.held = TRUE, !.elapsed = 0]
  <2>1. t.pc = "call" /\ t.row = task[k].row /\ t.alert = task[k].alert
    BY <1>2 DEF Task
  <2>2. task'[k] = t /\ \A j \in Attempts : j # k => task'[j] = task[j]
    BY <1>3 DEF AcquireSlot, TypeOK
  <2> HIDE DEF t
  <2> QED
    BY <1>2, <2>1, <2>2 DEF SameGoroutine, Live, NoTask
<1>4. CASE ~AcquireSlot(k)
  <2>1. \/ \E pc \in {"slot", "complete", "apply", "fallback"} : Goto(k, pc)
        \/ \E ctx \in BOOLEAN, after \in {"fallback", "stop"} : Fails(k, ctx, after)
        \/ Return(k)
    BY <1>4
       DEF Step, Begin, SlotTimeout, CallSucceeds, CallFails, Complete, Apply, Fail, ApplyFallback
  <2>2. \A pc \in {"slot", "complete", "apply", "fallback"} : pc # "none"
    OBVIOUS
  <2> QED
    BY <1>2, <1>a, <1>b, <1>c, <2>1, <2>2
<1> QED
  BY <1>3, <1>4

\* Time leaves every goroutine where it is.
LEMMA TickTasks ==
    ASSUME TypeOK, Tick
    PROVE  \A k \in Attempts :
               /\ k \in Live <=> k \in Live'
               /\ k \in Live => /\ task'[k].pc = task[k].pc /\ task'[k].row = task[k].row
                                /\ task'[k].held = task[k].held
<1> TAKE k \in Attempts
<1>1. PICK n : task'[k] = IF k \in Waiting THEN [task[k] EXCEPT !.elapsed = n] ELSE task[k]
  BY DEF Tick
<1>2. CASE k \in Waiting
  <2>1. task[k] \in Task
    BY <1>2, LiveTask DEF Waiting
  <2> DEFINE t == [task[k] EXCEPT !.elapsed = n]
  <2>2. t.pc = task[k].pc /\ t.row = task[k].row /\ t.held = task[k].held
    BY <2>1 DEF Task
  <2>3. t # NoTask
    BY <2>1, <2>2 DEF Task, NoTask
  <2> HIDE DEF t
  <2> QED
    BY <1>1, <1>2, <2>2, <2>3 DEF Live, Waiting, t
<1>3. CASE k \notin Waiting
  BY <1>1, <1>3 DEF Live
<1> QED
  BY <1>2, <1>3

\* Attempt numbers stay in order.
LEMMA NextNumbered ==
    ASSUME TypeOK, Numbered, Next
    PROVE  Numbered'
<1> USE DEF Numbered
<1>0. /\ \A r \in Attempts : r \in Nat
      /\ attempts \in Nat
      /\ \A r \in Rows : r <= attempts
      /\ \A r \in Live : r <= attempts
  BY Numbers DEF TypeOK, Rows, Live
<1>a. ASSUME attempts' = attempts, \A r \in Attempts : r \in Rows' => r \in Rows,
             \A k \in Attempts : k \in Live' => k \in Live /\ task'[k].row = task[k].row
      PROVE  Numbered'
  BY <1>a, <1>0 DEF Rows, Live
<1>b. UNCHANGED task => \A k \in Attempts : k \in Live' => k \in Live /\ task'[k].row = task[k].row
  BY DEF Live
<1>c. UNCHANGED row => \A r \in Attempts : r \in Rows' => r \in Rows
  BY DEF Rows
<1>f. ASSUME NEW src \in Sources, NEW t \in Targets, Start(src, t)
      PROVE  Numbered'
  <2>1. PICK k \in Attempts, r \in Attempts, a \in Alerts :
               /\ k = attempts + 1 /\ attempts' = k
               /\ k \in Live' /\ task'[k].row = r
               /\ \A j \in Attempts : j # k => task'[j] = task[j]
               /\ StartRow(r, k, src, t, a)
               /\ \A o \in Attempts : o # r => row'[o] = row[o]
    BY <1>f, StartRows
  <2>2. r <= k
    <3>1. r = k \/ r \in Rows
      BY <2>1 DEF StartRow
    <3>2. k \in Nat /\ r \in Nat
      BY <1>0
    <3> QED
      BY <1>0, <2>1, <3>1, <3>2
  <2>3. \A o \in Attempts : o > k => row'[o] = NoRow /\ task'[o] = NoTask
    BY <1>0, <2>1, <2>2
  <2>4. \A j \in Live' : task'[j].row <= k
    <3> TAKE j \in Live'
    <3>1. CASE j = k
      BY <2>1, <2>2, <3>1
    <3>2. CASE j # k
      <4>1. j \in Live /\ task'[j].row = task[j].row
        BY <2>1, <3>2 DEF Live
      <4>2. task[j].row \in Attempts
        BY <4>1, LiveTask DEF Task
      <4>3. task[j].row <= attempts /\ task[j].row \in Nat
        BY <1>0, <4>1, <4>2
      <4> QED
        BY <1>0, <2>1, <4>1, <4>3
    <3> QED
      BY <3>1, <3>2
  <2> QED
    BY <2>1, <2>3, <2>4
<1>1. ASSUME NEW q \in Requests, Request(q)
      PROVE  Numbered'
  <2>1. q.source \in Sources /\ q.target \in Targets
    BY ConstantsAssumption
  <2> QED
    BY <1>1, <1>f, <2>1 DEF Request
<1>2. CASE BackfillScan
  BY <1>2, <1>a, <1>b, <1>c DEF BackfillScan
<1>3. ASSUME NEW a \in Alerts, BackfillStart(a)
      PROVE  Numbered'
  <2>1. "backfill" \in Sources /\ a \in Targets
    BY DEF Sources, Targets
  <2> QED
    BY <1>3, <1>a, <1>b, <1>c, <1>f, <2>1 DEF BackfillStart
<1>4. ASSUME NEW k \in Attempts, Step(k)
      PROVE  Numbered'
  <2>1. attempts' = attempts
    BY <1>4, StepKeepsCounters
  <2>2. \A r \in Attempts : r \in Rows' => r \in Rows
    BY <1>4, StepRows DEF Rows, Ended
  <2>3. \A j \in Attempts : j \in Live' => j \in Live /\ task'[j].row = task[j].row
    BY <1>4, StepTasks DEF SameGoroutine, Live
  <2> QED
    BY <1>a, <2>1, <2>2, <2>3
<1>5. CASE Reap
  <2>1. \A r \in Attempts : r \in Rows' => r \in Rows
    BY <1>5, ReapRows DEF Rows, Ended
  <2> QED
    BY <1>5, <1>a, <1>b, <2>1 DEF Reap
<1>6. ASSUME NEW i \in Incidents, OperatorCorrection(i)
      PROVE  Numbered'
  <2>1. /\ attempts' = attempts + 1 /\ UNCHANGED task
        /\ \A r \in Attempts : r # attempts + 1 => row'[r] = row[r]
    BY <1>6 DEF OperatorCorrection, TypeOK
  <2>2. \A k \in Live' : task'[k].row <= attempts'
    <3> TAKE k \in Live'
    <3>1. k \in Live /\ task'[k].row = task[k].row
      BY <2>1 DEF Live
    <3>2. task[k].row \in Attempts
      BY <3>1, LiveTask DEF Task
    <3> QED
      BY <1>0, <2>1, <3>1, <3>2
  <2> QED
    BY <1>0, <2>1, <2>2
<1>7. ASSUME NEW i \in Incidents, HardDelete(i)
      PROVE  Numbered'
  <2>1. \A r \in Attempts : r \in Rows' => r \in Rows
    BY <1>7 DEF HardDelete, Rows
  <2> QED
    BY <1>7, <1>a, <1>b, <2>1 DEF HardDelete
<1>8. ASSUME NEW i \in Incidents, NEW pinned \in BOOLEAN, SetPinned(i, pinned)
      PROVE  Numbered'
  <2>1. \A r \in Attempts : r \in Rows' => r \in Rows
    BY <1>8, PinRows DEF Rows
  <2> QED
    BY <1>8, <1>a, <1>b, <2>1 DEF SetPinned
<1>9. CASE Crash
  <2>1. Live' = {}
    BY <1>9 DEF Crash, Live
  <2> QED
    BY <1>9, <1>a, <1>c, <2>1 DEF Crash
<1>10. CASE Tick
  <2>1. \A r \in Attempts : r \in Rows' => r \in Rows
    BY <1>10, TickRows DEF SameRun
  <2>2. \A k \in Attempts : k \in Live' => k \in Live /\ task'[k].row = task[k].row
    BY <1>10, TickTasks
  <2> QED
    BY <1>10, <1>a, <2>1, <2>2 DEF Tick
<1> QED
  BY <1>1, <1>2, <1>3, <1>4, <1>5, <1>6, <1>7, <1>8, <1>9, <1>10 DEF Next

\* A goroutine gets its slot only in acquireAgentSlot.
LEMMA NextWaiters ==
    ASSUME TypeOK, Numbered, WaitersHoldNone, Next
    PROVE  WaitersHoldNone'
<1> USE DEF WaitersHoldNone
<1>b. UNCHANGED task => WaitersHoldNone'
  BY DEF Live
<1>f. ASSUME NEW src \in Sources, NEW t \in Targets, Start(src, t)
      PROVE  WaitersHoldNone'
  <2>1. PICK k \in Attempts :
               /\ ~task'[k].held
               /\ \A j \in Attempts : j # k => task'[j] = task[j]
    BY <1>f, StartRows
  <2> QED
    BY <2>1 DEF Live
<1>1. ASSUME NEW q \in Requests, Request(q)
      PROVE  WaitersHoldNone'
  <2>1. q.source \in Sources /\ q.target \in Targets
    BY ConstantsAssumption
  <2> QED
    BY <1>1, <1>f, <2>1 DEF Request
<1>3. ASSUME NEW a \in Alerts, BackfillStart(a)
      PROVE  WaitersHoldNone'
  <2>1. "backfill" \in Sources /\ a \in Targets
    BY DEF Sources, Targets
  <2> QED
    BY <1>3, <1>b, <1>f, <2>1 DEF BackfillStart
<1>4. ASSUME NEW k \in Attempts, Step(k)
      PROVE  WaitersHoldNone'
  <2>1. \A j \in Attempts : j # k => task'[j] = task[j]
    BY <1>4, StepTasks
  <2>2. k \in Live /\ task[k] \in Task
    BY <1>4, StepTasks, LiveTask
  <2>3. CASE Begin(k)
    <3>1. task'[k] = [task[k] EXCEPT !.pc = "slot"] /\ ~task[k].held
      BY <2>2, <2>3 DEF Begin, Goto, TypeOK
    <3>2. ~task'[k].held
      BY <2>2, <3>1 DEF Task
    <3> QED
      BY <2>1, <3>2 DEF Live
  <2>4. CASE ~Begin(k)
    <3>1. \/ task'[k] = NoTask
          \/ \E pc \in {"call", "complete", "apply", "fail", "fallback"} : task'[k].pc = pc
      <4>1. CASE AcquireSlot(k)
        <5>1. task'[k] = [task[k] EXCEPT !.pc = "call", !.held = TRUE, !.elapsed = 0]
          BY <4>1 DEF AcquireSlot, TypeOK
        <5> QED
          BY <2>2, <5>1 DEF Task
      <4>2. ASSUME NEW pc \in {"complete", "apply", "fallback"}, Goto(k, pc)
            PROVE  task'[k].pc = pc
        <5>1. task'[k] = [task[k] EXCEPT !.pc = pc]
          BY <4>2 DEF Goto, TypeOK
        <5> QED
          BY <2>2, <5>1 DEF Task
      <4>3. ASSUME NEW ctx, NEW after, Fails(k, ctx, after)
            PROVE  task'[k].pc = "fail"
        <5>1. task'[k] = [task[k] EXCEPT !.pc = "fail", !.ctx = ctx, !.after = after]
          BY <4>3 DEF Fails, TypeOK
        <5> QED
          BY <2>2, <5>1 DEF Task
      <4>4. Return(k) => task'[k] = NoTask
        BY DEF Return, TypeOK
      <4>5. \/ AcquireSlot(k)
            \/ \E pc \in {"complete", "apply", "fallback"} : Goto(k, pc)
            \/ \E ctx \in BOOLEAN, after \in {"fallback", "stop"} : Fails(k, ctx, after)
            \/ Return(k)
        BY <1>4, <2>4 DEF Step, SlotTimeout, CallSucceeds, CallFails, Complete, Apply, Fail, ApplyFallback
      <4> QED
        BY <4>1, <4>2, <4>3, <4>4, <4>5
    <3> QED
      BY <2>1, <3>1 DEF Live
  <2> QED
    BY <2>3, <2>4
<1>9. CASE Crash
  BY <1>9 DEF Crash, Live
<1>10. CASE Tick
  BY <1>10, TickTasks DEF Live
<1>11. CASE BackfillScan \/ Reap
  BY <1>11, <1>b DEF BackfillScan, Reap
<1>12. ASSUME NEW i \in Incidents, OperatorCorrection(i) \/ HardDelete(i)
       PROVE  WaitersHoldNone'
  BY <1>12, <1>b DEF OperatorCorrection, HardDelete
<1>13. ASSUME NEW i \in Incidents, NEW pinned \in BOOLEAN, SetPinned(i, pinned)
       PROVE  WaitersHoldNone'
  BY <1>13, <1>b DEF SetPinned
<1> QED
  BY <1>1, <1>3, <1>4, <1>9, <1>10, <1>11, <1>12, <1>13 DEF Next

\* The steps that matter to the rows: triggers of every kind start an attempt.
Idle == UNCHANGED <<row, task, attempts, alertFlag, incFlag, deleted, slots, clock, faults>>

\* The steps of the system, sorted by what they do to rows and goroutines.
LEMMA NextCases ==
    ASSUME Next
    PROVE  \/ \E src \in Sources \ {"operator"}, t \in Targets : Start(src, t)
           \/ Idle
           \/ \E k \in Attempts : Step(k)
           \/ Reap
           \/ \E i \in Incidents : OperatorCorrection(i)
           \/ \E i \in Incidents : HardDelete(i)
           \/ \E i \in Incidents, pinned \in BOOLEAN : SetPinned(i, pinned)
           \/ Crash
           \/ Tick
<1>1. ASSUME NEW q \in Requests, Request(q)
      PROVE  \E src \in Sources \ {"operator"}, t \in Targets : Start(src, t)
  <2>1. q.source \in Sources \ {"operator"} /\ q.target \in Targets
    BY ConstantsAssumption
  <2> QED
    BY <1>1, <2>1 DEF Request
<1>2. ASSUME NEW a \in Alerts, BackfillStart(a)
      PROVE  Idle \/ \E src \in Sources \ {"operator"}, t \in Targets : Start(src, t)
  <2>1. "backfill" \in Sources \ {"operator"} /\ a \in Targets
    BY DEF Sources, Targets
  <2> QED
    BY <1>2, <2>1 DEF BackfillStart, Idle
<1>3. BackfillScan => Idle
  BY DEF BackfillScan, Idle
<1> QED
  BY <1>1, <1>2, <1>3 DEF Next

\* CreateOperatorRun adds a complete, pinned row and touches no other.
LEMMA CorrectionRows ==
    ASSUME TypeOK, Numbered, NEW i \in Incidents, OperatorCorrection(i)
    PROVE  \E r \in Attempts, a \in MembersOf(i) :
               /\ r = attempts + 1 /\ r \notin Rows /\ r \in Rows'
               /\ row'[r].source = "operator" /\ row'[r].status = "complete"
               /\ row'[r].target = i /\ row'[r].alert = a
               /\ \A o \in Attempts : o # r => row'[o] = row[o]
<1>1. attempts + 1 \in Attempts
  BY Numbers DEF OperatorCorrection, TypeOK, Attempts
<1>2. row[attempts + 1] = NoRow
  BY <1>1 DEF Numbered, TypeOK
<1>3. PICK a \in MembersOf(i) :
          row' = [row EXCEPT ![attempts + 1] =
                       [FreshRow(attempts + 1, "operator", i, a) EXCEPT
                            !.status = "complete", !.rca = attempts + 1, !.meta = attempts + 1,
                            !.first = TRUE, !.pinned = TRUE]]
  BY DEF OperatorCorrection
<1>4. FreshRow(attempts + 1, "operator", i, a) \in Run
  BY <1>1, <1>3, FreshRowType DEF MembersOf, Sources, Targets
<1> DEFINE run == [FreshRow(attempts + 1, "operator", i, a) EXCEPT
                            !.status = "complete", !.rca = attempts + 1, !.meta = attempts + 1,
                            !.first = TRUE, !.pinned = TRUE]
<1>5. /\ run.status = "complete" /\ run.source = "operator" /\ run.target = i /\ run.alert = a
  BY <1>4 DEF Run, FreshRow
<1>6. run # NoRow
  BY <1>5 DEF NoRow
<1>7. row'[attempts + 1] = run /\ \A o \in Attempts : o # attempts + 1 => row'[o] = row[o]
  BY <1>1, <1>3 DEF TypeOK
<1> HIDE DEF run
<1> QED
  BY <1>1, <1>2, <1>5, <1>6, <1>7 DEF Rows

\* No step puts a second run of a target into progress.
LEMMA NextOneRun ==
    ASSUME TypeOK, Numbered, OneRunPerTarget, Next
    PROVE  OneRunPerTarget'
<1> DEFINE Quieter ==
        \A r \in Attempts : r \in Rows' /\ row'[r].status = "analyzing" =>
            r \in Rows /\ row[r].status = "analyzing" /\ row'[r].target = row[r].target
<1>a. ASSUME Quieter
      PROVE  OneRunPerTarget'
  <2> SUFFICES ASSUME NEW r \in Rows', NEW o \in Rows', row'[r].status = "analyzing",
                      row'[o].status = "analyzing", row'[r].target = row'[o].target
               PROVE  r = o
    BY DEF OneRunPerTarget
  <2>1. r \in Attempts /\ o \in Attempts
    BY DEF Rows
  <2> QED
    BY <1>a, <2>1 DEF OneRunPerTarget
<1>b. UNCHANGED row => Quieter
  BY DEF Rows
<1>1. ASSUME NEW src \in Sources, NEW t \in Targets, Start(src, t)
      PROVE  OneRunPerTarget'
  <2>1. PICK k \in Attempts, s \in Attempts, a \in Alerts :
            /\ Allowed(src, t, a) /\ StartRow(s, k, src, t, a)
            /\ \A o \in Attempts : o # s => row'[o] = row[o]
    BY <1>1, StartRows
  <2>2. \A q \in Rows : row[q].status = "analyzing" => row[q].target # t
    BY <2>1 DEF Allowed, AnalyzingFor
  <2>3. ASSUME NEW q \in Rows', row'[q].status = "analyzing", row'[q].target = t
        PROVE  q = s
    BY <2>1, <2>2, <2>3 DEF Rows
  <2> SUFFICES ASSUME NEW r \in Rows', NEW o \in Rows', row'[r].status = "analyzing",
                      row'[o].status = "analyzing", row'[r].target = row'[o].target
               PROVE  r = o
    BY DEF OneRunPerTarget
  <2>4. CASE row'[r].target = t
    BY <2>3, <2>4
  <2>5. CASE row'[r].target # t
    <3>1. r # s /\ o # s
      BY <2>1, <2>5 DEF StartRow
    <3> QED
      BY <2>1, <3>1 DEF OneRunPerTarget, Rows
  <2> QED
    BY <2>4, <2>5
<1>2. ASSUME NEW k \in Attempts, Step(k)
      PROVE  Quieter
  BY <1>2, StepRows DEF Ended, Rows
<1>3. Reap => Quieter
  BY ReapRows DEF Ended, Rows
<1>4. ASSUME NEW i \in Incidents, OperatorCorrection(i)
      PROVE  Quieter
  BY <1>4, CorrectionRows DEF Rows
<1>5. ASSUME NEW i \in Incidents, HardDelete(i)
      PROVE  Quieter
  BY <1>5 DEF HardDelete, Rows
<1>6. ASSUME NEW i \in Incidents, NEW pinned \in BOOLEAN, SetPinned(i, pinned)
      PROVE  Quieter
  BY <1>6, PinRows DEF Rows
<1>7. Tick => Quieter
  BY TickRows DEF SameRun
<1>8. Crash \/ Idle => Quieter
  BY <1>b DEF Crash, Idle
<1> HIDE DEF Quieter
<1> QED
  BY <1>a, <1>1, <1>2, <1>3, <1>4, <1>5, <1>6, <1>7, <1>8, NextCases

\* No step lets an attempt near an operator's row.
LEMMA NextOperatorRows ==
    ASSUME TypeOK, Numbered, OperatorRowsRest, Next
    PROVE  OperatorRowsRest'
<1> DEFINE RowOK(r) == /\ row'[r].pinned => row'[r].source = "operator"
                       /\ row'[r].source = "operator" => row'[r].status = "complete"
           Driven   == \A k \in Live' : task'[k].row \in Rows' => row'[task'[k].row].source # "operator"
           Tasks    == \A k \in Attempts : k \in Live' => k \in Live /\ task'[k].row = task[k].row
           Sources1 == \A r \in Attempts : r \in Rows' => r \in Rows /\ row'[r].source = row[r].source
<1>0. \A k \in Live : task[k].row \in Attempts
  BY LiveTask DEF Task
<1>a. ASSUME \A r \in Rows' : RowOK(r), Driven
      PROVE  OperatorRowsRest'
  BY <1>a DEF OperatorRowsRest
<1>b. Tasks /\ Sources1 => Driven
  BY <1>0 DEF OperatorRowsRest, Live
<1>c. UNCHANGED row => Sources1 /\ \A r \in Rows' : RowOK(r)
  BY DEF Rows, OperatorRowsRest
<1>d. UNCHANGED task => Tasks
  BY DEF Live
<1>1. ASSUME NEW src \in Sources \ {"operator"}, NEW t \in Targets, Start(src, t)
      PROVE  (\A r \in Rows' : RowOK(r)) /\ Driven
  <2>1. PICK k \in Attempts, s \in Attempts, a \in Alerts :
            /\ task'[k].row = s
            /\ \A j \in Attempts : j # k => task'[j] = task[j]
            /\ StartRow(s, k, src, t, a)
            /\ \A o \in Attempts : o # s => row'[o] = row[o]
    BY <1>1, StartRows
  <2>2. row'[s].source # "operator" /\ ~row'[s].pinned
    BY <2>1 DEF StartRow
  <2>3. \A r \in Rows' : RowOK(r)
    BY <2>1, <2>2 DEF Rows, OperatorRowsRest
  <2>4. Driven
    <3> SUFFICES ASSUME NEW j \in Live', task'[j].row \in Rows', task'[j].row # s
                 PROVE  row'[task'[j].row].source # "operator"
      BY <2>2
    <3>1. j \in Live /\ task'[j] = task[j]
      BY <2>1 DEF Live
    <3> QED
      BY <1>0, <2>1, <3>1 DEF OperatorRowsRest, Rows
  <2> QED
    BY <2>3, <2>4
<1>2. ASSUME NEW k \in Attempts, Step(k)
      PROVE  (\A r \in Rows' : RowOK(r)) /\ Driven
  <2>1. k \in Live /\ task[k].row \in Attempts
    BY <1>0, <1>2, StepTasks
  <2>2. Tasks
    BY <1>2, StepTasks DEF Live, SameGoroutine
  <2>3. Sources1
    BY <1>2, StepRows DEF Rows, Ended
  <2>4. \A r \in Rows' : RowOK(r)
    <3> TAKE r \in Rows'
    <3>1. CASE row'[r] = row[r]
      BY <3>1 DEF Rows, OperatorRowsRest
    <3>2. CASE r = task[k].row /\ Ended(r)
      <4>1. row[r].source # "operator"
        BY <2>1, <3>2 DEF Ended, OperatorRowsRest
      <4> QED
        BY <3>2, <4>1 DEF Ended, OperatorRowsRest
    <3> QED
      BY <1>2, <3>1, <3>2, StepRows DEF Rows
  <2> QED
    BY <1>b, <2>2, <2>3, <2>4
<1>3. ASSUME Reap
      PROVE  (\A r \in Rows' : RowOK(r)) /\ Driven
  <2>1. PICK reaped \in SUBSET Stale :
            row' = [r \in Attempts |-> IF r \in reaped THEN ReapedRow(r) ELSE row[r]]
    BY <1>3 DEF Reap
  <2>2. \A r \in reaped : r \in Rows /\ row[r].status = "analyzing"
    BY <2>1 DEF Stale
  <2>3. Sources1
    BY <1>3, ReapRows DEF Rows, Ended
  <2>4. \A r \in Rows' : RowOK(r)
    <3> TAKE r \in Rows'
    <3>1. CASE r \in reaped
      <4>1. row[r] \in Run /\ row[r].source # "operator"
        BY <2>2, <3>1, RunRow DEF OperatorRowsRest
      <4>2. row'[r].source = row[r].source /\ row'[r].pinned = row[r].pinned
        BY <1>3, <2>1, <2>2, <3>1, <4>1 DEF ReapedRow, Run, Rows
      <4> QED
        BY <2>2, <3>1, <4>1, <4>2 DEF OperatorRowsRest
    <3>2. CASE r \notin reaped
      BY <2>1, <3>2 DEF Rows, OperatorRowsRest
    <3> QED
      BY <3>1, <3>2
  <2> QED
    BY <1>3, <1>b, <1>d, <2>3, <2>4 DEF Reap
<1>4. ASSUME NEW i \in Incidents, OperatorCorrection(i)
      PROVE  (\A r \in Rows' : RowOK(r)) /\ Driven
  <2>1. PICK s \in Attempts :
            /\ s = attempts + 1 /\ row'[s].source = "operator" /\ row'[s].status = "complete"
            /\ \A o \in Attempts : o # s => row'[o] = row[o]
    BY <1>4, CorrectionRows
  <2>2. \A r \in Rows' : RowOK(r)
    BY <2>1 DEF Rows, OperatorRowsRest
  <2>3. \A k \in Live : task[k].row # s
    BY <1>0, <2>1, Numbers DEF Numbered, TypeOK
  <2>4. Driven
    BY <1>4, <1>0, <2>1, <2>3 DEF OperatorCorrection, OperatorRowsRest, Live, Rows
  <2> QED
    BY <2>2, <2>4
<1>5. ASSUME NEW i \in Incidents, HardDelete(i)
      PROVE  (\A r \in Rows' : RowOK(r)) /\ Driven
  <2>1. \A r \in Rows' : r \in Rows /\ row'[r] = row[r]
    BY <1>5 DEF HardDelete, Rows
  <2> QED
    BY <1>5, <1>b, <1>d, <2>1 DEF HardDelete, OperatorRowsRest, Rows
<1>6. ASSUME NEW i \in Incidents, NEW pinned \in BOOLEAN, SetPinned(i, pinned)
      PROVE  (\A r \in Rows' : RowOK(r)) /\ Driven
  <2>1. PICK s \in Rows :
            /\ row[s].source = "operator" /\ row'[s].source = row[s].source
            /\ row'[s].status = row[s].status
            /\ \A o \in Attempts : o # s => row'[o] = row[o]
    BY <1>6, PinRows
  <2>2. \A r \in Rows' : RowOK(r)
    BY <2>1 DEF Rows, OperatorRowsRest
  <2>3. Sources1
    BY <2>1 DEF Rows
  <2> QED
    BY <1>6, <1>b, <1>d, <2>2, <2>3 DEF SetPinned
<1>7. ASSUME Crash
      PROVE  (\A r \in Rows' : RowOK(r)) /\ Driven
  BY <1>7, <1>c DEF Crash, Live
<1>8. ASSUME Tick
      PROVE  (\A r \in Rows' : RowOK(r)) /\ Driven
  <2>1. Tasks
    BY <1>8, TickTasks
  <2>2. Sources1 /\ \A r \in Rows' : RowOK(r)
    BY <1>8, TickRows DEF SameRun, OperatorRowsRest, Rows
  <2> QED
    BY <1>b, <2>1, <2>2
<1>9. ASSUME Idle
      PROVE  (\A r \in Rows' : RowOK(r)) /\ Driven
  BY <1>9, <1>b, <1>c, <1>d DEF Idle
<1> HIDE DEF Driven, RowOK
<1> QED
  BY <1>a, <1>1, <1>2, <1>3, <1>4, <1>5, <1>6, <1>7, <1>8, <1>9, NextCases

\* The alert on a row stays within the row's incident.
LEMMA NextAlerts ==
    ASSUME TypeOK, Numbered, AlertOfIncident, Next
    PROVE  AlertOfIncident'
<1> DEFINE Kept == \A r \in Attempts : r \in Rows' =>
                       r \in Rows /\ row'[r].alert = row[r].alert /\ row'[r].target = row[r].target
<1>a. Kept => AlertOfIncident'
  BY DEF AlertOfIncident, Rows, IncOf
<1>1. ASSUME NEW src \in Sources, NEW t \in Targets, Start(src, t)
      PROVE  AlertOfIncident'
  <2>1. PICK k \in Attempts, s \in Attempts, a \in Alerts :
            /\ IncOf(t) = IncidentOf[a] /\ StartRow(s, k, src, t, a)
            /\ \A o \in Attempts : o # s => row'[o] = row[o]
    BY <1>1, StartRows
  <2>2. IncidentOf[row'[s].alert] = IncOf(row'[s].target)
    BY <2>1 DEF StartRow, AlertOfIncident
  <2> QED
    BY <2>1, <2>2 DEF AlertOfIncident, Rows, IncOf
<1>2. ASSUME NEW k \in Attempts, Step(k)
      PROVE  Kept
  BY <1>2, StepRows DEF Ended, Rows
<1>3. Reap => Kept
  BY ReapRows DEF Ended, Rows
<1>4. ASSUME NEW i \in Incidents, OperatorCorrection(i)
      PROVE  AlertOfIncident'
  <2>1. PICK s \in Attempts, a \in MembersOf(i) :
            /\ row'[s].target = i /\ row'[s].alert = a
            /\ \A o \in Attempts : o # s => row'[o] = row[o]
    BY <1>4, CorrectionRows
  <2>2. IncidentOf[row'[s].alert] = IncOf(row'[s].target)
    BY <2>1 DEF MembersOf, IncOf
  <2> QED
    BY <2>1, <2>2 DEF AlertOfIncident, Rows, IncOf
<1>5. ASSUME NEW i \in Incidents, HardDelete(i)
      PROVE  Kept
  BY <1>5 DEF HardDelete, Rows
<1>6. ASSUME NEW i \in Incidents, NEW pinned \in BOOLEAN, SetPinned(i, pinned)
      PROVE  Kept
  BY <1>6, PinRows DEF Rows
<1>7. Tick => Kept
  BY TickRows DEF SameRun
<1>8. Crash \/ Idle => Kept
  BY DEF Crash, Idle, Rows
<1> HIDE DEF Kept
<1> QED
  BY <1>a, <1>1, <1>2, <1>3, <1>4, <1>5, <1>6, <1>7, <1>8, NextCases

\* Flags of alerts and incidents are set and cleared together.
LEMMA NextFlags ==
    ASSUME TypeOK, AlertOfIncident, AlertOfIncident', FlagsNested, Next
    PROVE  FlagsNested'
<1> USE DEF FlagsNested
<1>a. UNCHANGED <<alertFlag, incFlag>> => FlagsNested'
  OBVIOUS
<1>b. ASSUME NEW a \in Alerts, ClearFlags(a)
      PROVE  FlagsNested'
  <2> SUFFICES ASSUME NEW b \in alertFlag'
               PROVE  IncidentOf[b] \in incFlag'
    OBVIOUS
  <2>1. b \in alertFlag /\ IncidentOf[b] \in incFlag /\ b \in Alerts
    BY <1>b DEF ClearFlags, TypeOK
  <2>2. CASE IncidentOf[b] = IncidentOf[a]
    BY <1>b, <2>1, <2>2 DEF ClearFlags, MembersOf
  <2>3. CASE IncidentOf[b] # IncidentOf[a]
    BY <1>b, <2>1, <2>3 DEF ClearFlags
  <2> QED
    BY <2>2, <2>3
<1>1. ASSUME NEW src \in Sources, NEW t \in Targets, Start(src, t)
      PROVE  FlagsNested'
  BY <1>1, <1>a DEF Start
<1>2. ASSUME NEW k \in Attempts, Step(k)
      PROVE  FlagsNested'
  <2>1. task[k].alert \in Alerts
    BY <1>2, StepTasks, LiveTask DEF Task
  <2>2. CASE Begin(k)
    BY <2>2 DEF Begin
  <2>3. CASE ~Begin(k)
    <3>1. ClearFlags(task[k].alert) \/ UNCHANGED <<alertFlag, incFlag>>
      BY <1>2, <2>3 DEF Step, AcquireSlot, SlotTimeout, CallSucceeds, CallFails, Complete, Apply, Fail, ApplyFallback
    <3> QED
      BY <1>a, <1>b, <2>1, <3>1
  <2> QED
    BY <2>2, <2>3
<1>3. CASE Reap
  <2>1. PICK reaped \in SUBSET Stale :
            LET active == StillAnalyzing(reaped)
            IN  /\ alertFlag' = {a \in alertFlag : \E run \in active : run.alert = a}
                /\ incFlag' = {i \in incFlag : \E run \in active : IncOf(run.target) = i}
    BY <1>3 DEF Reap
  <2>2. \A run \in StillAnalyzing(reaped) : IncidentOf[run.alert] = IncOf(run.target)
    BY DEF StillAnalyzing, AlertOfIncident
  <2> QED
    BY <2>1, <2>2
<1>5. ASSUME NEW i \in Incidents, HardDelete(i)
      PROVE  FlagsNested'
  BY <1>5 DEF HardDelete, MembersOf, TypeOK
<1>6. ASSUME NEW i \in Incidents, OperatorCorrection(i) \/ \E pinned \in BOOLEAN : SetPinned(i, pinned)
      PROVE  FlagsNested'
  BY <1>6, <1>a DEF OperatorCorrection, SetPinned
<1>7. Crash \/ Idle \/ Tick => FlagsNested'
  BY <1>a DEF Crash, Idle, Tick
<1> QED
  BY <1>1, <1>2, <1>3, <1>5, <1>6, <1>7, NextCases

\* A goroutine reaches the end of its life only over a terminal row.
LEMMA StepSettles ==
    ASSUME TypeOK, SettledRowsRest, NEW k \in Attempts, Step(k)
    PROVE  /\ task'[k].pc \in {"apply", "fallback"} => Ended(task[k].row)
           /\ task'[k] = NoTask /\ UNCHANGED faults /\ Current(k)
                  => row'[task[k].row].status # "analyzing"
<1>0. k \in Live /\ task[k] \in Task
  BY StepTasks, LiveTask
<1>1. \A pc : Goto(k, pc) => task'[k].pc = pc
  <2> SUFFICES ASSUME NEW pc, Goto(k, pc)
               PROVE  task'[k].pc = pc
    OBVIOUS
  <2>1. task'[k] = [task[k] EXCEPT !.pc = pc]
    BY DEF Goto, TypeOK
  <2> QED
    BY <1>0, <2>1 DEF Task
<1>2. \A ctx, after : Fails(k, ctx, after) => task'[k].pc = "fail"
  <2> SUFFICES ASSUME NEW ctx, NEW after, Fails(k, ctx, after)
               PROVE  task'[k].pc = "fail"
    OBVIOUS
  <2>1. task'[k] = [task[k] EXCEPT !.pc = "fail", !.ctx = ctx, !.after = after]
    BY DEF Fails, TypeOK
  <2> QED
    BY <1>0, <2>1 DEF Task
<1>3. Return(k) => task'[k] = NoTask /\ task'[k].pc = "none"
  BY DEF Return, TypeOK, NoTask
<1>4. NoTask.pc = "none"
  BY DEF NoTask
<1>5. Fault => faults' # faults
  BY DEF Fault, TypeOK
<1>6. CASE Complete(k)
  <2> DEFINE r   == task[k].row
             run == [row[r] EXCEPT !.status = "complete", !.rca = k, !.meta = k, !.prev = 0,
                                   !.first = TRUE, !.updated = Now, !.age = 0]
  <2>1. CASE r \in Rows /\ SetRow(r, run) /\ Goto(k, "apply")
    <3>1. row[r] \in Run /\ r \in Attempts
      BY <2>1, RunRow DEF Rows
    <3>2. run.status = "complete"
      BY <3>1 DEF Run
    <3>3. row'[r] = run
      BY <2>1, <3>1 DEF SetRow, TypeOK
    <3>5. run # NoRow
      BY <3>2 DEF NoRow
    <3>6. /\ run.source = row[r].source /\ run.target = row[r].target /\ run.alert = row[r].alert
          /\ run.pinned = row[r].pinned /\ run.created = row[r].created /\ run.rca = k /\ k > 0
      BY <3>1, Numbers DEF Run, Attempts
    <3> HIDE DEF run
    <3>7. Ended(r)
      BY <2>1, <3>1, <3>2, <3>3, <3>5, <3>6 DEF Ended, Rows, Good
    <3> QED
      BY <1>1, <1>4, <2>1, <3>7
  <2>2. CASE r \notin Rows /\ Return(k)
    BY <1>3, <2>2 DEF Current
  <2>3. CASE Return(k) /\ Fault
    BY <1>3, <1>5, <2>3
  <2> QED
    BY <1>6, <2>1, <2>2, <2>3 DEF Complete
<1>7. CASE Fail(k)
  <2> DEFINE r == task[k].row
             run == FailedRow(r, k)
  <2>1. ASSUME r \in Rows, SetRow(r, run)
        PROVE  Ended(r)
    <3>1. row[r] \in Run /\ r \in Attempts
      BY <2>1, RunRow DEF Rows
    <3>2. run.status = "failed"
      BY <3>1 DEF Run, FailedRow
    <3>3. row'[r] = run
      BY <2>1, <3>1 DEF SetRow, TypeOK
    <3>4. run # NoRow
      BY <3>2 DEF NoRow
    <3>5. /\ run.rca = IF row[r].rca = NoRCA THEN Fallback ELSE row[r].rca
          /\ run.source = row[r].source /\ run.target = row[r].target /\ run.alert = row[r].alert
          /\ run.pinned = row[r].pinned /\ run.created = row[r].created
      BY <3>1 DEF Run, FailedRow
    <3> HIDE DEF run
    <3> QED
      BY <2>1, <3>1, <3>2, <3>3, <3>4, <3>5 DEF Ended, Rows, Good, NoRCA
  <2>2. CASE r \in Rows /\ SetRow(r, run)
    BY <2>1, <2>2 DEF Ended
  <2>3. CASE r \notin Rows /\ Return(k)
    BY <1>3, <2>3 DEF Current
  <2>4. CASE Return(k) /\ Fault
    BY <1>3, <1>5, <2>4
  <2> QED
    BY <1>7, <2>2, <2>3, <2>4 DEF Fail
<1>8. CASE Apply(k) \/ ApplyFallback(k)
  <2>1. task[k].pc \in {"apply", "fallback"} /\ UNCHANGED row
    BY <1>8 DEF Apply, ApplyFallback
  <2>2. task'[k].pc \in {"none", "fail"}
    BY <1>2, <1>3, <1>8 DEF Apply, ApplyFallback
  <2> QED
    BY <1>0, <2>1, <2>2 DEF SettledRowsRest
<1>9. CASE AcquireSlot(k)
  <2>1. task'[k] = [task[k] EXCEPT !.pc = "call", !.held = TRUE, !.elapsed = 0]
    BY <1>9 DEF AcquireSlot, TypeOK
  <2>2. task'[k].pc = "call"
    BY <1>0, <2>1 DEF Task
  <2> QED
    BY <1>4, <2>2
<1>10. CASE Begin(k) \/ SlotTimeout(k) \/ CallSucceeds(k) \/ CallFails(k)
  <2>1. task'[k].pc \in {"slot", "complete", "fail"}
    BY <1>1, <1>2, <1>10 DEF Begin, SlotTimeout, CallSucceeds, CallFails
  <2> QED
    BY <1>4, <2>1
<1> QED
  BY <1>6, <1>7, <1>8, <1>9, <1>10 DEF Step

\* An attempt past its terminal write does not come back to its row.
LEMMA NextSettled ==
    ASSUME TypeOK, Numbered, SettledRowsRest, Next
    PROVE  SettledRowsRest'
<1> DEFINE Calmer(r) == r \in Rows' => \/ row'[r].status # "analyzing"
                                      \/ /\ r \in Rows /\ row'[r].status = row[r].status
                                         /\ row'[r].created = row[r].created
           SameTask(j) == j \in Live' => j \in Live /\ task'[j].row = task[j].row /\ task'[j].pc = task[j].pc
           Settled(j) == task'[j].pc \in {"apply", "fallback"} /\ Current(j)'
                            => row'[task'[j].row].status # "analyzing"
<1>0. \A j \in Live : task[j].row \in Attempts
  BY LiveTask DEF Task
<1>a. ASSUME NEW j \in Live', SameTask(j), Calmer(task[j].row)
      PROVE  Settled(j)
  BY <1>a, <1>0 DEF SettledRowsRest, Current
<1>b. UNCHANGED row => \A r : Calmer(r)
  BY DEF Rows
<1>c. UNCHANGED task => \A j \in Attempts : SameTask(j)
  BY DEF Live
<1>d. Live' \subseteq Attempts
  BY DEF Live
<1> SUFFICES ASSUME NEW j \in Live'
             PROVE  Settled(j)
  BY DEF SettledRowsRest
<1>1. ASSUME NEW src \in Sources, NEW t \in Targets, Start(src, t)
      PROVE  Settled(j)
  <2>1. PICK k \in Attempts, s \in Attempts, a \in Alerts :
            /\ k = attempts + 1 /\ task'[k].pc = "begin"
            /\ \A i \in Attempts : i # k => task'[i] = task[i]
            /\ StartRow(s, k, src, t, a)
            /\ \A o \in Attempts : o # s => row'[o] = row[o]
    BY <1>1, StartRows
  <2>2. CASE j = k
    BY <2>1, <2>2
  <2>3. CASE j # k /\ task'[j].row = s
    BY <2>1, <2>3 DEF Current, StartRow
  <2>4. CASE j # k /\ task'[j].row # s
    <3>1. SameTask(j)
      BY <1>d, <2>1, <2>4 DEF Live
    <3>2. Calmer(task[j].row)
      BY <1>0, <1>d, <2>1, <2>4, <3>1 DEF Rows
    <3> QED
      BY <1>a, <3>1, <3>2
  <2> QED
    BY <2>2, <2>3, <2>4
<1>2. ASSUME NEW k \in Attempts, Step(k)
      PROVE  Settled(j)
  <2>1. CASE j = k
    <3>1. task'[k].row = task[k].row
      BY <1>2, <2>1, StepTasks DEF Live, SameGoroutine
    <3>2. task'[k].pc \in {"apply", "fallback"} => Ended(task[k].row)
      BY <1>2, StepSettles
    <3> QED
      BY <2>1, <3>1, <3>2 DEF Ended
  <2>2. CASE j # k
    <3>1. SameTask(j)
      BY <1>2, <1>d, <2>2, StepTasks DEF Live
    <3>2. Calmer(task[j].row)
      BY <1>0, <1>2, <3>1, StepRows DEF Ended, Rows
    <3> QED
      BY <1>a, <3>1, <3>2
  <2> QED
    BY <2>1, <2>2
<1>3. ASSUME Reap
      PROVE  Settled(j)
  <2>1. SameTask(j)
    BY <1>3, <1>c, <1>d DEF Reap
  <2>2. Calmer(task[j].row)
    BY <1>0, <1>3, <2>1, ReapRows DEF Ended, Rows
  <2> QED
    BY <1>a, <2>1, <2>2
<1>4. ASSUME NEW i \in Incidents, OperatorCorrection(i)
      PROVE  Settled(j)
  <2>1. SameTask(j)
    BY <1>4, <1>c, <1>d DEF OperatorCorrection
  <2>2. Calmer(task[j].row)
    BY <1>0, <1>4, <2>1, CorrectionRows DEF Rows
  <2> QED
    BY <1>a, <2>1, <2>2
<1>5. ASSUME NEW i \in Incidents, HardDelete(i)
      PROVE  Settled(j)
  <2>1. SameTask(j)
    BY <1>5, <1>c, <1>d DEF HardDelete
  <2>2. Calmer(task[j].row)
    BY <1>0, <1>5, <2>1 DEF HardDelete, Rows
  <2> QED
    BY <1>a, <2>1, <2>2
<1>6. ASSUME NEW i \in Incidents, NEW pinned \in BOOLEAN, SetPinned(i, pinned)
      PROVE  Settled(j)
  <2>1. SameTask(j)
    BY <1>6, <1>c, <1>d DEF SetPinned
  <2>2. Calmer(task[j].row)
    BY <1>0, <1>6, <2>1, PinRows DEF Rows
  <2> QED
    BY <1>a, <2>1, <2>2
<1>7. ASSUME Tick
      PROVE  Settled(j)
  <2>1. SameTask(j)
    BY <1>7, <1>d, TickTasks
  <2>2. Calmer(task[j].row)
    BY <1>0, <1>7, <2>1, TickRows DEF SameRun
  <2> QED
    BY <1>a, <2>1, <2>2
<1>8. Crash => Settled(j)
  BY DEF Crash, Live
<1>9. Idle => Settled(j)
  BY <1>a, <1>b, <1>c, <1>d DEF Idle
<1> HIDE DEF Settled
<1> QED
  BY <1>1, <1>2, <1>3, <1>4, <1>5, <1>6, <1>7, <1>8, <1>9, NextCases

\* While nothing has failed, an analyzing row keeps its goroutine.
LEMMA NextDriven ==
    ASSUME TypeOK, Numbered, SettledRowsRest, AnalyzingIsDriven, Next
    PROVE  AnalyzingIsDriven'
<1> DEFINE Driven(r) == \E k \in Live' : task'[k].row = r /\ Current(k)'
           SameTask(k) == k \in Live' /\ task'[k].row = task[k].row
           Carried(r) == r \in Rows /\ row[r].status = "analyzing" /\ row'[r].created = row[r].created
<1>0. \A k \in Live : k \in Attempts
  BY DEF Live
<1>1. faults' = 0 => faults = 0
  <2>1. UNCHANGED faults \/ Fault
    <3>1. \A k \in Attempts : Step(k) => UNCHANGED faults \/ Fault
      BY DEF Step, Begin, AcquireSlot, SlotTimeout, CallSucceeds, CallFails, Complete, Apply, Fail, ApplyFallback
    <3> QED
      BY <3>1, NextCases DEF Start, Idle, Reap, OperatorCorrection, HardDelete, SetPinned, Crash, Tick
  <2> QED
    BY <2>1 DEF Fault, TypeOK
<1> SUFFICES ASSUME faults' = 0, NEW r \in Rows', row'[r].status = "analyzing"
             PROVE  Driven(r)
  BY DEF AnalyzingIsDriven
<1>2. r \in Attempts /\ faults = 0
  BY <1>1 DEF Rows
<1>a. ASSUME Carried(r), \A k \in Live : SameTask(k)
      PROVE  Driven(r)
  <2>1. PICK k \in Live : task[k].row = r /\ Current(k)
    BY <1>2, <1>a DEF AnalyzingIsDriven
  <2> QED
    BY <1>a, <2>1 DEF Current
<1>b. UNCHANGED task => \A k \in Live : SameTask(k)
  BY DEF Live
<1>3. ASSUME NEW src \in Sources, NEW t \in Targets, Start(src, t)
      PROVE  Driven(r)
  <2>1. PICK k \in Attempts, s \in Attempts, a \in Alerts :
            /\ task[k] = NoTask /\ k \in Live' /\ task'[k].row = s
            /\ \A i \in Attempts : i # k => task'[i] = task[i]
            /\ StartRow(s, k, src, t, a)
            /\ \A o \in Attempts : o # s => row'[o] = row[o]
    BY <1>3, StartRows
  <2>2. CASE r = s
    BY <2>1, <2>2 DEF StartRow, Current
  <2>3. CASE r # s
    <3>1. Carried(r)
      BY <1>2, <2>1, <2>3 DEF Rows
    <3>2. \A j \in Live : SameTask(j)
      BY <2>1 DEF Live
    <3> QED
      BY <1>a, <3>1, <3>2
  <2> QED
    BY <2>2, <2>3
<1>4. ASSUME NEW k \in Attempts, Step(k)
      PROVE  Driven(r)
  <2>1. Carried(r)
    BY <1>2, <1>4, StepRows DEF Ended, Rows
  <2>2. PICK j \in Live : task[j].row = r /\ Current(j)
    BY <1>2, <2>1 DEF AnalyzingIsDriven
  <2>3. SameTask(j)
    <3>1. CASE j # k
      BY <1>0, <1>4, <3>1, StepTasks DEF Live
    <3>2. CASE j = k
      <4>1. UNCHANGED faults
        <5>1. UNCHANGED faults \/ Fault
          BY <1>4 DEF Step, Begin, AcquireSlot, SlotTimeout, CallSucceeds, CallFails, Complete, Apply,
                      Fail, ApplyFallback
        <5> QED
          BY <1>2, <5>1
      <4>2. task'[k] # NoTask
        BY <1>4, <2>2, <3>2, <4>1, StepSettles
      <4> QED
        BY <1>4, <3>2, <4>2, StepTasks DEF SameGoroutine
    <3> QED
      BY <3>1, <3>2
  <2> QED
    BY <2>1, <2>2, <2>3 DEF Current
<1>5. ASSUME Reap
      PROVE  Driven(r)
  <2>1. Carried(r)
    BY <1>2, <1>5, ReapRows DEF Ended, Rows
  <2> QED
    BY <1>5, <1>a, <1>b, <2>1 DEF Reap
<1>6. ASSUME NEW i \in Incidents, OperatorCorrection(i)
      PROVE  Driven(r)
  <2>1. Carried(r)
    BY <1>2, <1>6, CorrectionRows DEF Rows
  <2> QED
    BY <1>6, <1>a, <1>b, <2>1 DEF OperatorCorrection
<1>7. ASSUME NEW i \in Incidents, HardDelete(i)
      PROVE  Driven(r)
  <2>1. Carried(r)
    BY <1>2, <1>7 DEF HardDelete, Rows
  <2> QED
    BY <1>7, <1>a, <1>b, <2>1 DEF HardDelete
<1>8. ASSUME NEW i \in Incidents, NEW pinned \in BOOLEAN, SetPinned(i, pinned)
      PROVE  Driven(r)
  <2>1. Carried(r)
    BY <1>2, <1>8, PinRows DEF Rows
  <2> QED
    BY <1>8, <1>a, <1>b, <2>1 DEF SetPinned
<1>9. ASSUME Tick
      PROVE  Driven(r)
  <2>1. Carried(r)
    BY <1>2, <1>9, TickRows DEF SameRun
  <2>2. \A k \in Live : SameTask(k)
    BY <1>0, <1>9, TickTasks
  <2> QED
    BY <1>a, <2>1, <2>2
<1>10. ~Crash
  BY <1>2 DEF Crash, Fault
<1>11. Idle => Driven(r)
  BY <1>2, <1>a, <1>b DEF Idle, Rows
<1> HIDE DEF Driven
<1> QED
  BY <1>3, <1>4, <1>5, <1>6, <1>7, <1>8, <1>9, <1>10, <1>11, NextCases

(***************************************************************************)
(* The theorems                                                            *)
(***************************************************************************)
\* What every reachable state satisfies.  The properties need the facts below
\* them: OneRunPerTarget that the row a trigger creates is new (Numbered),
\* SlotsAccounted that a waiter holds no slot, FlagsNested that a row's alert is
\* one of its incident's, and AnalyzingIsDriven that a goroutine past its
\* terminal write leaves no row of its own behind.
Inv ==
    /\ TypeOK /\ SlotsAccounted /\ OneRunPerTarget /\ FlagsNested /\ AnalyzingIsDriven
    /\ Numbered /\ WaitersHoldNone /\ AlertOfIncident /\ OperatorRowsRest /\ SettledRowsRest

\* The invariant holds at the start.
LEMMA InitInv == Init => Inv
<1> SUFFICES ASSUME Init
             PROVE  Inv
  OBVIOUS
<1>1. Rows = {} /\ Live = {} /\ Holders = {}
  BY DEF Init, Rows, Live, Holders
<1>2. TypeOK
  BY Numbers, ConstantsAssumption DEF Init, TypeOK
<1>3. SlotsAccounted
  BY <1>1, FS_EmptySet DEF Init, SlotsAccounted
<1>4. OneRunPerTarget /\ FlagsNested /\ AnalyzingIsDriven
  BY <1>1 DEF Init, OneRunPerTarget, FlagsNested, AnalyzingIsDriven
<1>5. Numbered /\ WaitersHoldNone /\ AlertOfIncident /\ OperatorRowsRest /\ SettledRowsRest
  BY <1>1 DEF Init, Numbered, WaitersHoldNone, AlertOfIncident, OperatorRowsRest, SettledRowsRest
<1> QED
  BY <1>2, <1>3, <1>4, <1>5 DEF Inv

\* The invariant is inductive.
LEMMA NextInv == Inv /\ [Next]_vars => Inv'
<1> SUFFICES ASSUME Inv, [Next]_vars
             PROVE  Inv'
  OBVIOUS
<1>1. CASE Next
  <2>1. TypeOK' /\ SlotsAccounted'
    BY <1>1, NextTypes DEF Inv
  <2>2. Numbered' /\ WaitersHoldNone'
    BY <1>1, NextNumbered, NextWaiters DEF Inv
  <2>3. OneRunPerTarget'
    BY <1>1, NextOneRun DEF Inv
  <2>4. AlertOfIncident'
    BY <1>1, NextAlerts DEF Inv
  <2>5. FlagsNested'
    BY <1>1, <2>4, NextFlags DEF Inv
  <2>6. OperatorRowsRest'
    BY <1>1, NextOperatorRows DEF Inv
  <2>7. SettledRowsRest' /\ AnalyzingIsDriven'
    BY <1>1, NextSettled, NextDriven DEF Inv
  <2> QED
    BY <2>1, <2>2, <2>3, <2>4, <2>5, <2>6, <2>7 DEF Inv
<1>2. CASE UNCHANGED vars
  <2>1. Rows' = Rows /\ Live' = Live /\ Holders' = Holders
    BY <1>2 DEF vars, Rows, Live, Holders
  <2>2. TypeOK' /\ SlotsAccounted' /\ FlagsNested' /\ Numbered' /\ WaitersHoldNone'
    BY <1>2, <2>1 DEF vars, Inv, TypeOK, SlotsAccounted, FlagsNested, Numbered, WaitersHoldNone
  <2>3. OneRunPerTarget' /\ AlertOfIncident' /\ OperatorRowsRest'
    BY <1>2, <2>1 DEF vars, Inv, OneRunPerTarget, AlertOfIncident, OperatorRowsRest, IncOf
  <2>4. SettledRowsRest' /\ AnalyzingIsDriven'
    BY <1>2, <2>1 DEF vars, Inv, SettledRowsRest, AnalyzingIsDriven, Current
  <2> QED
    BY <2>2, <2>3, <2>4 DEF Inv
<1> QED
  BY <1>1, <1>2

\* The inductive invariant holds of every behaviour of the store and its
\* goroutines; the theorems below are its consequences.
THEOREM Invariance == Spec => []Inv
BY InitInv, NextInv, PTL DEF Spec

\* Every variable keeps its type, in particular the semaphore never holds more
\* than its capacity (acquireAgentSlot).
THEOREM TypesHold == Spec => []TypeOK
<1>1. Inv => TypeOK
  BY DEF Inv
<1> QED
  BY <1>1, Invariance, PTL

\* A target is never analysed by two runs at once (CreateAnalysisRunIfAllowed).
THEOREM OneRunHolds == Spec => []OneRunPerTarget
<1>1. Inv => OneRunPerTarget
  BY DEF Inv
<1> QED
  BY <1>1, Invariance, PTL

\* No return path of requestAnalysisRun leaks or doubles an agent slot.
THEOREM SlotsHold == Spec => []SlotsAccounted
<1>1. Inv => SlotsAccounted
  BY DEF Inv
<1> QED
  BY <1>1, Invariance, PTL

\* An alert is never shown in progress under an idle incident.
THEOREM FlagsNestedHolds == Spec => []FlagsNested
<1>1. Inv => FlagsNested
  BY DEF Inv
<1> QED
  BY <1>1, Invariance, PTL

\* Without a crash or a rejected write a goroutine works on every analyzing row.
THEOREM DrivenHolds == Spec => []AnalyzingIsDriven
<1>1. Inv => AnalyzingIsDriven
  BY DEF Inv
<1> QED
  BY <1>1, Invariance, PTL

\* A successful RCA is never lost to a failure (FailAnalysisRun,
\* ReapStaleAnalyzingRuns).
THEOREM LastGoodHolds == Spec => LastGoodKept
<1> DEFINE Kept == \A r \in Rows : Good(row[r].rca) /\ row'[r] # NoRow => Good(row'[r].rca)
<1>1. Inv /\ Next => Kept
  <2> SUFFICES ASSUME TypeOK, Numbered, Next, NEW r \in Rows, Good(row[r].rca), row'[r] # NoRow
               PROVE  Good(row'[r].rca)
    BY DEF Inv
  <2>0. r \in Attempts
    BY DEF Rows
  <2>a. SameRun(r) \/ Ended(r) \/ row'[r] = row[r] => Good(row'[r].rca)
    BY DEF SameRun, Ended
  <2>1. ASSUME NEW src \in Sources, NEW t \in Targets, Start(src, t)
        PROVE  Good(row'[r].rca)
    <3>1. PICK k \in Attempts, s \in Attempts, a \in Alerts :
              StartRow(s, k, src, t, a) /\ \A o \in Attempts : o # s => row'[o] = row[o]
      BY <2>1, StartRows
    <3> QED
      BY <2>0, <3>1 DEF StartRow
  <2>2. ASSUME NEW k \in Attempts, Step(k)
        PROVE  Good(row'[r].rca)
    BY <2>0, <2>2, <2>a, StepRows
  <2>3. ASSUME Reap
        PROVE  Good(row'[r].rca)
    BY <2>0, <2>3, <2>a, ReapRows
  <2>4. ASSUME NEW i \in Incidents, OperatorCorrection(i)
        PROVE  Good(row'[r].rca)
    BY <2>0, <2>4, CorrectionRows
  <2>5. ASSUME NEW i \in Incidents, HardDelete(i)
        PROVE  Good(row'[r].rca)
    BY <2>0, <2>5 DEF HardDelete
  <2>6. ASSUME NEW i \in Incidents, NEW pinned \in BOOLEAN, SetPinned(i, pinned)
        PROVE  Good(row'[r].rca)
    <3>1. PICK s \in Rows : row'[s].rca = row[s].rca /\ \A o \in Attempts : o # s => row'[o] = row[o]
      BY <2>6, PinRows
    <3> QED
      BY <2>0, <3>1
  <2>7. ASSUME Tick
        PROVE  Good(row'[r].rca)
    BY <2>0, <2>7, <2>a, TickRows
  <2>8. Crash \/ Idle => Good(row'[r].rca)
    BY DEF Crash, Idle
  <2> QED
    BY <2>1, <2>2, <2>3, <2>4, <2>5, <2>6, <2>7, <2>8, NextCases
<1>2. Inv /\ [Next]_vars => [Kept]_vars
  BY <1>1
<1>3. Spec => [][Kept]_vars
  BY <1>2, Invariance, PTL DEF Spec
<1> QED
  BY <1>3 DEF LastGoodKept

\* A pinned correction is rewritten by no attempt, early or late
\* (reusableTargetAnalysisRunLocked, CompleteAnalysisRun, FailAnalysisRun).
THEOREM PinnedHolds == Spec => PinnedUntouched
<1> DEFINE Untouched == \A r \in Rows : row[r].pinned /\ row'[r] # NoRow =>
                            /\ row'[r].rca = row[r].rca
                            /\ row'[r].status = "complete"
                            /\ row'[r].source = "operator"
<1>1. Inv /\ Next => Untouched
  <2> SUFFICES ASSUME TypeOK, Numbered, OperatorRowsRest, Next,
                      NEW r \in Rows, row[r].pinned, row'[r] # NoRow
               PROVE  /\ row'[r].rca = row[r].rca
                      /\ row'[r].status = row[r].status
                      /\ row'[r].source = row[r].source
    BY DEF Inv, OperatorRowsRest
  <2> DEFINE Same == /\ row'[r].rca = row[r].rca
                     /\ row'[r].status = row[r].status
                     /\ row'[r].source = row[r].source
  <2>0. r \in Attempts /\ row[r].source = "operator" /\ row[r].status = "complete"
    BY DEF Rows, OperatorRowsRest
  <2>a. row'[r] = row[r] => Same
    OBVIOUS
  <2>1. ASSUME NEW src \in Sources, NEW t \in Targets, Start(src, t)
        PROVE  Same
    <3>1. PICK k \in Attempts, s \in Attempts, a \in Alerts :
              StartRow(s, k, src, t, a) /\ \A o \in Attempts : o # s => row'[o] = row[o]
      BY <2>1, StartRows
    <3>2. r # s
      BY <3>1 DEF StartRow
    <3> QED
      BY <2>0, <3>1, <3>2
  <2>2. ASSUME NEW k \in Attempts, Step(k)
        PROVE  Same
    <3>1. k \in Live
      BY <2>2, StepTasks
    <3>2. r # task[k].row
      BY <2>0, <3>1 DEF OperatorRowsRest
    <3> QED
      BY <2>0, <2>2, <3>2, StepRows
  <2>3. ASSUME Reap
        PROVE  Same
    <3>1. PICK reaped \in SUBSET Stale :
              row' = [o \in Attempts |-> IF o \in reaped THEN ReapedRow(o) ELSE row[o]]
      BY <2>3 DEF Reap
    <3>2. r \notin reaped
      BY <2>0, <3>1 DEF Stale
    <3> QED
      BY <2>0, <3>1, <3>2
  <2>4. ASSUME NEW i \in Incidents, OperatorCorrection(i)
        PROVE  Same
    BY <2>0, <2>4, CorrectionRows
  <2>5. ASSUME NEW i \in Incidents, HardDelete(i)
        PROVE  Same
    BY <2>0, <2>5 DEF HardDelete
  <2>6. ASSUME NEW i \in Incidents, NEW pinned \in BOOLEAN, SetPinned(i, pinned)
        PROVE  Same
    <3>1. PICK s \in Rows : /\ row'[s].rca = row[s].rca /\ row'[s].status = row[s].status
                            /\ row'[s].source = row[s].source
                            /\ \A o \in Attempts : o # s => row'[o] = row[o]
      BY <2>6, PinRows
    <3> QED
      BY <2>0, <3>1
  <2>7. ASSUME Tick
        PROVE  Same
    BY <2>0, <2>7, TickRows DEF SameRun
  <2>8. Crash \/ Idle => Same
    BY DEF Crash, Idle
  <2> HIDE DEF Same
  <2>9. Same
    BY <2>1, <2>2, <2>3, <2>4, <2>5, <2>6, <2>7, <2>8, NextCases
  <2> QED
    BY <2>9 DEF Same
<1>2. Inv /\ [Next]_vars => [Untouched]_vars
  BY <1>1
<1>3. Spec => [][Untouched]_vars
  BY <1>2, Invariance, PTL DEF Spec
<1> QED
  BY <1>3 DEF PinnedUntouched
=============================================================================
