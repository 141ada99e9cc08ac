------------------------- MODULE AgentService_proofs -------------------------
(***************************************************************************)
(* The agent process keeps its promise to the backend for any number of    *)
(* requests, runs and targets: it implements AnalysisService.  Of the      *)
(* analyses themselves: what one reads and ranks on is of its own time,    *)
(* and what it cites is what it concluded from.  Registry facts come       *)
(* first, then the refinement, the frames, and the cards they cite.        *)
(***************************************************************************)
EXTENDS AgentService, SequenceTheorems, TLAPS

----------------------------------------------------------------------------
(* The registry: what it promises its readers, for every history of snapshots. *)

\* The ETag and the last successful sync stay with the snapshot, and a response
\* in flight is never older: one refresh runs at a time, and nothing else
\* installs a snapshot under it.
RegistryOrder ==
    /\ etag = snap.rev
    /\ synced = snap.rev
    /\ snap.rev <= published
    /\ snap.rev > 0 => snap = Validated(snap.rev)
    /\ answer.kind = "snapshot" => snap.rev <= answer.rev /\ answer.rev <= published
    /\ answer.kind = "unchanged" => answer.rev = snap.rev
RegistryInv == RegistryTypeOK /\ RegistryOrder

\* The backend publishes at least one revision.
LEMMA SomeRevision == Revisions \in Nat /\ 1 \in 1..Revisions
BY RegistryAssumption

\* The registry starts without a snapshot.
LEMMA RegistryInvInit == RegistryInit => RegistryInv
<1> SUFFICES ASSUME RegistryInit PROVE RegistryInv
  OBVIOUS
<1>1. published \in 1..Revisions /\ etag \in 0..Revisions /\ synced \in 0..Revisions
  BY SomeRevision DEF RegistryInit
<1>2. snap \in [rev : 0..Revisions, active : SUBSET Packages, shadow : SUBSET Packages]
  BY SomeRevision DEF RegistryInit, NoSnapshot
<1>3. answer \in [kind : {"idle", "unchanged", "snapshot", "failed"}, rev : 0..Revisions]
  BY SomeRevision DEF RegistryInit, Idle
<1>4. RegistryOrder
  BY DEF RegistryInit, RegistryOrder, NoSnapshot, Idle
<1>5. QED
  BY <1>1, <1>2, <1>3, <1>4 DEF RegistryInit, RegistryInv, RegistryTypeOK

\* Every publication and every step of a refresh keeps snapshot, ETag and sync
\* together, and no step lowers the revision (refresh, _install).
LEMMA RegistryInvStep ==
    ASSUME RegistryInv, RegistryNext \/ UNCHANGED registryVars
    PROVE  RegistryInv' /\ snap'.rev >= snap.rev
<1> USE SomeRevision DEF RegistryInv
<1>i. Idle \in [kind : {"idle", "unchanged", "snapshot", "failed"}, rev : 0..Revisions]
       /\ Idle.kind = "idle"
  BY DEF Idle
<1>1. CASE Publish
  BY <1>1 DEF Publish, RegistryTypeOK, RegistryOrder
<1>2. CASE Fetch
  <2>1. /\ answer' \in [kind : {"unchanged", "snapshot", "failed"}, rev : {published}]
        /\ answer'.kind = "unchanged" => etag = published
        /\ UNCHANGED <<published, snap, etag, synced, syncError>>
    BY <1>2 DEF Fetch
  <2>2. QED
    BY <2>1 DEF RegistryTypeOK, RegistryOrder
<1>3. CASE Install
  <2>1. answer.rev \in 0..Revisions /\ answer.rev <= published /\ snap.rev <= answer.rev
    BY <1>3 DEF Install, RegistryTypeOK, RegistryOrder
  <2>2. /\ Validated(answer.rev) \in [rev : 0..Revisions, active : SUBSET Packages,
                                                          shadow : SUBSET Packages]
        /\ Validated(answer.rev).rev = answer.rev
    BY <2>1 DEF Validated, In
  <2>3. RegistryTypeOK'
    BY <1>i, <1>3, <2>1, <2>2 DEF Install, RegistryTypeOK
  <2>4. snap' = Validated(snap'.rev) /\ snap'.rev = answer.rev /\ answer'.kind = "idle"
    BY <1>3, <2>2 DEF Install, Idle
  <2>5. RegistryOrder'
    BY <1>3, <2>1, <2>4 DEF Install, RegistryOrder, Validated, In
  <2>6. QED
    BY <2>1, <2>3, <2>4, <2>5
<1>4. CASE NotModified
  <2>1. RegistryTypeOK'
    BY <1>i, <1>4 DEF NotModified, RegistryTypeOK
  <2>2. RegistryOrder' /\ snap' = snap
    BY <1>4 DEF NotModified, RegistryTypeOK, RegistryOrder, Idle, Validated, In
  <2>3. QED
    BY <2>1, <2>2 DEF RegistryTypeOK
<1>5. CASE SyncFails
  BY <1>i, <1>5 DEF SyncFails, RegistryTypeOK, RegistryOrder
<1>6. CASE UNCHANGED registryVars
  BY <1>6 DEF registryVars, RegistryTypeOK, RegistryOrder, Validated, In
<1>7. QED
  BY <1>1, <1>2, <1>3, <1>4, <1>5, <1>6 DEF RegistryNext, Refresh

\* The registry's variables keep their types: there is one response in flight
\* at most, and no revision the backend has not published.
THEOREM RegistryTypesHold == RegistrySpec => []RegistryTypeOK
<1>1. RegistryInv => RegistryTypeOK
  BY DEF RegistryInv
<1>2. RegistryInv /\ [RegistryNext]_registryVars => RegistryInv'
  BY RegistryInvStep
<1>3. QED
  BY <1>1, <1>2, RegistryInvInit, PTL DEF RegistrySpec

\* A sync that was marked successful, by a 200 or by a 304, left the packages of
\* the revision the backend answered with, whatever was refused in between.
THEOREM SyncedIsInstalledHolds == RegistrySpec => []SyncedIsInstalled
<1>1. RegistryInv => SyncedIsInstalled
  BY DEF RegistryInv, RegistryOrder, SyncedIsInstalled
<1>2. RegistryInv /\ [RegistryNext]_registryVars => RegistryInv'
  BY RegistryInvStep
<1>3. QED
  BY <1>1, <1>2, RegistryInvInit, PTL DEF RegistrySpec

\* No refresh takes the agent back to an older revision or drops the one it has.
THEOREM NeverOlderHolds == RegistrySpec => NeverOlder
<1>1. RegistryInv /\ [RegistryNext]_registryVars => RegistryInv' /\ snap'.rev >= snap.rev
  BY RegistryInvStep
<1>2. QED
  BY <1>1, RegistryInvInit, PTL DEF RegistrySpec, NeverOlder

----------------------------------------------------------------------------
(* The process. *)

Early  == {"idle", "queued", "lock", "load", "engine"}
Middle == {"preplan", "preplanRead", "plan", "evidenceRead", "rank"}
Ranked == {"follow", "synth", "publish"}
Places == Early \cup Middle \cup Ranked \cup Over

\* Where every analysis is, and who the registry of cancellable runs names.
ServiceTypeOK ==
    /\ conf \in Confs
    /\ pc \in [Requests -> Places]
    /\ stop \in [Requests -> BOOLEAN]
    /\ running \in [RunIds -> {None} \cup {<<q>> : q \in Requests}]

\* The registry names a request of the run; a live analysis that was not told to
\* stop is the one it names, so a cancel or a newer request reaches it.
RunningIsNamed ==
    /\ \A q \in Requests : pc[q] = "idle" => ~stop[q]
    /\ \A run \in RunIds, q \in Requests : running[run] = <<q>> => conf.runOf[q] = run
    /\ \A q \in Requests : Live(q) /\ ~stop[q] /\ conf.runOf[q] # "" =>
          running[conf.runOf[q]] = <<q>>
RegistryOfRuns == ServiceTypeOK /\ RunningIsNamed

\* What a deployment gives each request.
LEMMA ConfFacts == ASSUME conf \in Confs, NEW r \in Requests
                   PROVE  /\ conf.runOf \in [Requests -> RunIds \cup {""}]
                          /\ conf.runOf[r] \in RunIds \cup {""}
                          /\ conf.target[r] \in Targets
BY ServiceAssumption

\* The steps of an analysis that move it on: pc changes within the live places and
\* nothing the caller sees does.
Moves(r) ==
    /\ Live(r) /\ ~stop[r]
    /\ \E where \in Places \ ({"idle"} \cup Over) : Goto(r, where)
    /\ UNCHANGED <<conf, stop, reply, running, told>>

\* The steps that end it, with what its caller will be told.
Ends(r) ==
    /\ Live(r)
    /\ Goto(r, "done")
    /\ \/ ~stop[r] /\ \E what \in {"rca", "expired", "error"} :
                         reply' = [reply EXCEPT ![r] = what]
       \/ stop[r] /\ reply' = [reply EXCEPT ![r] = "stopped"]
    /\ UNCHANGED <<conf, stop, running, told>>

\* Seen from the registry, a step of the process is a request, a cancel, an answer,
\* a move or an end, or nothing at all.
LEMMA StepKinds ==
    ASSUME ServiceTypeOK, Next
    PROVE  \/ \E r \in Requests : Submit(r) \/ Answer(r) \/ Moves(r) \/ Ends(r)
           \/ \E run \in RunIds : Cancel(run)
           \/ UNCHANGED <<conf, runVars>>
<1> USE DEF Live, At, Over, Goto, Places, Early, Middle, Ranked
<1>1. ASSUME NEW r \in Requests, TaskCancelled(r) \/ TimeOut(r) \/ EngineAnswers(r)
                                  \/ Report(r) \/ PipelineFails(r)
      PROVE  Ends(r)
  BY <1>1 DEF TaskCancelled, TimeOut, EngineAnswers, Report, PipelineFails, Finish, Ends
<1>2. ASSUME NEW r \in Requests, Start(r) \/ Lock(r) \/ Load(r) \/ EngineFails(r)
      PROVE  Moves(r)
  BY <1>2 DEF Start, Lock, Load, EngineFails, Afresh, Moves
<1>3. ASSUME NEW r \in Requests, PrePlan(r) \/ PrePlanRead(r) \/ Evidence(r) \/ EvidenceRead(r)
      PROVE  Moves(r)
  BY <1>3 DEF PrePlan, PrePlanRead, Evidence, EvidenceRead, Moves
<1>4. ASSUME NEW r \in Requests, Rank(r) \/ FollowUp(r) \/ NoFollowUp(r) \/ Synthesize(r)
      PROVE  Moves(r)
  BY <1>4 DEF Rank, FollowUp, NoFollowUp, Synthesize, Moves
<1>5. ASSUME (\E t \in Targets : Age(t)) \/ Sync PROVE UNCHANGED <<conf, runVars>>
  BY <1>5 DEF Age, Sync
<1>6. QED
  BY <1>1, <1>2, <1>3, <1>4, <1>5 DEF Next, Direct

-----------------------------------------------------------------------------
(* The registry of runs, and the refinement *)

\* The process starts with nobody registered.
LEMMA RegistryOfRunsInit == Init => RegistryOfRuns
<1> SUFFICES ASSUME Init PROVE RegistryOfRuns
  OBVIOUS
<1>1. /\ conf \in Confs
      /\ pc = [r \in Requests |-> "idle"] /\ stop = [r \in Requests |-> FALSE]
      /\ running = [run \in RunIds |-> None]
  BY DEF Init
<1>2. ServiceTypeOK
  BY <1>1 DEF ServiceTypeOK, Places, Early
<1>3. RunningIsNamed
  BY <1>1 DEF RunningIsNamed, Live, None
<1>4. QED
  BY <1>2, <1>3 DEF RegistryOfRuns

\* A newer request, a cancel, an answer or the end of a task leaves the registry
\* naming the live analysis of each run (analyze, cancel_analysis).
LEMMA RegistryOfRunsStep == ASSUME RegistryOfRuns, [Next]_vars PROVE RegistryOfRuns'
<1> USE DEF RegistryOfRuns
<1>1. ASSUME NEW r \in Requests, Submit(r) PROVE RegistryOfRuns'
  <2>1. /\ pc[r] = "idle" /\ pc' = [pc EXCEPT ![r] = "queued"]
        /\ conf' = conf
    BY <1>1 DEF Submit, Goto
  <2>2. CASE conf.runOf[r] = ""
    <3>1. stop' = stop /\ running' = running
      BY <1>1, <2>2 DEF Submit
    <3>2. QED
      BY <2>1, <2>2, <3>1 DEF ServiceTypeOK, RunningIsNamed, Live, Places, Early, Over
  <2>3. CASE conf.runOf[r] # ""
    <3> DEFINE run == conf.runOf[r]
    <3>1. run \in RunIds
      BY <2>3, ConfFacts DEF ServiceTypeOK
    <3>2. /\ stop' = [q \in Requests |-> stop[q] \/ (running[run] = <<q>> /\ Live(q))]
          /\ running' = [running EXCEPT ![run] = <<r>>]
      BY <1>1, <2>3 DEF Submit
    <3>3. ServiceTypeOK'
      BY <2>1, <3>1, <3>2 DEF ServiceTypeOK, Places, Early
    <3>4. ASSUME NEW q \in Requests, pc'[q] = "idle" PROVE ~stop'[q]
      BY <2>1, <3>2, <3>4 DEF ServiceTypeOK, RunningIsNamed, Live
    <3>5. ASSUME NEW x \in RunIds, NEW q \in Requests, running'[x] = <<q>>
          PROVE  conf'.runOf[q] = x
      <4>1. x = run => q = r
        BY <3>1, <3>2, <3>5 DEF ServiceTypeOK
      <4>2. x # run => running[x] = <<q>>
        BY <3>1, <3>2, <3>5 DEF ServiceTypeOK
      <4>3. QED
        BY <2>1, <4>1, <4>2 DEF RunningIsNamed
    <3>6. ASSUME NEW q \in Requests, Live(q)', ~stop'[q], conf'.runOf[q] # ""
          PROVE  running'[conf'.runOf[q]] = <<q>>
      <4>1. CASE q = r
        BY <2>1, <3>1, <3>2, <4>1 DEF ServiceTypeOK
      <4>2. CASE q # r
        <5>1. Live(q) /\ ~stop[q] /\ conf.runOf[q] # ""
          BY <2>1, <3>2, <3>6, <4>2 DEF Live, ServiceTypeOK
        <5>2. running[conf.runOf[q]] = <<q>>
          BY <5>1 DEF RunningIsNamed
        <5>3. conf.runOf[q] # run
          BY <3>2, <3>6, <5>1, <5>2
        <5>4. conf.runOf[q] \in RunIds
          BY <5>1, ConfFacts DEF ServiceTypeOK
        <5>5. QED
          BY <2>1, <3>1, <3>2, <5>2, <5>3, <5>4 DEF ServiceTypeOK
      <4>3. QED
        BY <4>1, <4>2
    <3>7. QED
      BY <3>3, <3>4, <3>5, <3>6 DEF RunningIsNamed
  <2>4. QED
    BY <2>2, <2>3
<1>2. ASSUME NEW r \in Requests, Answer(r) PROVE RegistryOfRuns'
  <2>1. /\ pc[r] = "done" /\ pc' = [pc EXCEPT ![r] = "answered"]
        /\ running' = [run \in RunIds |-> IF running[run] = <<r>> THEN None ELSE running[run]]
        /\ conf' = conf /\ stop' = stop
    BY <1>2 DEF Answer, Goto
  <2>2. ServiceTypeOK'
    BY <2>1 DEF ServiceTypeOK, Places, Over
  <2>3. ASSUME NEW run \in RunIds, NEW q \in Requests, running'[run] = <<q>>
        PROVE  running[run] = <<q>>
    BY <2>1, <2>3 DEF None
  <2>4. ASSUME NEW q \in Requests, Live(q)', ~stop'[q], conf'.runOf[q] # ""
        PROVE  running'[conf'.runOf[q]] = <<q>>
    <3>1. q # r /\ Live(q) /\ ~stop[q]
      BY <2>1, <2>4 DEF Live, Over, ServiceTypeOK
    <3>2. conf.runOf[q] \in RunIds /\ running[conf.runOf[q]] = <<q>>
      BY <2>1, <2>4, <3>1, ConfFacts DEF ServiceTypeOK, RunningIsNamed
    <3>3. QED
      BY <2>1, <3>1, <3>2
  <2>5. ASSUME NEW q \in Requests, pc'[q] = "idle" PROVE ~stop'[q]
    BY <2>1, <2>5 DEF ServiceTypeOK, RunningIsNamed
  <2>6. QED
    BY <2>1, <2>2, <2>3, <2>4, <2>5 DEF RunningIsNamed
<1>3. ASSUME NEW r \in Requests, Moves(r) \/ Ends(r) PROVE RegistryOfRuns'
  <2>1. /\ Live(r) /\ UNCHANGED <<conf, stop, running>>
        /\ \E where \in Places \ {"idle"} : pc' = [pc EXCEPT ![r] = where]
    BY <1>3 DEF Moves, Ends, Goto, Places, Over
  <2>2. QED
    BY <2>1 DEF ServiceTypeOK, RunningIsNamed, Live
<1>4. ASSUME NEW run \in RunIds, Cancel(run) PROVE RegistryOfRuns'
  <2>1. UNCHANGED <<conf, pc, running>>
    BY <1>4 DEF Cancel
  <2>2. CASE stop' = stop
    BY <2>1, <2>2 DEF ServiceTypeOK, RunningIsNamed, Live
  <2>3. CASE stop' # stop
    <3>1. PICK r \in Requests : running[run] = <<r>> /\ Live(r)
      BY <1>4, <2>3 DEF Cancel
    <3>2. stop' = [q \in Requests |-> stop[q] \/ running[run] = <<q>>]
      BY <1>4, <2>3 DEF Cancel
    <3>3. stop' \in [Requests -> BOOLEAN]
      BY <3>2 DEF ServiceTypeOK
    <3>4. \A q \in Requests : running[run] = <<q>> => q = r
      BY <3>1
    <3>5. \A q \in Requests : (stop[q] => stop'[q]) /\ (stop'[q] => stop[q] \/ q = r)
      BY <3>2, <3>4, Zenon
    <3>6. pc[r] # "idle"
      BY <3>1 DEF Live
    <3>7. QED
      BY <2>1, <3>3, <3>5, <3>6 DEF ServiceTypeOK, RunningIsNamed, Live
  <2>4. QED
    BY <2>2, <2>3
<1>5. CASE UNCHANGED <<conf, runVars>>
  BY <1>5 DEF ServiceTypeOK, RunningIsNamed, Live, runVars
<1>6. CASE UNCHANGED vars
  BY <1>5, <1>6 DEF vars
<1>7. QED
  BY <1>1, <1>2, <1>3, <1>4, <1>5, <1>6, StepKinds

\* A live request is open, or stopping once it was told to.
LEMMA StateOf == ASSUME ServiceTypeOK, NEW r \in Requests
    PROVE  /\ ServiceState[r] = "new" <=> pc[r] = "idle"
           /\ ServiceState[r] = "open" <=> Live(r) /\ ~stop[r]
           /\ ServiceState[r] = "stopping" <=> Live(r) /\ stop[r]
           /\ ServiceState[r] = "answered" <=> pc[r] \in Over
BY DEF ServiceTypeOK, ServiceState, Live, Over

\* The same of the next state.
LEMMA StateOfNext == ASSUME ServiceTypeOK', NEW r \in Requests
    PROVE  /\ ServiceState'[r] = "new" <=> pc'[r] = "idle"
           /\ ServiceState'[r] = "open" <=> Live(r)' /\ ~stop'[r]
           /\ ServiceState'[r] = "stopping" <=> Live(r)' /\ stop'[r]
           /\ ServiceState'[r] = "answered" <=> pc'[r] \in Over
BY DEF ServiceTypeOK, ServiceState, Live, Over

LEMMA StatesOnly == /\ ServiceState \in [Requests -> {"new", "open", "stopping", "answered"}]
                    /\ ServiceState' \in [Requests -> {"new", "open", "stopping", "answered"}]
BY DEF ServiceState

\* Nobody has asked for anything.
LEMMA ServiceInit == Init => Service!Init
<1> SUFFICES ASSUME Init PROVE Service!Init
  OBVIOUS
<1>1. conf.runOf \in [Requests -> RunIds \cup {""}]
  BY ServiceAssumption DEF Init
<1>2. ServiceState = [r \in Requests |-> "new"]
  <2>1. pc = [r \in Requests |-> "idle"]
    BY DEF Init
  <2>2. QED
    BY <2>1 DEF ServiceState, Over
<1>3. QED
  BY <1>1, <1>2 DEF Init, Service!Init, Service!Inline

\* A request opens its run and puts what was open of it on the way out.
LEMMA SubmitServes ==
    ASSUME RegistryOfRuns, RegistryOfRuns', NEW r \in Requests, Submit(r)
    PROVE  Service!Submit(r)
<1>1. /\ pc[r] = "idle" /\ pc' = [pc EXCEPT ![r] = "queued"]
      /\ UNCHANGED <<conf, reply, told>>
  BY DEF Submit, Goto
<1>2. ServiceTypeOK /\ ServiceTypeOK'
  BY DEF RegistryOfRuns
<1>3. ServiceState[r] = "new" /\ ServiceState'[r] = "open"
  <2>1. pc'[r] = "queued" /\ Live(r)'
    BY <1>1, <1>2 DEF ServiceTypeOK, Live, Over
  <2>2. ~stop[r] /\ ~Live(r)
    BY <1>1 DEF RegistryOfRuns, RunningIsNamed, Live
  <2>3. ~stop'[r]
    BY <2>2 DEF Submit
  <2>4. QED
    BY <1>1, <1>2, <2>1, <2>3, StateOf, StateOfNext
<1>4. ASSUME NEW q \in Requests, q # r
      PROVE  ServiceState'[q] = IF q \in Service!Open(conf.runOf[r]) THEN "stopping"
                                ELSE ServiceState[q]
  <2>1. pc'[q] = pc[q] /\ (Live(q)' <=> Live(q))
    BY <1>1, <1>2, <1>4 DEF ServiceTypeOK, Live
  <2>2. CASE q \in Service!Open(conf.runOf[r])
    <3>1. /\ conf.runOf[q] = conf.runOf[r] /\ conf.runOf[r] # ""
          /\ Live(q) /\ ~stop[q]
      BY <1>2, <2>2, StateOf DEF Service!Open, Service!Inline
    <3>2. running[conf.runOf[r]] = <<q>>
      BY <3>1 DEF RegistryOfRuns, RunningIsNamed
    <3>3. stop'[q]
      BY <3>1, <3>2 DEF Submit
    <3>4. QED
      BY <1>2, <2>1, <2>2, <3>1, <3>3, StateOfNext
  <2>3. CASE q \notin Service!Open(conf.runOf[r])
    <3>1. ~Live(q) \/ (stop'[q] <=> stop[q])
      <4>1. CASE Live(q) /\ ~stop[q]
        <5>1. conf.runOf[r] = "" \/ conf.runOf[q] # conf.runOf[r]
          BY <1>2, <2>3, <4>1, StateOf DEF Service!Open, Service!Inline
        <5>2. conf.runOf[r] # "" => running[conf.runOf[r]] # <<q>>
          BY <5>1, <1>2, ConfFacts DEF RegistryOfRuns, RunningIsNamed, ServiceTypeOK
        <5>3. QED
          BY <5>2, <4>1 DEF Submit
      <4>2. CASE stop[q]
        BY <4>2 DEF Submit
      <4>3. QED
        BY <4>1, <4>2
    <3>2. CASE Live(q)
      BY <1>2, <2>1, <2>3, <3>1, <3>2, StateOf, StateOfNext
    <3>3. CASE ~Live(q)
      BY <1>2, <2>1, <2>3, <3>3, StateOf, StateOfNext DEF Live
    <3>4. QED
      BY <3>2, <3>3
  <2>4. QED
    BY <2>2, <2>3
<1>5. QED
  BY <1>1, <1>3, <1>4, StatesOnly DEF Service!Submit

\* A cancel stops what is open, and says "cancelling" of a live request only.
LEMMA CancelServes ==
    ASSUME RegistryOfRuns, RegistryOfRuns', NEW run \in RunIds, Cancel(run)
    PROVE  Service!Stop(run)
<1>1. ServiceTypeOK /\ ServiceTypeOK' /\ UNCHANGED <<conf, pc, reply, running>>
  BY DEF Cancel, RegistryOfRuns
<1>2. ASSUME NEW q \in Service!Open(run)
      PROVE  Live(q) /\ ~stop[q] /\ running[run] = <<q>>
  BY <1>1, StateOf DEF Service!Open, Service!Inline, RegistryOfRuns, RunningIsNamed
<1>3. ASSUME NEW q \in Requests, running[run] = <<q>>, Live(q), ~stop[q], run # ""
      PROVE  q \in Service!Open(run)
  BY <1>1, <1>3, StateOf DEF Service!Open, Service!Inline, RegistryOfRuns, RunningIsNamed
<1>4. CASE \E r \in Requests : running[run] = <<r>> /\ Live(r)
  <2>1. PICK r \in Requests : running[run] = <<r>> /\ Live(r)
    BY <1>4
  <2>2. /\ stop' = [q \in Requests |-> stop[q] \/ running[run] = <<q>>]
        /\ told' = [told EXCEPT ![run] = "cancelling"]
    BY <1>4 DEF Cancel
  <2>3. conf.runOf[r] = run /\ ServiceState[r] \in {"open", "stopping"}
    BY <1>1, <2>1, StateOf DEF RegistryOfRuns, RunningIsNamed
  <2>4. ASSUME NEW q \in Requests
        PROVE  ServiceState'[q] = IF q \in Service!Open(run) THEN "stopping" ELSE ServiceState[q]
    <3>1. Live(q)' <=> Live(q)
      BY <1>1 DEF Live
    <3>2. CASE q \in Service!Open(run)
      <4>1. Live(q) /\ running[run] = <<q>>
        BY <1>2, <3>2
      <4>2. stop'[q]
        BY <2>2, <4>1, Zenon
      <4>3. QED
        BY <1>1, <3>1, <3>2, <4>1, <4>2, StateOfNext
    <3>3. CASE q \notin Service!Open(run)
      <4>1. running[run] = <<q>> /\ Live(q) => stop[q]
        BY <1>3, <3>3, ServiceAssumption
      <4>2. Live(q) => (stop'[q] <=> stop[q])
        BY <2>2, <4>1, Zenon
      <4>3. CASE Live(q)
        BY <1>1, <3>1, <3>3, <4>2, <4>3, StateOf, StateOfNext
      <4>4. CASE ~Live(q)
        BY <1>1, <3>3, <4>4, StateOf, StateOfNext DEF Live
      <4>5. QED
        BY <4>3, <4>4
    <3>4. QED
      BY <3>2, <3>3
  <2>5. QED
    BY <1>1, <2>2, <2>3, <2>4, StatesOnly DEF Service!Stop
<1>5. CASE ~\E r \in Requests : running[run] = <<r>> /\ Live(r)
  <2>1. stop' = stop /\ told' = [told EXCEPT ![run] = "not_running"]
    BY <1>5 DEF Cancel
  <2>2. Service!Open(run) = {}
    BY <1>2, <1>5 DEF Service!Open
  <2>3. ServiceState' = ServiceState
    BY <1>1, <2>1 DEF ServiceState
  <2>4. QED
    BY <1>1, <2>1, <2>2, <2>3, StatesOnly DEF Service!Stop
<1>6. QED
  BY <1>4, <1>5

\* The end of a task answers its request, and only that one.
LEMMA EndServes ==
    ASSUME RegistryOfRuns, RegistryOfRuns', NEW r \in Requests, Ends(r)
    PROVE  Service!Reply(r)
<1>1. /\ ServiceTypeOK /\ ServiceTypeOK' /\ UNCHANGED <<conf, stop, told>>
      /\ Live(r) /\ pc' = [pc EXCEPT ![r] = "done"]
  BY DEF Ends, Goto, RegistryOfRuns
<1>2. ServiceState'[r] = "answered"
  BY <1>1, StateOfNext DEF ServiceTypeOK, Over
<1>3. ASSUME NEW q \in Requests, q # r PROVE ServiceState'[q] = ServiceState[q]
  BY <1>1, <1>3 DEF ServiceTypeOK, ServiceState
<1>4. ServiceState' = [ServiceState EXCEPT ![r] = "answered"]
  BY <1>2, <1>3, StatesOnly
<1>5. CASE stop[r]
  BY <1>1, <1>4, <1>5, StateOf DEF Ends, Service!Reply
<1>6. CASE ~stop[r]
  <2>1. ServiceState[r] = "open"
    BY <1>1, <1>6, StateOf
  <2>2. \E what \in {"rca", "expired", "error"} : reply' = [reply EXCEPT ![r] = what]
    BY <1>6 DEF Ends
  <2>3. QED
    BY <1>1, <1>4, <2>1, <2>2 DEF Service!Reply
<1>7. QED
  BY <1>5, <1>6

\* An analysis at work, and a handler that resumes after its task, show nothing.
LEMMA StutterServes ==
    ASSUME RegistryOfRuns, RegistryOfRuns', NEW r \in Requests, Moves(r) \/ Answer(r)
    PROVE  UNCHANGED Service!vars
<1>1. ServiceTypeOK /\ ServiceTypeOK' /\ UNCHANGED <<conf, stop, reply, told>>
  BY DEF Moves, Answer, RegistryOfRuns
<1>2. PICK where \in Places : /\ pc' = [pc EXCEPT ![r] = where]
                              /\ where # "idle" /\ pc[r] # "idle"
                              /\ where \in Over <=> pc[r] \in Over
  BY DEF Moves, Answer, Goto, Live, Places, Over
<1>3. ASSUME NEW q \in Requests PROVE ServiceState'[q] = ServiceState[q]
  <2>1. CASE q = r
    BY <1>1, <1>2, <2>1 DEF ServiceTypeOK, ServiceState
  <2>2. CASE q # r
    BY <1>1, <1>2, <2>2 DEF ServiceTypeOK, ServiceState
  <2>3. QED
    BY <2>1, <2>2
<1>4. QED
  BY <1>1, <1>3, StatesOnly DEF Service!vars

\* The process implements the abstract service: whatever its engine, its models
\* and the analyses beside do, each request gets one answer, a newer request or a
\* cancel reaches the open one of its run, and what a cancel says is true.
THEOREM ImplementsHolds == Spec => Implements
<1>1. ASSUME RegistryOfRuns, RegistryOfRuns', [Next]_vars PROVE [Service!Next]_(Service!vars)
  <2>1. CASE UNCHANGED <<conf, runVars>>
    <3>1. UNCHANGED <<conf, reply, told>> /\ ServiceState' = ServiceState
      BY <2>1 DEF runVars, ServiceState
    <3>2. QED
      BY <3>1 DEF Service!vars
  <2>2. CASE UNCHANGED vars
    BY <2>1, <2>2 DEF vars
  <2>3. CASE Next
    BY <1>1, <2>1, <2>3, StepKinds, SubmitServes, CancelServes, EndServes, StutterServes
       DEF Service!Next, RegistryOfRuns
  <2>4. QED
    BY <1>1, <2>2, <2>3
<1>2. QED
  BY <1>1, ServiceInit, RegistryOfRunsInit, RegistryOfRunsStep, PTL
     DEF Spec, Implements, Service!Spec

-----------------------------------------------------------------------------
(* The frames of the analyses *)

IsFrame(f) ==
    /\ f = [list |-> f.list, cites |-> f.cites, meant |-> f.meant, knows |-> f.knows,
            floor |-> f.floor, ended |-> f.ended, shared |-> f.shared]
    /\ f.list \in Seq(Cards)
    /\ f.knows \in Nat /\ f.floor \in Nat
    /\ f.ended \subseteq Requests

\* A frame at a place of the pipeline, with the knowledge synced so far: it is empty
\* before and after the direct pipeline, cites once it is ranked, and was ranked on
\* knowledge at least as new as what had been synced when it began.
FrameAt(f, p, known) ==
    /\ IsFrame(f)
    /\ p \in Early \cup Over => f.list = <<>> /\ f.ended = {}
    /\ p \in {"rank", "follow"} => f.list # <<>>
    /\ p \notin Ranked => f.cites = 0
    /\ f.floor <= known
    /\ p \in Ranked => f.floor <= f.knows

\* Whoever had ended when the analysis began is over, and has left nothing that the
\* frame holds or could still find in the cache.
InTime(f, places, cached) ==
    /\ \A q \in f.ended : places[q] \in Over
    /\ \A t \in Targets : cached[t] # None => cached[t][1] \notin f.ended
    /\ \A i \in DOMAIN f.list : IsChange(f.list[i]) => f.list[i][1] \notin f.ended

FramesOK ==
    /\ cache \in [Targets -> Cards \cup {None}]
    /\ frame = [r \in Requests |-> frame[r]]
    /\ \A r \in Requests : FrameAt(frame[r], pc[r], synced) /\ InTime(frame[r], pc, cache)
FrameInv == RegistryOfRuns /\ RegistryInv /\ FramesOK

\* No analysis has begun.
LEMMA FrameInvInit == Init => FrameInv
<1> SUFFICES ASSUME Init PROVE FrameInv
  OBVIOUS
<1>1. /\ pc = [r \in Requests |-> "idle"] /\ cache = [t \in Targets |-> None]
      /\ frame = [r \in Requests |-> NoFrame] /\ synced = 0
  BY DEF Init, RegistryInit
<1>2. IsFrame(NoFrame) /\ NoFrame.list = <<>> /\ NoFrame.ended = {}
      /\ NoFrame.cites = 0 /\ NoFrame.floor = 0 /\ DOMAIN NoFrame.list = {}
  BY DEF IsFrame, NoFrame
<1>3. FramesOK
  BY <1>1, <1>2 DEF FramesOK, FrameAt, InTime, Early, Over, Ranked
<1>4. QED
  BY <1>3, RegistryOfRunsInit, RegistryInvInit DEF FrameInv, Init

\* The order of revisions is kept by a step of the registry, and by all others,
\* which leave it alone.
LEMMA KnowledgeGrows ==
    ASSUME FrameInv, [Next]_vars
    PROVE  /\ RegistryInv' /\ synced' >= synced
           /\ synced = snap.rev /\ synced \in Nat /\ synced' \in Nat
<1>1. RegistryNext \/ UNCHANGED registryVars
  BY DEF Next, vars, Submit, Answer, TaskCancelled, TimeOut, Start, Lock, Load, EngineAnswers,
         EngineFails, Direct, PrePlan, PrePlanRead, Evidence, EvidenceRead, Rank, FollowUp,
         NoFollowUp, Synthesize, Report, PipelineFails, Cancel, Age, Sync
<1>2. RegistryInv' /\ snap'.rev >= snap.rev
  BY <1>1, RegistryInvStep DEF FrameInv
<1>3. synced = snap.rev /\ synced' = snap'.rev /\ synced \in Nat /\ synced' \in Nat
  BY <1>2, SomeRevision DEF FrameInv, RegistryInv, RegistryOrder, RegistryTypeOK
<1>4. QED
  BY <1>2, <1>3

Same(f, g) == /\ IsFrame(f) /\ f.list = g.list /\ f.cites = g.cites /\ f.knows = g.knows
              /\ f.floor = g.floor /\ f.ended = g.ended

\* It is enough to look at the frame of the analysis that steps: the others keep
\* theirs, and what it caches is its own, while it is not over.
LEMMA FrameStep ==
    ASSUME FrameInv, [Next]_vars, NEW r \in Requests, NEW p,
           pc' = [pc EXCEPT ![r] = p], pc[r] \in Over => p \in Over,
           frame' = [q \in Requests |-> frame'[q]],
           \A q \in Requests \ {r} : Same(frame'[q], frame[q]),
           cache' \in [Targets -> Cards \cup {None}],
           \A t \in Targets : cache'[t] # None =>
               cache'[t] = cache[t] \/ (cache'[t][1] = r /\ pc[r] \notin Over),
           FrameAt(frame'[r], p, synced'), InTime(frame'[r], pc, cache')
    PROVE  FramesOK'
<1>1. /\ synced' >= synced /\ synced \in Nat /\ synced' \in Nat
      /\ pc \in [Requests -> Places]
  BY KnowledgeGrows DEF FrameInv, RegistryOfRuns, ServiceTypeOK
<1>2. pc'[r] = p /\ \A q \in Requests : pc[q] \in Over => pc'[q] \in Over
  BY <1>1
<1>3. FrameAt(frame'[r], pc'[r], synced')
  BY <1>2
<1>4. InTime(frame'[r], pc', cache')
  <2>1. frame'[r].ended \subseteq Requests
    BY DEF FrameAt, IsFrame
  <2>2. QED
    BY <1>2, <2>1 DEF InTime
<1>5. ASSUME NEW q \in Requests \ {r}
      PROVE  FrameAt(frame'[q], pc'[q], synced') /\ InTime(frame'[q], pc', cache')
  <2>1. FrameAt(frame[q], pc[q], synced) /\ InTime(frame[q], pc, cache)
    BY DEF FrameInv, FramesOK
  <2>2. Same(frame'[q], frame[q]) /\ pc'[q] = pc[q]
    BY <1>1
  <2>3. FrameAt(frame'[q], pc'[q], synced')
    BY <1>1, <2>1, <2>2 DEF FrameAt, Same, IsFrame
  <2>4. ASSUME NEW t \in Targets, cache'[t] # None PROVE cache'[t][1] \notin frame[q].ended
    <3>1. CASE cache'[t] = cache[t]
      BY <2>1, <2>4, <3>1 DEF InTime
    <3>2. CASE cache'[t][1] = r /\ pc[r] \notin Over
      BY <2>1, <3>2 DEF InTime
    <3>3. QED
      BY <2>4, <3>1, <3>2
  <2>5. \A x \in frame[q].ended : pc'[x] \in Over
    BY <1>2, <2>1 DEF InTime, FrameAt, IsFrame
  <2>6. InTime(frame'[q], pc', cache')
    BY <2>1, <2>2, <2>4, <2>5 DEF InTime, Same
  <2>7. QED
    BY <2>3, <2>6
<1>6. QED
  BY <1>3, <1>4, <1>5 DEF FramesOK

\* What an analysis that is somewhere has.
LEMMA FrameFacts ==
    ASSUME FrameInv, NEW r \in Requests
    PROVE  /\ FrameAt(frame[r], pc[r], synced) /\ InTime(frame[r], pc, cache)
           /\ IsFrame(frame[r]) /\ Same(frame[r], frame[r])
           /\ frame = [q \in Requests |-> frame[q]]
           /\ cache \in [Targets -> Cards \cup {None}]
           /\ pc \in [Requests -> Places] /\ conf \in Confs
           /\ conf.target[r] \in Targets
BY ConfFacts DEF FrameInv, FramesOK, FrameAt, Same, RegistryOfRuns, ServiceTypeOK

\* A step that leaves frames and cache alone and the analysis in its phase.
LEMMA FramesKept ==
    ASSUME FrameInv, [Next]_vars, NEW r \in Requests, NEW p,
           pc' = [pc EXCEPT ![r] = p], UNCHANGED <<frame, cache>>,
           pc[r] \in Over => p \in Over,
           p \in Early \cup Over => pc[r] \in Early \cup Over,
           p \in {"rank", "follow"} => pc[r] \in {"rank", "follow"},
           p \in Ranked <=> pc[r] \in Ranked
    PROVE  FramesOK'
<1>1. FrameAt(frame'[r], p, synced')
  BY FrameFacts, KnowledgeGrows DEF FrameAt, IsFrame
<1>2. \A q \in Requests \ {r} : Same(frame'[q], frame[q])
  BY FrameFacts
<1>3. QED
  BY <1>1, <1>2, FrameFacts, FrameStep

\* A task that ends leaves an empty frame.
LEMMA FrameEnds ==
    ASSUME FrameInv, [Next]_vars, NEW r \in Requests, NEW what, Finish(r, what),
           UNCHANGED cache
    PROVE  FramesOK'
<1>1. /\ pc' = [pc EXCEPT ![r] = "done"] /\ frame' = [frame EXCEPT ![r] = NoFrame]
  BY DEF Finish, Goto
<1>2. IsFrame(NoFrame) /\ NoFrame.list = <<>> /\ NoFrame.ended = {}
      /\ NoFrame.cites = 0 /\ NoFrame.floor = 0 /\ DOMAIN NoFrame.list = {}
  BY DEF IsFrame, NoFrame
<1>3. frame'[r] = NoFrame /\ \A q \in Requests \ {r} : Same(frame'[q], frame[q])
  BY <1>1, FrameFacts
<1>4. FrameAt(frame'[r], "done", synced') /\ InTime(frame'[r], pc, cache')
  BY <1>2, <1>3, KnowledgeGrows DEF FrameAt, InTime, Ranked
<1>5. frame' = [q \in Requests |-> frame'[q]]
  BY <1>1, FrameFacts
<1>6. QED
  BY <1>1, <1>3, <1>4, <1>5, FrameFacts, FrameStep DEF Over

\* An analysis that begins clears the cache, so nothing of those who ended is left.
LEMMA FrameBegins ==
    ASSUME FrameInv, [Next]_vars, NEW r \in Requests, Afresh(r),
           pc[r] \in {"queued", "load", "engine"}
    PROVE  FramesOK'
<1>1. PICK p \in {"preplan", "plan"} : pc' = [pc EXCEPT ![r] = p]
  BY DEF Afresh, Goto
<1>2. /\ cache' = [t \in Targets |-> None]
      /\ frame' = [frame EXCEPT ![r].ended = {q \in Requests : pc[q] \in Over},
                                ![r].floor = synced]
  BY DEF Afresh
<1>3. frame[r].list = <<>> /\ frame[r].cites = 0
  BY FrameFacts DEF FrameAt, Early, Ranked
<1>4. /\ IsFrame(frame'[r]) /\ frame'[r].list = frame[r].list /\ frame'[r].cites = 0
      /\ frame'[r].floor = synced /\ frame'[r].ended = {q \in Requests : pc[q] \in Over}
  <2> DEFINE over == {q \in Requests : pc[q] \in Over}
             f == frame[r]
  <2>1. frame'[r] = [f EXCEPT !.ended = over, !.floor = synced]
    BY <1>2, FrameFacts
  <2>2. f = [list |-> f.list, cites |-> f.cites, meant |-> f.meant, knows |-> f.knows,
             floor |-> f.floor, ended |-> f.ended, shared |-> f.shared]
    BY FrameFacts DEF IsFrame
  <2> HIDE DEF over, f
  <2>3. frame'[r] = [list |-> f.list, cites |-> f.cites, meant |-> f.meant, knows |-> f.knows,
                     floor |-> synced, ended |-> over, shared |-> f.shared]
    BY <2>1, <2>2
  <2>4. IsFrame(f) /\ f.list = <<>> /\ f.cites = 0 /\ over \subseteq Requests /\ synced \in Nat
    BY <1>3, FrameFacts, KnowledgeGrows DEF f, over
  <2>5. /\ frame'[r].list = f.list /\ frame'[r].cites = f.cites /\ frame'[r].floor = synced
        /\ frame'[r].ended = over /\ frame'[r].knows = f.knows
        /\ frame'[r].meant = f.meant /\ frame'[r].shared = f.shared
    BY <2>3
  <2>6. IsFrame(frame'[r])
    BY <2>3, <2>4, <2>5 DEF IsFrame
  <2>7. QED
    BY <2>4, <2>5, <2>6 DEF f, over
<1>5. \A q \in Requests \ {r} : Same(frame'[q], frame[q])
  BY <1>2, FrameFacts
<1>6. FrameAt(frame'[r], p, synced')
  BY <1>4, KnowledgeGrows DEF FrameAt, Early, Over, Ranked
<1>7. InTime(frame'[r], pc, cache')
  <2>1. DOMAIN frame'[r].list = {}
    BY <1>3, <1>4
  <2>2. QED
    BY <1>2, <1>4, <2>1 DEF InTime
<1>8. frame' = [q \in Requests |-> frame'[q]]
  BY <1>2, FrameFacts
<1>9. cache' \in [Targets -> Cards \cup {None}] /\ pc[r] \notin Over
  BY <1>2 DEF Over
<1>10. QED
  BY <1>1, <1>2, <1>5, <1>6, <1>7, <1>8, <1>9, FrameStep

\* Steps of no analysis: the cache may age and the registry may learn something.
LEMMA FramesRest ==
    ASSUME FrameInv, [Next]_vars, UNCHANGED <<pc, frame>>,
           cache' \in [Targets -> Cards \cup {None}],
           \A t \in Targets : cache'[t] \in {cache[t], None}
    PROVE  FramesOK'
<1>1. ASSUME NEW r \in Requests
      PROVE  FrameAt(frame'[r], pc'[r], synced') /\ InTime(frame'[r], pc', cache')
  <2>1. FrameAt(frame[r], pc[r], synced) /\ InTime(frame[r], pc, cache)
    BY DEF FrameInv, FramesOK
  <2>2. FrameAt(frame'[r], pc'[r], synced')
    BY <2>1, KnowledgeGrows DEF FrameAt, IsFrame
  <2>3. QED
    BY <2>1, <2>2 DEF InTime
<1>2. QED
  BY <1>1 DEF FrameInv, FramesOK

\* A frame with a new list, citation, knowledge or mark of sharing is a frame.
Updates(f, s, c, m, k, sh) ==
    [list |-> s, cites |-> c, meant |-> m, knows |-> k, floor |-> f.floor,
     ended |-> f.ended, shared |-> sh]
LEMMA FrameUpdate ==
    ASSUME NEW f, IsFrame(f), NEW s \in Seq(Cards), NEW c, NEW m, NEW k \in Nat, NEW sh
    PROVE  /\ IsFrame(Updates(f, s, c, m, k, sh))
           /\ Updates(f, s, c, m, k, sh).list = s
           /\ Updates(f, s, c, m, k, sh).cites = c
           /\ Updates(f, s, c, m, k, sh).knows = k
           /\ Updates(f, s, c, m, k, sh).floor = f.floor
           /\ Updates(f, s, c, m, k, sh).ended = f.ended
<1>1. f.floor \in Nat /\ f.ended \subseteq Requests
  BY DEF IsFrame
<1>2. IsFrame(Updates(f, s, c, m, k, sh))
  BY <1>1 DEF IsFrame, Updates
<1>3. QED
  BY <1>2 DEF Updates

\* What the pipeline's assignments to a frame make of it.
LEMMA FrameAssign ==
    ASSUME NEW f, IsFrame(f), NEW s, NEW c, NEW sh
    PROVE  /\ [f EXCEPT !.list = s] = Updates(f, s, f.cites, f.meant, f.knows, f.shared)
           /\ [f EXCEPT !.list = s, !.cites = c] = Updates(f, s, c, f.meant, f.knows, f.shared)
           /\ [f EXCEPT !.shared = sh] = Updates(f, f.list, f.cites, f.meant, f.knows, sh)
<1> DEFINE lst == f.list  cit == f.cites  mea == f.meant  kno == f.knows
           flo == f.floor  end == f.ended  sha == f.shared
           With(l, x, y, z, w) == [list |-> l, cites |-> x, meant |-> y, knows |-> z,
                                   floor |-> flo, ended |-> end, shared |-> w]
<1>1. f = With(lst, cit, mea, kno, sha)
  BY DEF IsFrame
<1>2. \A l, x, y, z, w : Updates(f, l, x, y, z, w) = With(l, x, y, z, w)
  BY DEF Updates
<1> HIDE DEF lst, cit, mea, kno, flo, end, sha
<1>3. [f EXCEPT !.list = s] = With(s, cit, mea, kno, sha)
  BY <1>1
<1>4. [f EXCEPT !.list = s, !.cites = c] = With(s, c, mea, kno, sha)
  <2>1. [With(s, cit, mea, kno, sha) EXCEPT !.cites = c] = With(s, c, mea, kno, sha)
    OBVIOUS
  <2>2. QED
    BY <1>3, <2>1
<1>5. [f EXCEPT !.shared = sh] = With(lst, cit, mea, kno, sh)
  BY <1>1
<1>6. QED
  BY <1>2, <1>3, <1>4, <1>5 DEF lst, cit, mea, kno, sha

LEMMA UpdatedFields ==
    ASSUME NEW f, NEW s, NEW c, NEW m, NEW k, NEW sh
    PROVE  /\ Updates(f, s, c, m, k, sh).list = s /\ Updates(f, s, c, m, k, sh).cites = c
           /\ Updates(f, s, c, m, k, sh).meant = m /\ Updates(f, s, c, m, k, sh).shared = sh
BY DEF Updates

\* What an analysis stores is its own card, and it has not ended.
LEMMA Stored ==
    ASSUME FrameInv, NEW r \in Requests, pc[r] \notin Over,
           NEW kind \in {"change1", "change2"}, Store(r, <<r, kind>>)
    PROVE  /\ cache' \in [Targets -> Cards \cup {None}]
           /\ \A t \in Targets : cache'[t] # None =>
                  cache'[t] = cache[t] \/ (cache'[t][1] = r /\ pc[r] \notin Over)
           /\ \A t \in Targets : cache'[t] # None => cache'[t][1] \notin frame[r].ended
<1>1. <<r, kind>> \in Cards /\ <<r, kind>>[1] = r
  BY DEF Cards
<1>2. cache' \in [Targets -> Cards \cup {None}]
  BY <1>1, FrameFacts DEF Store
<1>3. \A t \in Targets : cache'[t] = cache[t] \/ cache'[t] = <<r, kind>>
  BY FrameFacts DEF Store
<1>4. r \notin frame[r].ended /\ InTime(frame[r], pc, cache)
  BY FrameFacts DEF InTime
<1>5. QED
  BY <1>1, <1>2, <1>3, <1>4 DEF InTime

\* A frame that took new cards, which are of its time, and was ranked on knowledge of
\* its time or cites as before.
LEMMA FrameListed ==
    ASSUME FrameInv, [Next]_vars, NEW r \in Requests, NEW p,
           pc[r] \notin Early \cup Over, p \in {"rank"} \cup Ranked,
           pc' = [pc EXCEPT ![r] = p],
           frame' = [q \in Requests |-> frame'[q]],
           \A q \in Requests \ {r} : frame'[q] = frame[q] \/ Same(frame'[q], frame[q]),
           IsFrame(frame'[r]),
           frame'[r].floor = frame[r].floor, frame'[r].ended = frame[r].ended,
           frame'[r].list # <<>> \/ p \in {"synth", "publish"},
           p = "rank" => frame'[r].cites = frame[r].cites /\ pc[r] \notin Ranked,
           p \in Ranked => frame'[r].knows >= frame[r].floor,
           \A i \in DOMAIN frame'[r].list :
               IsChange(frame'[r].list[i]) => frame'[r].list[i][1] \notin frame[r].ended,
           cache' \in [Targets -> Cards \cup {None}],
           \A t \in Targets : cache'[t] # None =>
               cache'[t] = cache[t] \/ (cache'[t][1] = r /\ pc[r] \notin Over),
           \A t \in Targets : cache'[t] # None => cache'[t][1] \notin frame[r].ended
    PROVE  FramesOK'
<1> DEFINE f == frame[r]
           g == frame'[r]
<1>1. IsFrame(f) /\ FrameAt(f, pc[r], synced) /\ InTime(f, pc, cache)
  BY FrameFacts
<1>2. IsFrame(g) /\ g.floor = f.floor /\ g.ended = f.ended
  OBVIOUS
<1>3. f.floor <= synced' /\ f.floor \in Nat /\ g.knows \in Nat
  BY <1>1, <1>2, KnowledgeGrows DEF FrameAt, IsFrame
<1>4. p = "rank" => g.cites = 0
  BY <1>1 DEF FrameAt
<1>5. FrameAt(g, p, synced')
  <2>1. p \notin Early \cup Over
    BY DEF Early, Over, Ranked
  <2>2. p \in {"rank", "follow"} => g.list # <<>>
    OBVIOUS
  <2>3. p \in Ranked => g.floor <= g.knows
    BY <1>2, <1>3
  <2>4. p \notin Ranked => g.cites = 0
    BY <1>4
  <2>5. QED
    BY <1>2, <1>3, <2>1, <2>2, <2>3, <2>4 DEF FrameAt
<1>6. InTime(g, pc, cache')
  BY <1>1, <1>2 DEF InTime
<1>7. \A q \in Requests \ {r} : Same(frame'[q], frame[q])
  BY FrameFacts
<1>8. pc[r] \in Over => p \in Over
  OBVIOUS
<1>9. QED
  BY <1>5, <1>6, <1>7, <1>8, FrameStep

\* The cards of one analysis: its own observation, and one of its changes or one it
\* found in the cache.
LEMMA OwnAndChange ==
    ASSUME NEW r \in Requests, NEW c \in Cards
    PROVE  /\ <<<<r, "own">>>> \o <<c>> \in Seq(Cards) /\ <<<<r, "own">>>> \o <<c>> # <<>>
           /\ \A i \in DOMAIN (<<<<r, "own">>>> \o <<c>>) :
                  IsChange((<<<<r, "own">>>> \o <<c>>)[i]) => (<<<<r, "own">>>> \o <<c>>)[i] = c
<1> DEFINE own == <<r, "own">>
           s == <<own>> \o <<c>>
<1>1. own \in Cards /\ ~IsChange(own)
  BY DEF Cards, IsChange
<1> HIDE DEF own
<1>2. /\ <<own>> \in Seq(Cards) /\ Len(<<own>>) = 1 /\ <<own>>[1] = own
      /\ <<c>> \in Seq(Cards) /\ Len(<<c>>) = 1 /\ <<c>>[1] = c
  BY <1>1
<1>3. s \in Seq(Cards) /\ Len(s) = 2 /\ s[1] = own /\ s[2] = c
  <2>1. Len(s) = 1 + 1 /\ s \in Seq(Cards)
        /\ \A i \in 1..(1 + 1) : s[i] = IF i <= 1 THEN <<own>>[i] ELSE <<c>>[i - 1]
    BY <1>2, ConcatProperties
  <2>2. QED
    BY <1>2, <2>1
<1> HIDE DEF s
<1>4. DOMAIN s = {1, 2} /\ s # <<>>
  BY <1>3
<1>5. QED
  BY <1>1, <1>3, <1>4 DEF s, own

\* The cards of a follow-up: the observation twice, and the cards that came after it.
LEMMA AgainAndRest ==
    ASSUME NEW r \in Requests, NEW l \in Seq(Cards), l # <<>>
    PROVE  LET s == <<<<r, "own">>, <<r, "again">>>> \o Tail(l)
           IN  /\ s \in Seq(Cards) /\ s # <<>>
               /\ \A i \in DOMAIN s : IsChange(s[i]) => \E j \in DOMAIN l : s[i] = l[j]
<1> DEFINE two == <<<<r, "own">>, <<r, "again">>>>
           s == two \o Tail(l)
<1>1. two \in Seq(Cards) /\ Len(two) = 2 /\ ~IsChange(two[1]) /\ ~IsChange(two[2])
  BY DEF Cards, IsChange
<1>2. Tail(l) \in Seq(Cards) /\ Len(Tail(l)) \in Nat
      /\ \A i \in 1..Len(Tail(l)) : Tail(l)[i] = l[i + 1] /\ i + 1 \in DOMAIN l
  <2>1. Len(l) \in Nat /\ DOMAIN l = 1..Len(l)
    BY LenProperties
  <2>2. QED
    BY <2>1, HeadTailProperties
<1> HIDE DEF two
<1>3. s \in Seq(Cards) /\ Len(s) = 2 + Len(Tail(l))
      /\ \A i \in 1..(2 + Len(Tail(l))) : s[i] = IF i <= 2 THEN two[i] ELSE Tail(l)[i - 2]
  <2>1. /\ two \o Tail(l) \in Seq(Cards) /\ Len(two \o Tail(l)) = Len(two) + Len(Tail(l))
        /\ \A i \in 1..(Len(two) + Len(Tail(l))) :
             (two \o Tail(l))[i] = IF i <= Len(two) THEN two[i] ELSE Tail(l)[i - Len(two)]
    BY <1>1, <1>2, ConcatProperties
  <2>2. QED
    BY <1>1, <2>1
<1> HIDE DEF s
<1>4. ASSUME NEW i \in DOMAIN s, IsChange(s[i]) PROVE \E j \in DOMAIN l : s[i] = l[j]
  <2>1. i \in 1..(2 + Len(Tail(l)))
    BY <1>3
  <2>2. ~(i <= 2)
    BY <1>1, <1>2, <1>3, <1>4, <2>1
  <2>3. i - 2 \in 1..Len(Tail(l)) /\ s[i] = Tail(l)[i - 2]
    BY <1>2, <1>3, <2>1, <2>2
  <2>4. QED
    BY <1>2, <2>3
<1>5. s # <<>>
  BY <1>2, <1>3
<1>6. QED
  BY <1>3, <1>4, <1>5 DEF s, two

\* The first change read: the frame is as it was, the card read may be cached.
LEMMA PrePlanReadKeeps ==
    ASSUME FrameInv, [Next]_vars, NEW r \in Requests, PrePlanRead(r) PROVE FramesOK'
<1>1. /\ pc[r] = "preplanRead" /\ pc' = [pc EXCEPT ![r] = "plan"] /\ frame' = frame
      /\ Store(r, <<r, "change1">>)
  BY DEF PrePlanRead, At, Goto
<1>2. pc[r] \notin Over
  BY <1>1 DEF Over
<1>3. FrameAt(frame'[r], "plan", synced')
  <2>1. FrameAt(frame[r], "preplanRead", synced) /\ IsFrame(frame[r])
    BY <1>1, FrameFacts
  <2>2. QED
    BY <1>1, <2>1, KnowledgeGrows DEF FrameAt, IsFrame, Early, Over, Ranked
<1>4. InTime(frame'[r], pc, cache')
  BY <1>1, <1>2, Stored, FrameFacts DEF InTime
<1>5. \A q \in Requests \ {r} : Same(frame'[q], frame[q])
  BY <1>1, FrameFacts
<1>6. QED
  BY <1>1, <1>2, <1>3, <1>4, <1>5, FrameFacts, Stored, FrameStep

\* The second change read: its card is the analysis' own.
LEMMA EvidenceReadKeeps ==
    ASSUME FrameInv, [Next]_vars, NEW r \in Requests, EvidenceRead(r) PROVE FramesOK'
<1> DEFINE c == <<r, "change2">>
           s == <<<<r, "own">>>> \o <<c>>
           f == frame[r]
<1>1. /\ pc[r] = "evidenceRead" /\ pc' = [pc EXCEPT ![r] = "rank"] /\ Store(r, c)
      /\ frame' = [frame EXCEPT ![r].list = s]
  BY DEF EvidenceRead, At, Goto, Board
<1>2. c \in Cards /\ c[1] = r /\ pc[r] \notin Over /\ pc[r] \in Middle
  BY <1>1 DEF Cards, Over, Middle
<1>3. frame'[r] = [f EXCEPT !.list = s] /\ \A q \in Requests \ {r} : frame'[q] = frame[q]
  BY <1>1, FrameFacts
<1>4. frame'[r] = Updates(f, s, f.cites, f.meant, f.knows, f.shared)
  BY <1>3, FrameFacts, FrameAssign
<1>5. s \in Seq(Cards) /\ s # <<>>
      /\ \A i \in DOMAIN s : IsChange(s[i]) => s[i][1] \notin f.ended
  <2>1. r \notin f.ended
    BY <1>2, FrameFacts DEF InTime
  <2>2. QED
    BY <1>2, <2>1, OwnAndChange
<1>6. frame' = [q \in Requests |-> frame'[q]]
  BY <1>1, FrameFacts
<1> HIDE DEF s, c
<1>7. IsFrame(frame'[r]) /\ frame'[r].list = s /\ frame'[r].cites = f.cites
      /\ frame'[r].floor = f.floor /\ frame'[r].ended = f.ended
  <2>1. IsFrame(f) /\ f.knows \in Nat
    BY FrameFacts DEF IsFrame
  <2>2. QED
    BY <1>4, <1>5, <2>1, FrameUpdate
<1>8. /\ cache' \in [Targets -> Cards \cup {None}]
      /\ \A t \in Targets : cache'[t] # None =>
             cache'[t] = cache[t] \/ (cache'[t][1] = r /\ pc[r] \notin Over)
      /\ \A t \in Targets : cache'[t] # None => cache'[t][1] \notin f.ended
  BY <1>1, <1>2, Stored DEF c
<1>9. pc[r] \notin Early \cup Over \cup Ranked /\ "rank" \notin Ranked
  BY <1>1 DEF Early, Over, Ranked
<1>10. QED
  BY <1>1, <1>3, <1>5, <1>6, <1>7, <1>8, <1>9, FrameListed

\* The evidence stage: without changes, with the cached card, or on to another read.
LEMMA EvidenceKeeps ==
    ASSUME FrameInv, [Next]_vars, NEW r \in Requests, Evidence(r) PROVE FramesOK'
<1> DEFINE f == frame[r]
           own == <<r, "own">>
<1>1. pc[r] = "plan" /\ cache' = cache
  BY DEF Evidence, At
<1>2. /\ pc[r] \notin Early \cup Over \cup Ranked /\ "rank" \notin Ranked
      /\ IsFrame(f) /\ f.knows \in Nat
  BY <1>1, FrameFacts DEF Early, Over, Ranked, IsFrame
<1>3. /\ cache' \in [Targets -> Cards \cup {None}]
      /\ \A t \in Targets : cache'[t] # None =>
             cache'[t] = cache[t] \/ (cache'[t][1] = r /\ pc[r] \notin Over)
      /\ \A t \in Targets : cache'[t] # None => cache'[t][1] \notin f.ended
  BY <1>1, FrameFacts DEF InTime
<1>4. CASE pc' = [pc EXCEPT ![r] = "rank"] /\ frame' = Board(r, <<>>)
  <2> DEFINE s == <<own>> \o <<>>
  <2>1. s \in Seq(Cards) /\ s # <<>> /\ \A i \in DOMAIN s : ~IsChange(s[i])
    <3>1. own \in Cards /\ ~IsChange(own)
      BY DEF Cards, IsChange
    <3> HIDE DEF own
    <3>2. <<own>> \in Seq(Cards)
      BY <3>1
    <3>3. s = <<own>>
      BY <3>2, ConcatEmptySeq
    <3>4. QED
      BY <3>1, <3>2, <3>3
  <2>2. frame' = [frame EXCEPT ![r].list = s]
    BY <1>4 DEF Board
  <2>3. frame'[r] = [f EXCEPT !.list = s] /\ \A q \in Requests \ {r} : frame'[q] = frame[q]
    BY <2>2, FrameFacts
  <2>4. frame' = [q \in Requests |-> frame'[q]]
    BY <2>2, FrameFacts
  <2> HIDE DEF s
  <2>5. frame'[r] = Updates(f, s, f.cites, f.meant, f.knows, f.shared)
    BY <2>3, FrameFacts, FrameAssign
  <2>6. IsFrame(frame'[r]) /\ frame'[r].list = s /\ frame'[r].cites = f.cites
        /\ frame'[r].floor = f.floor /\ frame'[r].ended = f.ended
    BY <1>2, <2>1, <2>5, FrameUpdate
  <2>7. QED
    BY <1>2, <1>3, <1>4, <2>1, <2>3, <2>4, <2>6, FrameListed
<1>5. CASE pc' = [pc EXCEPT ![r] = "rank"] /\ Entry(r) # None /\ frame' = Take(r, Entry(r))
  <2> DEFINE c == Entry(r)
             s == <<own>> \o <<c>>
             b == Board(r, <<c>>)
             parties == IF Holders(c) = {} THEN {} ELSE Holders(c) \cup {r}
  <2>1. c \in Cards /\ c[1] \notin f.ended
    BY <1>5, FrameFacts DEF Entry, InTime
  <2>2. s \in Seq(Cards) /\ s # <<>>
        /\ \A i \in DOMAIN s : IsChange(s[i]) => s[i][1] \notin f.ended
    BY <2>1, OwnAndChange
  <2>3. b = [frame EXCEPT ![r].list = s]
    BY DEF Board
  <2>4. b[r] = [f EXCEPT !.list = s] /\ \A q \in Requests \ {r} : b[q] = frame[q]
    BY <2>3, FrameFacts
  <2>5. frame' = [q \in Requests |-> [b[q] EXCEPT !.shared = b[q].shared \/ q \in parties]]
    BY <1>5 DEF Take
  <2> HIDE DEF s, b, parties, c
  <2>6. b[r] = Updates(f, s, f.cites, f.meant, f.knows, f.shared)
    BY <2>4, FrameFacts, FrameAssign
  <2>7. IsFrame(b[r]) /\ b[r].list = s /\ b[r].cites = f.cites
        /\ b[r].floor = f.floor /\ b[r].ended = f.ended /\ b[r].knows = f.knows
    BY <1>2, <2>2, <2>6, FrameUpdate
  <2>8. ASSUME NEW q \in Requests, IsFrame(b[q]) PROVE Same(frame'[q], b[q])
    <3> DEFINE sh == b[q].shared \/ q \in parties
    <3>1. frame'[q] = [b[q] EXCEPT !.shared = sh]
      BY <2>5
    <3> HIDE DEF sh
    <3>2. frame'[q] = Updates(b[q], b[q].list, b[q].cites, b[q].meant, b[q].knows, sh)
      BY <2>8, <3>1, FrameAssign
    <3>3. b[q].list \in Seq(Cards) /\ b[q].knows \in Nat
      BY <2>8 DEF IsFrame
    <3>4. QED
      BY <2>8, <3>2, <3>3, FrameUpdate DEF Same
  <2>9. \A q \in Requests \ {r} : Same(frame'[q], frame[q])
    BY <2>4, <2>8, FrameFacts
  <2>10. IsFrame(frame'[r]) /\ frame'[r].list = s /\ frame'[r].cites = f.cites
         /\ frame'[r].floor = f.floor /\ frame'[r].ended = f.ended
    BY <2>7, <2>8 DEF Same
  <2>11. frame' = [q \in Requests |-> frame'[q]]
    BY <2>5
  <2>12. QED
    BY <1>2, <1>3, <1>5, <2>2, <2>9, <2>10, <2>11, FrameListed
<1>6. CASE pc' = [pc EXCEPT ![r] = "evidenceRead"] /\ frame' = frame
  BY <1>1, <1>2, <1>6, FramesKept DEF Early, Over, Ranked
<1>7. QED
  BY <1>4, <1>5, <1>6 DEF Evidence, Goto

\* What a ranking assigns.
LEMMA RankedFrame ==
    ASSUME FrameInv, NEW r \in Requests, NEW s, NEW rev, NumberAndRank(r, s, rev)
    PROVE  /\ eid' = Numbered(s)
           /\ frame' = [q \in Requests |-> frame'[q]]
           /\ \A q \in Requests \ {r} : frame'[q] = frame[q]
           /\ \E i \in DOMAIN s :
                frame'[r] = Updates(frame[r], s, i, Observed(s[i]), rev, frame[r].shared)
<1> DEFINE f == frame[r]
<1>1. PICK i \in DOMAIN s :
        frame' = [frame EXCEPT ![r].list = s, ![r].cites = i, ![r].meant = Observed(s[i]), ![r].knows = rev]
  BY DEF NumberAndRank
<1> DEFINE m == Observed(s[i])
<1>2. eid' = Numbered(s) /\ m = Observed(s[i])
  BY DEF NumberAndRank
<1> HIDE DEF m
<1>3. frame' = [frame EXCEPT ![r] = [f EXCEPT !.list = s, !.cites = i, !.meant = m, !.knows = rev]]
  BY <1>1, <1>2, FrameFacts
<1>4. /\ frame'[r] = [f EXCEPT !.list = s, !.cites = i, !.meant = m, !.knows = rev]
      /\ \A q \in Requests \ {r} : frame'[q] = frame[q]
      /\ frame' = [q \in Requests |-> frame'[q]]
  BY <1>3, FrameFacts
<1>5. frame'[r] = Updates(f, s, i, m, rev, f.shared)
  <2> DEFINE lst == f.list  cit == f.cites  mea == f.meant  kno == f.knows
             flo == f.floor  end == f.ended  sha == f.shared
             With(l, x, y, z) == [list |-> l, cites |-> x, meant |-> y, knows |-> z,
                                  floor |-> flo, ended |-> end, shared |-> sha]
  <2>1. f = With(lst, cit, mea, kno)
    BY FrameFacts DEF IsFrame
  <2>2. Updates(f, s, i, m, rev, f.shared) = With(s, i, m, rev)
    BY DEF Updates
  <2> HIDE DEF lst, cit, mea, kno, flo, end, sha, f
  <2>3. [f EXCEPT !.list = s, !.cites = i] = With(s, i, mea, kno)
    <3>1. [f EXCEPT !.list = s] = With(s, cit, mea, kno)
      BY <2>1
    <3>2. [With(s, cit, mea, kno) EXCEPT !.cites = i] = With(s, i, mea, kno)
      OBVIOUS
    <3>3. QED
      BY <3>1, <3>2
  <2>4. [f EXCEPT !.list = s, !.cites = i, !.meant = m, !.knows = rev] = With(s, i, m, rev)
    <3>1. [With(s, i, mea, kno) EXCEPT !.meant = m] = With(s, i, m, kno)
      OBVIOUS
    <3>2. [With(s, i, m, kno) EXCEPT !.knows = rev] = With(s, i, m, rev)
      OBVIOUS
    <3>3. QED
      BY <2>3, <3>1, <3>2
  <2>5. QED
    BY <1>4, <2>2, <2>4
<1>6. QED
  BY <1>2, <1>4, <1>5

\* A ranking of cards of the frame's time, on knowledge of its time.
LEMMA RankingKeeps ==
    ASSUME FrameInv, [Next]_vars, NEW r \in Requests, pc[r] \in {"rank", "follow"},
           NEW s \in Seq(Cards), s # <<>>, NEW rev \in Nat, rev >= frame[r].floor,
           \A i \in DOMAIN s : IsChange(s[i]) => s[i][1] \notin frame[r].ended,
           NumberAndRank(r, s, rev),
           NEW p \in {"follow", "synth"}, pc' = [pc EXCEPT ![r] = p], UNCHANGED cache
    PROVE  FramesOK'
<1> DEFINE f == frame[r]
<1>1. PICK i \in DOMAIN s : frame'[r] = Updates(f, s, i, Observed(s[i]), rev, f.shared)
  BY RankedFrame
<1> DEFINE m == Observed(s[i])
<1>2. frame'[r] = Updates(f, s, i, m, rev, f.shared)
  BY <1>1
<1>3. \A q \in Requests \ {r} : frame'[q] = frame[q]
  BY RankedFrame
<1>4. frame' = [q \in Requests |-> frame'[q]]
  BY RankedFrame
<1> HIDE DEF m
<1>6. /\ IsFrame(frame'[r]) /\ frame'[r].list = s /\ frame'[r].knows = rev
      /\ frame'[r].floor = f.floor /\ frame'[r].ended = f.ended
  BY <1>2, FrameFacts, FrameUpdate
<1>7. /\ cache' \in [Targets -> Cards \cup {None}]
      /\ \A t \in Targets : cache'[t] # None =>
             cache'[t] = cache[t] \/ (cache'[t][1] = r /\ pc[r] \notin Over)
      /\ \A t \in Targets : cache'[t] # None => cache'[t][1] \notin f.ended
  BY FrameFacts DEF InTime
<1>8. pc[r] \notin Early \cup Over /\ p \in Ranked /\ p # "rank"
  BY DEF Early, Over, Ranked
<1>9. QED
  BY <1>3, <1>4, <1>6, <1>7, <1>8, FrameListed

\* The first ranking reads the registry as it is, which is what was last synced.
LEMMA RankKeeps ==
    ASSUME FrameInv, [Next]_vars, NEW r \in Requests, Rank(r) PROVE FramesOK'
<1>1. /\ pc[r] = "rank" /\ cache' = cache /\ NumberAndRank(r, frame[r].list, snap.rev)
  BY DEF Rank, At
<1>2. PICK p \in {"follow", "synth"} : pc' = [pc EXCEPT ![r] = p]
  BY DEF Rank, Goto
<1>3. /\ frame[r].list \in Seq(Cards) /\ frame[r].list # <<>> /\ frame[r].floor \in Nat
      /\ frame[r].floor <= synced /\ snap.rev = synced /\ synced \in Nat
      /\ \A i \in DOMAIN frame[r].list :
             IsChange(frame[r].list[i]) => frame[r].list[i][1] \notin frame[r].ended
  BY <1>1, FrameFacts, KnowledgeGrows DEF FrameAt, IsFrame, InTime
<1>4. QED
  BY <1>1, <1>2, <1>3, RankingKeeps

\* The second keeps the knowledge of the first.
LEMMA FollowUpKeeps ==
    ASSUME FrameInv, [Next]_vars, NEW r \in Requests, FollowUp(r) PROVE FramesOK'
<1> DEFINE l == frame[r].list
           s == <<<<r, "own">>, <<r, "again">>>> \o Tail(l)
<1>1. /\ pc[r] = "follow" /\ cache' = cache /\ NumberAndRank(r, s, frame[r].knows)
      /\ pc' = [pc EXCEPT ![r] = "synth"]
  BY DEF FollowUp, At, Goto
<1>2. /\ l \in Seq(Cards) /\ l # <<>> /\ frame[r].floor <= frame[r].knows
      /\ frame[r].floor \in Nat /\ frame[r].knows \in Nat
      /\ \A i \in DOMAIN l : IsChange(l[i]) => l[i][1] \notin frame[r].ended
  BY <1>1, FrameFacts DEF FrameAt, IsFrame, InTime, Ranked
<1>3. /\ s \in Seq(Cards) /\ s # <<>>
      /\ \A i \in DOMAIN s : IsChange(s[i]) => s[i][1] \notin frame[r].ended
  <2> HIDE DEF l
  <2>1. /\ s \in Seq(Cards) /\ s # <<>>
        /\ \A i \in DOMAIN s : IsChange(s[i]) => \E j \in DOMAIN l : s[i] = l[j]
    BY <1>2, AgainAndRest
  <2> HIDE DEF s
  <2>2. QED
    BY <1>2, <2>1
<1> HIDE DEF s
<1>4. QED
  BY <1>1, <1>2, <1>3, RankingKeeps

\* The synthesis drops a repeated observation and turns the citation over.
LEMMA SynthesizeKeeps ==
    ASSUME FrameInv, [Next]_vars, NEW r \in Requests, Synthesize(r) PROVE FramesOK'
<1> DEFINE f == frame[r]
           s == Latest(r, f.list)
           c == Remapped(f.cites, f.list, s)
<1>1. /\ pc[r] = "synth" /\ pc' = [pc EXCEPT ![r] = "publish"] /\ cache' = cache
      /\ frame' = Aggregated(r)
  BY DEF Synthesize, At, Goto
<1>2. /\ IsFrame(f) /\ f.list \in Seq(Cards) /\ f.floor <= f.knows
      /\ f.floor \in Nat /\ f.knows \in Nat
      /\ \A i \in DOMAIN f.list : IsChange(f.list[i]) => f.list[i][1] \notin f.ended
  BY <1>1, FrameFacts DEF FrameAt, IsFrame, InTime, Ranked
<1>3. /\ s \in Seq(Cards)
      /\ \A i \in DOMAIN s : IsChange(s[i]) => s[i][1] \notin f.ended
  <2>1. CASE Place(<<r, "again">>, f.list) = {}
    BY <1>2, <2>1 DEF Latest
  <2>2. CASE Place(<<r, "again">>, f.list) # {}
    <3>1. f.list # <<>>
      BY <2>2 DEF Place
    <3>2. s = Tail(f.list)
      BY <2>2 DEF Latest
    <3>3. /\ Tail(f.list) \in Seq(Cards)
          /\ \A i \in DOMAIN Tail(f.list) : Tail(f.list)[i] = f.list[i + 1]
                                            /\ i + 1 \in DOMAIN f.list
      <4>1. DOMAIN f.list = 1..Len(f.list) /\ Len(f.list) \in Nat
        BY <1>2, LenProperties
      <4>2. /\ Tail(f.list) \in Seq(Cards) /\ Len(Tail(f.list)) = Len(f.list) - 1
            /\ \A i \in 1..Len(Tail(f.list)) : Tail(f.list)[i] = f.list[i + 1]
        BY <1>2, <3>1, HeadTailProperties
      <4>3. DOMAIN Tail(f.list) = 1..Len(Tail(f.list))
        BY <4>2, LenProperties
      <4>4. QED
        BY <4>1, <4>2, <4>3
    <3>4. QED
      BY <1>2, <3>2, <3>3
  <2>3. QED
    BY <2>1, <2>2
<1>4. frame' = [frame EXCEPT ![r].list = s, ![r].cites = c]
  BY <1>1, FrameFacts DEF Aggregated
<1> HIDE DEF s, c
<1>5. frame' = [frame EXCEPT ![r] = [f EXCEPT !.list = s, !.cites = c]]
  BY <1>4, FrameFacts
<1>6. /\ frame'[r] = [f EXCEPT !.list = s, !.cites = c]
      /\ \A q \in Requests \ {r} : frame'[q] = frame[q]
      /\ frame' = [q \in Requests |-> frame'[q]]
  BY <1>5, FrameFacts
<1>7. frame'[r] = Updates(f, s, c, f.meant, f.knows, f.shared)
  BY <1>2, <1>6, FrameAssign
<1>8. /\ IsFrame(frame'[r]) /\ frame'[r].list = s /\ frame'[r].knows = f.knows
      /\ frame'[r].floor = f.floor /\ frame'[r].ended = f.ended
  BY <1>2, <1>3, <1>7, FrameUpdate
<1>9. /\ cache' \in [Targets -> Cards \cup {None}]
      /\ \A t \in Targets : cache'[t] # None =>
             cache'[t] = cache[t] \/ (cache'[t][1] = r /\ pc[r] \notin Over)
      /\ \A t \in Targets : cache'[t] # None => cache'[t][1] \notin f.ended
  BY <1>1, FrameFacts DEF InTime
<1>10. pc[r] \notin Early \cup Over /\ "publish" \in Ranked
  BY <1>1 DEF Early, Over, Ranked
<1>11. QED
  BY <1>1, <1>2, <1>3, <1>6, <1>8, <1>9, <1>10, FrameListed

\* Every step keeps the frames of their time.
LEMMA FrameInvStep == ASSUME FrameInv, [Next]_vars PROVE FrameInv'
<1>1. ASSUME NEW r \in Requests,
             Submit(r) \/ Answer(r) \/ Lock(r) \/ Load(r) \/ PrePlan(r) \/ NoFollowUp(r)
      PROVE  FramesOK'
  <2>1. CASE Submit(r)
    BY <2>1, FramesKept DEF Submit, Goto, Early, Over, Ranked
  <2>2. CASE Answer(r)
    BY <2>2, FramesKept DEF Answer, Goto, Early, Over, Ranked
  <2>3. CASE Lock(r)
    <3>1. PICK p \in {"engine", "load"} : pc' = [pc EXCEPT ![r] = p]
      BY <2>3 DEF Lock, Goto
    <3>2. QED
      BY <2>3, <3>1, FramesKept DEF Lock, At, Early, Over, Ranked
  <2>4. CASE Load(r)
    BY <2>4, FramesKept DEF Load, At, Goto, Early, Over, Ranked
  <2>5. CASE PrePlan(r)
    <3>1. PICK p \in {"plan", "preplanRead"} : pc' = [pc EXCEPT ![r] = p]
      BY <2>5 DEF PrePlan, Goto
    <3>2. QED
      BY <2>5, <3>1, FramesKept DEF PrePlan, At, Early, Over, Ranked
  <2>6. CASE NoFollowUp(r)
    BY <2>6, FramesKept DEF NoFollowUp, At, Goto, Early, Over, Ranked
  <2>7. QED
    BY <1>1, <2>1, <2>2, <2>3, <2>4, <2>5, <2>6
<1>2. ASSUME NEW r \in Requests, TaskCancelled(r) \/ TimeOut(r) \/ EngineAnswers(r)
                                 \/ Report(r) \/ PipelineFails(r)
      PROVE  FramesOK'
  <2>1. cache' = cache /\ \E what \in {"stopped", "expired", "rca", "error"} : Finish(r, what)
    BY <1>2 DEF TaskCancelled, TimeOut, EngineAnswers, Report, PipelineFails
  <2>2. QED
    BY <2>1, FrameEnds
<1>3. ASSUME NEW r \in Requests, Start(r) PROVE FramesOK'
  <2>1. CASE conf.engine
    <3>1. PICK p \in {"engine", "lock"} : pc' = [pc EXCEPT ![r] = p]
      BY <1>3, <2>1 DEF Start, Goto
    <3>2. QED
      BY <1>3, <2>1, <3>1, FramesKept DEF Start, At, Early, Over, Ranked
  <2>2. CASE ~conf.engine
    BY <1>3, <2>2, FrameBegins DEF Start, At
  <2>3. QED
    BY <2>1, <2>2
<1>4. ASSUME NEW r \in Requests, EngineFails(r) PROVE FramesOK'
  BY <1>4, FrameBegins DEF EngineFails, At
<1>5. ASSUME Sync \/ (\E run \in RunIds : Cancel(run)) \/ UNCHANGED vars PROVE FramesOK'
  <2>1. UNCHANGED <<pc, frame, cache>>
    BY <1>5 DEF Sync, Cancel, vars, runVars
  <2>2. QED
    BY <2>1, FramesRest DEF FrameInv, FramesOK
<1>6. ASSUME NEW t \in Targets, Age(t) PROVE FramesOK'
  <2>1. UNCHANGED <<pc, frame>> /\ cache' = [cache EXCEPT ![t] = None]
    BY <1>6 DEF Age, runVars
  <2>2. cache \in [Targets -> Cards \cup {None}]
    BY DEF FrameInv, FramesOK
  <2>3. QED
    BY <2>1, <2>2, FramesRest
<1>7. FramesOK'
  BY <1>1, <1>2, <1>3, <1>4, <1>5, <1>6, PrePlanReadKeeps, EvidenceKeeps, EvidenceReadKeeps,
     RankKeeps, FollowUpKeeps, SynthesizeKeeps DEF Next, Direct
<1>8. QED
  BY <1>7, KnowledgeGrows, RegistryOfRunsStep DEF FrameInv

\* An analysis ranks on knowledge at least as new as what was synced when it began
\* (rank_stage, OntologyRegistryClient), for any number of analyses and revisions.
THEOREM RankedOnSyncedKnowledgeHolds == Spec => []RankedOnSyncedKnowledge
<1>1. FrameInv => RankedOnSyncedKnowledge
  <2> SUFFICES ASSUME FrameInv, NEW r \in Requests, frame[r].cites # 0
               PROVE  frame[r].knows >= frame[r].floor
    BY DEF RankedOnSyncedKnowledge
  <2>1. FrameAt(frame[r], pc[r], synced) /\ IsFrame(frame[r])
    BY FrameFacts
  <2>2. frame[r].floor <= frame[r].knows /\ frame[r].floor \in Nat /\ frame[r].knows \in Nat
    BY <2>1 DEF FrameAt, IsFrame
  <2>3. QED
    BY <2>2
<1>2. QED
  BY <1>1, FrameInvInit, FrameInvStep, PTL DEF Spec

\* No analysis lists a change card of an analysis that had ended when it began
\* (ChangeCollector.clear_cache, new_state), for any number of analyses and targets.
THEOREM ChangeReadInOwnTimeHolds == Spec => []ChangeReadInOwnTime
<1>1. FrameInv => ChangeReadInOwnTime
  BY DEF FrameInv, FramesOK, InTime, ChangeReadInOwnTime
<1>2. QED
  BY <1>1, FrameInvInit, FrameInvStep, PTL DEF Spec

-----------------------------------------------------------------------------
(* The card a citation was read from *)

AtFirst(r, c) == c = <<r, "own">> \/ c = <<r, "again">>

\* A list begins with the analysis' own observation; a change card may follow,
\* and after a follow-up the observation seen again stands between the two.
Shaped(r, l, p) ==
    /\ \A i, j \in DOMAIN l : l[i] = l[j] => i = j
    /\ \A i \in DOMAIN l : AtFirst(r, l[i]) \/ IsChange(l[i])
    /\ p \in {"rank", "follow", "synth"} => l[1] = <<r, "own">>
    /\ p \in {"rank", "follow"} => \A i \in DOMAIN l : l[i] # <<r, "again">>
    /\ p = "synth" => \A i \in DOMAIN l : l[i] = <<r, "again">> => i = 2
    /\ p \notin {"rank"} \cup Ranked => l = <<>>

\* The ids are the places in the list, and the cited one is of the card meant.
Numbers(f, ids) ==
    /\ f.cites \in DOMAIN f.list
    /\ f.meant = Observed(f.list[f.cites])
    /\ \A i \in DOMAIN f.list : ids[f.list[i]] = i

\* Who lists a card that another lists as well is marked.
Apart(f, g) ==
    \A i \in DOMAIN f.list, j \in DOMAIN g.list : f.list[i] = g.list[j] => f.shared

\* An analysis that has not read its second change card yet.
Unborn(p) == p \notin {"rank"} \cup Ranked \cup Over
Nowhere(c) == /\ \A t \in Targets : cache[t] # c
              /\ \A q \in Requests : \A i \in DOMAIN frame[q].list : frame[q].list[i] # c

CiteInv ==
    /\ \A t \in Targets : cache[t] # None => IsChange(cache[t])
    /\ \A r \in Requests :
         /\ Shaped(r, frame[r].list, pc[r])
         /\ pc[r] \in Ranked /\ ~frame[r].shared => Numbers(frame[r], eid)
         /\ \A q \in Requests : q # r => Apart(frame[r], frame[q])
         /\ Unborn(pc[r]) => Nowhere(<<r, "change2">>)

LEMMA CiteInvInit == Init => CiteInv
<1> SUFFICES ASSUME Init PROVE CiteInv
  OBVIOUS
<1>1. /\ pc = [r \in Requests |-> "idle"] /\ cache = [t \in Targets |-> None]
      /\ frame = [r \in Requests |-> NoFrame]
  BY DEF Init
<1>2. NoFrame.list = <<>> /\ DOMAIN NoFrame.list = {}
  BY DEF NoFrame
<1>3. \A r \in Requests : frame[r].list = <<>> /\ DOMAIN frame[r].list = {} /\ pc[r] = "idle"
  BY <1>1, <1>2
<1>4. \A r \in Requests : <<r, "change2">> # None
  BY DEF None
<1>5. QED
  BY <1>1, <1>3, <1>4 DEF CiteInv, Shaped, Apart, Nowhere, Ranked

LEMMA ListOfCards ==
    ASSUME FrameInv, NEW q \in Requests
    PROVE  frame[q].list \in Seq(Cards) /\ \A i \in DOMAIN frame[q].list : frame[q].list[i] \in Cards
<1>1. frame[q].list \in Seq(Cards)
  BY FrameFacts DEF IsFrame
<1>2. QED
  BY <1>1, LenProperties

\* What a numbering of distinct cards gives each of them, and all others.
LEMMA NumberedAt ==
    ASSUME NEW seq \in Seq(Cards), \A i, j \in DOMAIN seq : seq[i] = seq[j] => i = j
    PROVE  /\ \A i \in DOMAIN seq : Numbered(seq)[seq[i]] = i
           /\ \A c \in Cards : (\A i \in DOMAIN seq : seq[i] # c) => Numbered(seq)[c] = eid[c]
<1>1. ASSUME NEW i \in DOMAIN seq PROVE Numbered(seq)[seq[i]] = i
  <2>1. seq[i] \in Cards
    BY LenProperties
  <2>2. Place(seq[i], seq) = {i}
    BY DEF Place
  <2>3. QED
    BY <2>1, <2>2 DEF Numbered
<1>2. ASSUME NEW c \in Cards, \A i \in DOMAIN seq : seq[i] # c
      PROVE  Numbered(seq)[c] = eid[c]
  BY <1>2 DEF Numbered, Place
<1>3. QED
  BY <1>1, <1>2

\* It is enough to look at the analysis that steps: the others keep their lists,
\* and the numbers of their cards unless they share them.
LEMMA CiteStep ==
    ASSUME CiteInv, pc \in [Requests -> Places], NEW r \in Requests, NEW p,
           pc' = [pc EXCEPT ![r] = p], Unborn(p) => Unborn(pc[r]),
           \A t \in Targets : cache'[t] # None =>
               cache'[t] = cache[t] \/ (cache'[t] \in {<<r, "change1">>, <<r, "change2">>}
                                        /\ (Unborn(p) => cache'[t] # <<r, "change2">>)),
           \A q \in Requests \ {r} :
               /\ frame'[q].list = frame[q].list /\ frame'[q].cites = frame[q].cites
               /\ frame'[q].meant = frame[q].meant /\ (frame[q].shared => frame'[q].shared)
               /\ ~frame'[q].shared =>
                    \A i \in DOMAIN frame[q].list : eid'[frame[q].list[i]] = eid[frame[q].list[i]],
           Shaped(r, frame'[r].list, p),
           p \in Ranked /\ ~frame'[r].shared => Numbers(frame'[r], eid'),
           \A q \in Requests \ {r} : Apart(frame'[r], frame'[q]) /\ Apart(frame'[q], frame'[r]),
           \A i \in DOMAIN frame'[r].list :
               \/ frame'[r].list[i][1] = r
               \/ \E j \in DOMAIN frame[r].list : frame'[r].list[i] = frame[r].list[j]
               \/ \E t \in Targets : frame'[r].list[i] = cache[t]
    PROVE  CiteInv'
<1>1. pc'[r] = p /\ \A q \in Requests \ {r} : pc'[q] = pc[q]
  OBVIOUS
<1>2. ASSUME NEW t \in Targets, cache'[t] # None PROVE IsChange(cache'[t])
  BY <1>2 DEF CiteInv, IsChange
<1>3. ASSUME NEW q \in Requests
      PROVE  /\ Shaped(q, frame[q].list, pc[q])'
             /\ (pc[q] \in Ranked /\ ~frame[q].shared => Numbers(frame[q], eid))'
  <2>1. CASE q = r
    BY <1>1, <2>1
  <2>2. CASE q # r
    <3>1. /\ Shaped(q, frame[q].list, pc[q])
          /\ pc[q] \in Ranked /\ ~frame[q].shared => Numbers(frame[q], eid)
      BY DEF CiteInv
    <3>2. Shaped(q, frame'[q].list, pc'[q])
      BY <1>1, <2>2, <3>1 DEF Shaped
    <3>3. pc'[q] \in Ranked /\ ~frame'[q].shared => Numbers(frame'[q], eid')
      BY <1>1, <2>2, <3>1 DEF Numbers
    <3>4. QED
      BY <3>2, <3>3
  <2>3. QED
    BY <2>1, <2>2
<1>4. ASSUME NEW q \in Requests, NEW x \in Requests, q # x PROVE Apart(frame[q], frame[x])'
  <2>1. CASE q = r \/ x = r
    BY <1>4, <2>1
  <2>2. CASE q # r /\ x # r
    <3>1. Apart(frame[q], frame[x])
      BY <1>4 DEF CiteInv
    <3>2. QED
      BY <2>2, <3>1 DEF Apart
  <2>3. QED
    BY <2>1, <2>2
<1>5. ASSUME NEW q \in Requests, Unborn(pc'[q]) PROVE Nowhere(<<q, "change2">>)'
  <2>1. Unborn(pc[q]) /\ Nowhere(<<q, "change2">>)
    BY <1>1, <1>5 DEF CiteInv
  <2>2. \A t \in Targets : cache'[t] # <<q, "change2">>
    <3>1. <<q, "change2">> # None
      BY DEF None
    <3>2. CASE q = r
      BY <1>1, <1>5, <2>1, <3>1, <3>2 DEF Nowhere
    <3>3. CASE q # r
      <4>1. /\ <<q, "change2">>[1] = q
            /\ <<r, "change1">>[1] = r /\ <<r, "change2">>[1] = r
        OBVIOUS
      <4>2. <<q, "change2">> \notin {<<r, "change1">>, <<r, "change2">>}
        BY <3>3, <4>1
      <4>3. QED
        BY <2>1, <3>1, <4>2 DEF Nowhere
    <3>4. QED
      BY <3>2, <3>3
  <2>3. ASSUME NEW x \in Requests, NEW i \in DOMAIN frame'[x].list
        PROVE  frame'[x].list[i] # <<q, "change2">>
    <3>1. CASE x # r
      BY <2>1, <2>3, <3>1 DEF Nowhere
    <3>2. CASE x = r /\ q # r
      <4>1. i \in DOMAIN frame'[r].list /\ <<q, "change2">>[1] # r
        BY <2>3, <3>2
      <4>2. \/ frame'[r].list[i][1] = r
            \/ \E j \in DOMAIN frame[r].list : frame'[r].list[i] = frame[r].list[j]
            \/ \E t \in Targets : frame'[r].list[i] = cache[t]
        BY <4>1
      <4>3. QED
        BY <2>1, <3>2, <4>1, <4>2 DEF Nowhere
    <3>3. CASE x = r /\ q = r
      BY <1>1, <1>5, <2>3, <3>3 DEF Shaped, Unborn
    <3>4. QED
      BY <3>1, <3>2, <3>3
  <2>4. QED
    BY <2>2, <2>3 DEF Nowhere
<1>6. QED
  BY <1>2, <1>3, <1>4, <1>5 DEF CiteInv

\* A step that leaves the lists, the ids and the marks as they are.
LEMMA CiteKept ==
    ASSUME FrameInv, CiteInv, NEW r \in Requests, NEW p,
           pc' = [pc EXCEPT ![r] = p], UNCHANGED <<frame, eid>>,
           Unborn(p) => Unborn(pc[r]),
           p \notin {"rank", "follow"},
           p \in Ranked => pc[r] \in Ranked,
           p = "synth" => pc[r] = "follow",
           p \notin Ranked => pc[r] \notin {"rank"} \cup Ranked,
           \A t \in Targets : cache'[t] # None =>
               cache'[t] = cache[t] \/ cache'[t] = <<r, "change1">>
    PROVE  CiteInv'
<1>1. pc \in [Requests -> Places]
  BY FrameFacts
<1>2. /\ Shaped(r, frame[r].list, pc[r])
      /\ pc[r] \in Ranked /\ ~frame[r].shared => Numbers(frame[r], eid)
      /\ \A q \in Requests : q # r => Apart(frame[r], frame[q]) /\ Apart(frame[q], frame[r])
  BY DEF CiteInv
<1>3. Shaped(r, frame'[r].list, p)
  BY <1>2 DEF Shaped
<1>4. \A q \in Requests \ {r} : Apart(frame'[r], frame'[q]) /\ Apart(frame'[q], frame'[r])
  BY <1>2
<1>5. p \in Ranked /\ ~frame'[r].shared => Numbers(frame'[r], eid')
  BY <1>2
<1>6. \A t \in Targets : cache'[t] # None =>
        cache'[t] = cache[t] \/ (cache'[t] \in {<<r, "change1">>, <<r, "change2">>}
                                 /\ (Unborn(p) => cache'[t] # <<r, "change2">>))
  <2>1. <<r, "change1">>[2] = "change1" /\ <<r, "change2">>[2] = "change2"
    OBVIOUS
  <2>2. <<r, "change1">> # <<r, "change2">>
    BY <2>1
  <2>3. QED
    BY <2>2
<1>7. QED
  BY <1>1, <1>3, <1>4, <1>5, <1>6, CiteStep

\* A step after which the analysis holds nothing.
LEMMA CiteEmpty ==
    ASSUME FrameInv, CiteInv, NEW r \in Requests, NEW p,
           pc' = [pc EXCEPT ![r] = p], p \notin {"rank"} \cup Ranked,
           Unborn(p) => Unborn(pc[r]), frame'[r].list = <<>>,
           \A q \in Requests \ {r} : frame'[q] = frame[q]
               /\ \A i \in DOMAIN frame[q].list : eid'[frame[q].list[i]] = eid[frame[q].list[i]],
           \A t \in Targets : cache'[t] # None => cache'[t] = cache[t]
    PROVE  CiteInv'
<1>1. pc \in [Requests -> Places] /\ DOMAIN frame'[r].list = {}
  BY FrameFacts
<1>2. Shaped(r, frame'[r].list, p)
  BY <1>1 DEF Shaped, Ranked
<1>3. \A q \in Requests \ {r} : Apart(frame'[r], frame'[q]) /\ Apart(frame'[q], frame'[r])
  BY <1>1 DEF Apart
<1>4. QED
  BY <1>1, <1>2, <1>3, CiteStep

LEMMA CiteEnds ==
    ASSUME FrameInv, CiteInv, NEW r \in Requests, NEW what, Finish(r, what), UNCHANGED cache
    PROVE  CiteInv'
<1>1. /\ pc' = [pc EXCEPT ![r] = "done"] /\ frame' = [frame EXCEPT ![r] = NoFrame]
      /\ eid' = [c \in Cards |-> IF Holders(c) \cup {r} = {r} /\ ~Cached(c) THEN 0 ELSE eid[c]]
  BY DEF Finish, Goto
<1>2. frame'[r].list = <<>> /\ \A q \in Requests \ {r} : frame'[q] = frame[q]
  BY <1>1, FrameFacts DEF NoFrame
<1>3. ASSUME NEW q \in Requests \ {r}, NEW i \in DOMAIN frame[q].list
      PROVE  eid'[frame[q].list[i]] = eid[frame[q].list[i]]
  <2>1. frame[q].list[i] \in Cards
    BY ListOfCards
  <2>2. q \in Holders(frame[q].list[i])
    BY DEF Holders, Place
  <2>3. QED
    BY <1>1, <2>1, <2>2
<1>4. QED
  BY <1>1, <1>2, <1>3, CiteEmpty DEF Over, Ranked, Unborn

LEMMA CiteBegins ==
    ASSUME FrameInv, CiteInv, NEW r \in Requests, Afresh(r), UNCHANGED eid,
           pc[r] \in {"queued", "load", "engine"}
    PROVE  CiteInv'
<1>1. PICK p \in {"preplan", "plan"} : pc' = [pc EXCEPT ![r] = p]
  BY DEF Afresh, Goto
<1>2. /\ cache' = [t \in Targets |-> None]
      /\ frame' = [frame EXCEPT ![r].ended = {q \in Requests : pc[q] \in Over},
                                ![r].floor = synced]
  BY DEF Afresh
<1>3. frame[r].list = <<>>
  BY FrameFacts DEF FrameAt, Early
<1>4. /\ frame'[r] = [frame[r] EXCEPT !.ended = {q \in Requests : pc[q] \in Over},
                                      !.floor = synced]
      /\ \A q \in Requests \ {r} : frame'[q] = frame[q]
  BY <1>2, FrameFacts
<1>5. frame'[r].list = <<>>
  <2> DEFINE over == {q \in Requests : pc[q] \in Over}
             f == frame[r]
  <2>1. f = [list |-> f.list, cites |-> f.cites, meant |-> f.meant, knows |-> f.knows,
             floor |-> f.floor, ended |-> f.ended, shared |-> f.shared]
    BY FrameFacts DEF IsFrame
  <2>2. frame'[r] = [f EXCEPT !.ended = over, !.floor = synced]
    BY <1>4
  <2>3. f.list = <<>>
    BY <1>3
  <2> HIDE DEF over, f
  <2>4. frame'[r] = [list |-> f.list, cites |-> f.cites, meant |-> f.meant, knows |-> f.knows,
                     floor |-> synced, ended |-> over, shared |-> f.shared]
    BY <2>1, <2>2
  <2>5. QED
    BY <2>3, <2>4
<1>6. QED
  BY <1>1, <1>2, <1>4, <1>5, CiteEmpty DEF Unborn, Ranked, Over

\* The observation of an analysis, alone or before a change card.
LEMMA TwoCards ==
    ASSUME NEW a \in Cards, NEW b \in Cards
    PROVE  /\ <<a>> \o <<b>> \in Seq(Cards) /\ DOMAIN (<<a>> \o <<b>>) = {1, 2}
           /\ (<<a>> \o <<b>>)[1] = a /\ (<<a>> \o <<b>>)[2] = b
<1> DEFINE s == <<a>> \o <<b>>
<1>1. /\ <<a>> \in Seq(Cards) /\ Len(<<a>>) = 1 /\ <<a>>[1] = a
      /\ <<b>> \in Seq(Cards) /\ Len(<<b>>) = 1 /\ <<b>>[1] = b
  OBVIOUS
<1>2. Len(s) = 1 + 1 /\ s \in Seq(Cards)
      /\ \A i \in 1..(1 + 1) : s[i] = IF i <= 1 THEN <<a>>[i] ELSE <<b>>[i - 1]
  BY <1>1, ConcatProperties
<1> HIDE DEF s
<1>3. s \in Seq(Cards) /\ DOMAIN s = {1, 2} /\ s[1] = a /\ s[2] = b
  BY <1>1, <1>2
<1>4. QED
  BY <1>3 DEF s

LEMMA OwnCards ==
    ASSUME NEW r \in Requests
    PROVE  /\ <<r, "own">> \in Cards /\ <<r, "again">> \in Cards /\ <<r, "own">> # <<r, "again">>
           /\ ~IsChange(<<r, "own">>) /\ ~IsChange(<<r, "again">>)
           /\ Observed(<<r, "own">>) = <<r, "own">> /\ Observed(<<r, "again">>) = <<r, "own">>
           /\ \A c \in Cards : AtFirst(r, c) => c[1] = r
           /\ \A c \in Cards : IsChange(c) => Observed(c) = c /\ c # <<r, "own">> /\ c # <<r, "again">>
<1>1. /\ <<r, "own">>[1] = r /\ <<r, "own">>[2] = "own"
      /\ <<r, "again">>[1] = r /\ <<r, "again">>[2] = "again"
  OBVIOUS
<1>2. QED
  BY <1>1 DEF Cards, IsChange, Observed, AtFirst

\* The list of an analysis that has its evidence: nobody lists its observation, and
\* if anybody lists the change card that came with it, all of them are marked.
LEMMA CiteListed ==
    ASSUME FrameInv, CiteInv, NEW r \in Requests, pc[r] \in {"plan", "evidenceRead"},
           pc' = [pc EXCEPT ![r] = "rank"], UNCHANGED eid,
           NEW l \in Seq(Cards), frame'[r].list = l, l[1] = <<r, "own">>,
           \/ DOMAIN l = {1}
           \/ DOMAIN l = {1, 2} /\ IsChange(l[2])
              /\ (l[2] = <<r, "change2">> \/ \E t \in Targets : l[2] = cache[t]),
           \A q \in Requests \ {r} :
               /\ frame'[q].list = frame[q].list /\ frame'[q].cites = frame[q].cites
               /\ frame'[q].meant = frame[q].meant /\ (frame[q].shared => frame'[q].shared)
               /\ (\E i \in DOMAIN l, j \in DOMAIN frame[q].list : i = 2 /\ frame[q].list[j] = l[i]) =>
                     frame'[r].shared /\ frame'[q].shared,
           \A t \in Targets : cache'[t] # None => cache'[t] = cache[t] \/ cache'[t] = <<r, "change2">>
    PROVE  CiteInv'
<1>1. pc \in [Requests -> Places] /\ Unborn(pc[r]) /\ ~Unborn("rank") /\ "rank" \notin Ranked
  BY FrameFacts DEF Unborn, Ranked, Over
<1>2. Shaped(r, l, "rank")
  <2>1. \A i \in DOMAIN l : (l[i] = <<r, "own">> /\ i = 1) \/ (IsChange(l[i]) /\ l[i] \in Cards /\ i = 2)
    <3>1. \A i \in DOMAIN l : l[i] \in Cards
      BY LenProperties
    <3>2. \A i \in DOMAIN l : i = 1 \/ (i = 2 /\ IsChange(l[i]))
      OBVIOUS
    <3>3. QED
      BY <3>1, <3>2
  <2>2. \A i \in DOMAIN l : IsChange(l[i]) => l[i] # <<r, "own">> /\ l[i] # <<r, "again">>
    BY <2>1, OwnCards
  <2>3. QED
    BY <2>1, <2>2, OwnCards DEF Shaped, AtFirst, Ranked
<1>3. ASSUME NEW q \in Requests \ {r}
      PROVE  Apart(frame'[r], frame'[q]) /\ Apart(frame'[q], frame'[r])
  <2>1. ASSUME NEW i \in DOMAIN l, NEW j \in DOMAIN frame[q].list, l[i] = frame[q].list[j]
        PROVE  i = 2
    <3>1. AtFirst(q, frame[q].list[j]) \/ IsChange(frame[q].list[j])
      BY DEF CiteInv, Shaped
    <3>2. frame[q].list[j] \in Cards
      BY ListOfCards
    <3>3. frame[q].list[j] # <<r, "own">>
      BY <3>1, <3>2, OwnCards DEF AtFirst
    <3>4. QED
      BY <2>1, <3>3
  <2>2. QED
    BY <2>1 DEF Apart
<1>4. \A i \in DOMAIN frame'[r].list :
          \/ frame'[r].list[i][1] = r
          \/ \E t \in Targets : frame'[r].list[i] = cache[t]
  OBVIOUS
<1>5. QED
  BY <1>1, <1>2, <1>3, <1>4, CiteStep

LEMMA NotOthers ==
    ASSUME FrameInv, CiteInv, NEW r \in Requests, NEW q \in Requests \ {r}
    PROVE  \A j \in DOMAIN frame[q].list : ~AtFirst(r, frame[q].list[j])
<1> SUFFICES ASSUME NEW j \in DOMAIN frame[q].list, AtFirst(r, frame[q].list[j]) PROVE FALSE
  OBVIOUS
<1>1. frame[q].list[j] \in Cards
  BY ListOfCards
<1>2. AtFirst(q, frame[q].list[j]) \/ IsChange(frame[q].list[j])
  BY DEF CiteInv, Shaped
<1>3. QED
  BY <1>1, <1>2, OwnCards DEF AtFirst

\* The second read brings a card that nobody has.
LEMMA EvidenceReadCites ==
    ASSUME FrameInv, CiteInv, NEW r \in Requests, EvidenceRead(r) PROVE CiteInv'
<1> DEFINE c == <<r, "change2">>
           l == <<<<r, "own">>>> \o <<c>>
           f == frame[r]
<1>1. /\ pc[r] = "evidenceRead" /\ pc' = [pc EXCEPT ![r] = "rank"] /\ Store(r, c)
      /\ frame' = [frame EXCEPT ![r].list = l] /\ eid' = eid
  BY DEF EvidenceRead, At, Goto, Board
<1>2. c \in Cards /\ IsChange(c)
  BY DEF Cards, IsChange
<1>3. frame'[r] = [f EXCEPT !.list = l] /\ \A q \in Requests \ {r} : frame'[q] = frame[q]
  BY <1>1, FrameFacts
<1>5. l \in Seq(Cards) /\ DOMAIN l = {1, 2} /\ l[1] = <<r, "own">> /\ l[2] = c
  BY <1>2, OwnCards, TwoCards
<1>6. Nowhere(c)
  BY <1>1 DEF CiteInv, Unborn, Ranked, Over
<1>7. \A t \in Targets : cache'[t] # None => cache'[t] = cache[t] \/ cache'[t] = c
  BY <1>1, FrameFacts DEF Store
<1> HIDE DEF l, c
<1>8. frame'[r] = Updates(f, l, f.cites, f.meant, f.knows, f.shared)
  BY <1>3, FrameFacts, FrameAssign
<1>9. frame'[r].list = l
  BY <1>8, UpdatedFields
<1>10. \A q \in Requests \ {r} : \A j \in DOMAIN frame[q].list : frame[q].list[j] # l[2]
  BY <1>5, <1>6 DEF Nowhere
<1>11. \A q \in Requests \ {r} :
           /\ frame'[q].list = frame[q].list /\ frame'[q].cites = frame[q].cites
           /\ frame'[q].meant = frame[q].meant /\ (frame[q].shared => frame'[q].shared)
           /\ (\E i \in DOMAIN l, j \in DOMAIN frame[q].list : i = 2 /\ frame[q].list[j] = l[i])
                 => frame'[r].shared /\ frame'[q].shared
  BY <1>3, <1>10
<1>12. DOMAIN l = {1, 2} /\ IsChange(l[2]) /\ l[2] = <<r, "change2">>
  BY <1>2, <1>5 DEF c
<1>13. \A t \in Targets : cache'[t] # None => cache'[t] = cache[t] \/ cache'[t] = <<r, "change2">>
  BY <1>7 DEF c
<1>14. QED
  BY <1>1, <1>5, <1>9, <1>11, <1>12, <1>13, CiteListed

\* The evidence stage: without changes, with the cached card, or on to another read.
LEMMA EvidenceCites ==
    ASSUME FrameInv, CiteInv, NEW r \in Requests, Evidence(r) PROVE CiteInv'
<1> DEFINE f == frame[r]
           own == <<r, "own">>
<1>1. pc[r] = "plan" /\ cache' = cache /\ eid' = eid /\ IsFrame(f)
  BY FrameFacts DEF Evidence, At
<1>2. CASE pc' = [pc EXCEPT ![r] = "rank"] /\ frame' = Board(r, <<>>)
  <2> DEFINE l == <<own>> \o <<>>
  <2>1. l \in Seq(Cards) /\ DOMAIN l = {1} /\ l[1] = own
    <3>1. own \in Cards
      BY OwnCards
    <3> HIDE DEF own
    <3>2. <<own>> \in Seq(Cards) /\ DOMAIN <<own>> = {1} /\ <<own>>[1] = own
      BY <3>1
    <3>3. l = <<own>>
      BY <3>2, ConcatEmptySeq
    <3>4. QED
      BY <3>2, <3>3
  <2>2. frame'[r] = [f EXCEPT !.list = l] /\ \A q \in Requests \ {r} : frame'[q] = frame[q]
    BY <1>2, FrameFacts DEF Board
  <2> HIDE DEF l
  <2>3. frame'[r].list = l
    <3>1. frame'[r] = Updates(f, l, f.cites, f.meant, f.knows, f.shared)
      BY <1>1, <2>2, FrameAssign
    <3>2. QED
      BY <3>1, UpdatedFields
  <2>4. ASSUME NEW q \in Requests \ {r}
        PROVE  /\ frame'[q].list = frame[q].list /\ frame'[q].cites = frame[q].cites
               /\ frame'[q].meant = frame[q].meant /\ (frame[q].shared => frame'[q].shared)
               /\ (\E i \in DOMAIN l, j \in DOMAIN frame[q].list : i = 2 /\ frame[q].list[j] = l[i])
                     => frame'[r].shared /\ frame'[q].shared
    BY <2>1, <2>2
  <2>5. \A t \in Targets : cache'[t] # None => cache'[t] = cache[t] \/ cache'[t] = <<r, "change2">>
    BY <1>1
  <2>6. pc[r] = "plan" /\ pc' = [pc EXCEPT ![r] = "rank"] /\ eid' = eid
    BY <1>1, <1>2
  <2>7. QED
    BY <2>1, <2>3, <2>4, <2>5, <2>6, CiteListed
<1>3. CASE pc' = [pc EXCEPT ![r] = "rank"] /\ Entry(r) # None /\ frame' = Take(r, Entry(r))
  <2> DEFINE c == Entry(r)
             l == <<own>> \o <<c>>
             b == Board(r, <<c>>)
             parties == IF Holders(c) = {} THEN {} ELSE Holders(c) \cup {r}
  <2>1. c \in Cards /\ IsChange(c) /\ \E t \in Targets : c = cache[t]
    BY <1>3, FrameFacts DEF Entry, CiteInv
  <2>2. l \in Seq(Cards) /\ DOMAIN l = {1, 2} /\ l[1] = own /\ l[2] = c
    BY <2>1, OwnCards, TwoCards
  <2>3. b[r] = [f EXCEPT !.list = l] /\ \A q \in Requests \ {r} : b[q] = frame[q]
    BY FrameFacts DEF Board
  <2>4. frame' = [q \in Requests |-> [b[q] EXCEPT !.shared = b[q].shared \/ q \in parties]]
    BY <1>3 DEF Take
  <2>5. \A q \in Requests \ {r} : (\E j \in DOMAIN frame[q].list : frame[q].list[j] = c)
                                     => q \in parties /\ r \in parties
    BY DEF Holders, Place
  <2> HIDE DEF l, b, parties, c
  <2>6. IsFrame(b[r]) /\ b[r].list = l
    <3>1. f.knows \in Nat
      BY <1>1 DEF IsFrame
    <3>2. b[r] = Updates(f, l, f.cites, f.meant, f.knows, f.shared)
      BY <1>1, <2>3, FrameAssign
    <3>3. QED
      BY <1>1, <2>2, <3>1, <3>2, FrameUpdate
  <2>7. ASSUME NEW q \in Requests
        PROVE  /\ frame'[q].list = b[q].list /\ frame'[q].cites = b[q].cites
               /\ frame'[q].meant = b[q].meant
               /\ frame'[q].shared = (b[q].shared \/ q \in parties)
    <3> DEFINE sh == b[q].shared \/ q \in parties
    <3>1. IsFrame(b[q])
      BY <2>3, <2>6, FrameFacts
    <3>2. frame'[q] = [b[q] EXCEPT !.shared = sh]
      BY <2>4
    <3> HIDE DEF sh
    <3>3. frame'[q] = Updates(b[q], b[q].list, b[q].cites, b[q].meant, b[q].knows, sh)
      BY <3>1, <3>2, FrameAssign
    <3>4. QED
      BY <3>3 DEF Updates, sh
  <2>8. ASSUME NEW q \in Requests \ {r}
        PROVE  /\ frame'[q].list = frame[q].list /\ frame'[q].cites = frame[q].cites
               /\ frame'[q].meant = frame[q].meant /\ (frame[q].shared => frame'[q].shared)
               /\ (\E i \in DOMAIN l, j \in DOMAIN frame[q].list : i = 2 /\ frame[q].list[j] = l[i])
                     => frame'[r].shared /\ frame'[q].shared
    <3>1. b[q] = frame[q] /\ q \in Requests
      BY <2>3
    <3>2. (\E i \in DOMAIN l, j \in DOMAIN frame[q].list : i = 2 /\ frame[q].list[j] = l[i])
             => q \in parties /\ r \in parties
      BY <2>2, <2>5
    <3>3. (q \in parties => frame'[q].shared) /\ (r \in parties => frame'[r].shared)
      BY <2>7
    <3>4. frame'[q].list = frame[q].list /\ frame'[q].cites = frame[q].cites
          /\ frame'[q].meant = frame[q].meant /\ (frame[q].shared => frame'[q].shared)
      BY <2>7, <3>1
    <3>5. QED
      BY <3>2, <3>3, <3>4
  <2>9. frame'[r].list = l
    BY <2>6, <2>7
  <2>10. DOMAIN l = {1, 2} /\ IsChange(l[2]) /\ \E t \in Targets : l[2] = cache[t]
    BY <2>1, <2>2
  <2>11. \A t \in Targets : cache'[t] # None => cache'[t] = cache[t] \/ cache'[t] = <<r, "change2">>
    BY <1>1
  <2>12. pc[r] = "plan" /\ pc' = [pc EXCEPT ![r] = "rank"] /\ eid' = eid
    BY <1>1, <1>3
  <2>13. QED
    BY <2>2, <2>8, <2>9, <2>10, <2>11, <2>12, CiteListed
<1>4. CASE pc' = [pc EXCEPT ![r] = "evidenceRead"] /\ frame' = frame
  BY <1>1, <1>4, CiteKept DEF Unborn, Ranked, Over
<1>5. QED
  BY <1>2, <1>3, <1>4 DEF Evidence, Goto

\* A list of one's own cards and of cards one had shares nothing new with anybody.
LEMMA StillApart ==
    ASSUME FrameInv, CiteInv, NEW r \in Requests, NEW s \in Seq(Cards),
           frame'[r].list = s, frame'[r].shared = frame[r].shared,
           eid' = Numbered(s), \A i, j \in DOMAIN s : s[i] = s[j] => i = j,
           \A i \in DOMAIN s : AtFirst(r, s[i]) \/ \E j \in DOMAIN frame[r].list : s[i] = frame[r].list[j],
           NEW q \in Requests \ {r}, frame'[q] = frame[q]
    PROVE  /\ Apart(frame'[r], frame'[q]) /\ Apart(frame'[q], frame'[r])
           /\ ~frame'[q].shared =>
                \A i \in DOMAIN frame[q].list : eid'[frame[q].list[i]] = eid[frame[q].list[i]]
<1>1. ASSUME NEW i \in DOMAIN s, NEW k \in DOMAIN frame[q].list, s[i] = frame[q].list[k]
      PROVE  frame[r].shared /\ frame[q].shared
  <2>1. ~AtFirst(r, s[i])
    BY <1>1, NotOthers
  <2>2. PICK j \in DOMAIN frame[r].list : s[i] = frame[r].list[j]
    BY <2>1
  <2>3. Apart(frame[r], frame[q]) /\ Apart(frame[q], frame[r])
    BY DEF CiteInv
  <2>4. QED
    BY <1>1, <2>2, <2>3 DEF Apart
<1>2. Apart(frame'[r], frame'[q]) /\ Apart(frame'[q], frame'[r])
  BY <1>1 DEF Apart
<1>3. ASSUME ~frame[q].shared, NEW k \in DOMAIN frame[q].list
      PROVE  eid'[frame[q].list[k]] = eid[frame[q].list[k]]
  <2>1. frame[q].list[k] \in Cards
    BY ListOfCards
  <2>2. \A i \in DOMAIN s : s[i] # frame[q].list[k]
    BY <1>1, <1>3
  <2>3. QED
    BY <2>1, <2>2, NumberedAt
<1>4. QED
  BY <1>2, <1>3

LEMMA RankingCites ==
    ASSUME FrameInv, CiteInv, NEW r \in Requests, pc[r] \in {"rank", "follow"},
           NEW s \in Seq(Cards), NEW p \in {"follow", "synth"},
           pc' = [pc EXCEPT ![r] = p], cache' = cache, Shaped(r, s, p),
           NEW rev, NumberAndRank(r, s, rev),
           \A i \in DOMAIN s : AtFirst(r, s[i]) \/ \E j \in DOMAIN frame[r].list : s[i] = frame[r].list[j]
    PROVE  CiteInv'
<1> DEFINE f == frame[r]
<1>1. PICK i \in DOMAIN s : frame'[r] = Updates(f, s, i, Observed(s[i]), rev, f.shared)
  BY RankedFrame
<1> DEFINE m == Observed(s[i])
<1>2. eid' = Numbered(s)
  BY RankedFrame
<1>3. m = Observed(s[i])
  OBVIOUS
<1>5. \A q \in Requests \ {r} : frame'[q] = frame[q]
  BY RankedFrame
<1>6. frame'[r] = Updates(f, s, i, m, rev, f.shared)
  BY <1>1
<1> HIDE DEF m
<1>7. /\ frame'[r].list = s /\ frame'[r].cites = i /\ frame'[r].meant = m
      /\ frame'[r].shared = f.shared
  BY <1>6, UpdatedFields
<1>8. \A j, k \in DOMAIN s : s[j] = s[k] => j = k
  BY DEF Shaped
<1>9. Numbers(frame'[r], eid')
  BY <1>2, <1>3, <1>7, <1>8, NumberedAt DEF Numbers
<1>10. ASSUME NEW q \in Requests \ {r}
       PROVE  /\ Apart(frame'[r], frame'[q]) /\ Apart(frame'[q], frame'[r])
              /\ frame'[q].list = frame[q].list /\ frame'[q].cites = frame[q].cites
              /\ frame'[q].meant = frame[q].meant /\ (frame[q].shared => frame'[q].shared)
              /\ ~frame'[q].shared =>
                   \A k \in DOMAIN frame[q].list : eid'[frame[q].list[k]] = eid[frame[q].list[k]]
  <2>1. frame'[q] = frame[q]
    BY <1>5
  <2>2. /\ Apart(frame'[r], frame'[q]) /\ Apart(frame'[q], frame'[r])
        /\ ~frame'[q].shared =>
             \A k \in DOMAIN frame[q].list : eid'[frame[q].list[k]] = eid[frame[q].list[k]]
    BY <1>2, <1>7, <1>8, <2>1, StillApart
  <2>3. QED
    BY <2>1, <2>2
<1>11. \A k \in DOMAIN frame'[r].list :
          \/ frame'[r].list[k][1] = r
          \/ \E j \in DOMAIN frame[r].list : frame'[r].list[k] = frame[r].list[j]
  BY <1>7, OwnCards, LenProperties
<1>12. pc \in [Requests -> Places] /\ ~Unborn(p)
  BY FrameFacts DEF Unborn, Ranked
<1>13. \A t \in Targets : cache'[t] = cache[t]
  OBVIOUS
<1>14. Shaped(r, frame'[r].list, p)
  BY <1>7
<1>15. QED
  BY <1>9, <1>10, <1>11, <1>12, <1>13, <1>14, CiteStep

LEMMA RankCites ==
    ASSUME FrameInv, CiteInv, NEW r \in Requests, Rank(r) PROVE CiteInv'
<1> DEFINE l == frame[r].list
<1>1. pc[r] = "rank" /\ cache' = cache /\ NumberAndRank(r, l, snap.rev)
  BY DEF Rank, At
<1>2. PICK p \in {"follow", "synth"} : pc' = [pc EXCEPT ![r] = p]
  BY DEF Rank, Goto
<1>3. l \in Seq(Cards) /\ Shaped(r, l, "rank")
  BY <1>1, FrameFacts DEF IsFrame, CiteInv
<1>4. Shaped(r, l, p)
  BY <1>3 DEF Shaped, Ranked
<1>5. \A i \in DOMAIN l : \E j \in DOMAIN l : l[i] = l[j]
  OBVIOUS
<1>6. QED
  BY <1>1, <1>2, <1>3, <1>4, <1>5, RankingCites

\* The list of a follow-up is shaped for the synthesis.
Again(r, l) == <<<<r, "own">>, <<r, "again">>>> \o Tail(l)
LEMMA AgainShape ==
    ASSUME NEW r \in Requests, NEW l \in Seq(Cards), l # <<>>, Shaped(r, l, "follow")
    PROVE  /\ Again(r, l) \in Seq(Cards) /\ Shaped(r, Again(r, l), "synth")
           /\ \A i \in DOMAIN Again(r, l) :
                  AtFirst(r, Again(r, l)[i]) \/ \E j \in DOMAIN l : Again(r, l)[i] = l[j]
<1> DEFINE s == Again(r, l)
           own == <<r, "own">>
           again == <<r, "again">>
           two == <<own, again>>
<1>1. /\ l[1] = own /\ \A i \in DOMAIN l : l[i] # again
      /\ \A i, j \in DOMAIN l : l[i] = l[j] => i = j
      /\ \A i \in DOMAIN l : AtFirst(r, l[i]) \/ IsChange(l[i])
  BY DEF Shaped
<1>2. own \in Cards /\ again \in Cards /\ own # again
      /\ \A c : AtFirst(r, c) <=> c = own \/ c = again
  BY OwnCards DEF AtFirst
<1> HIDE DEF own, again
<1>3. two \in Seq(Cards) /\ Len(two) = 2 /\ two[1] = own /\ two[2] = again
  BY <1>2
<1>4. /\ Tail(l) \in Seq(Cards) /\ Len(Tail(l)) = Len(l) - 1 /\ Len(l) \in Nat \ {0}
      /\ DOMAIN l = 1..Len(l)
      /\ \A i \in 1..Len(Tail(l)) : Tail(l)[i] = l[i + 1]
  BY HeadTailProperties, LenProperties, EmptySeq
<1>5. s = two \o Tail(l)
  BY DEF own, again, Again
<1> HIDE DEF two, s
<1>6. /\ s \in Seq(Cards) /\ Len(s) = 2 + Len(Tail(l))
      /\ \A i \in 1..(2 + Len(Tail(l))) : s[i] = IF i <= 2 THEN two[i] ELSE Tail(l)[i - 2]
  <2>1. /\ two \o Tail(l) \in Seq(Cards) /\ Len(two \o Tail(l)) = Len(two) + Len(Tail(l))
        /\ \A i \in 1..(Len(two) + Len(Tail(l))) :
             (two \o Tail(l))[i] = IF i <= Len(two) THEN two[i] ELSE Tail(l)[i - Len(two)]
    BY <1>3, <1>4, ConcatProperties
  <2>2. QED
    BY <1>3, <1>5, <2>1
<1>7. DOMAIN s = 1..(Len(l) + 1) /\ s[1] = own /\ s[2] = again
  <2>1. Len(s) = Len(l) + 1 /\ Len(Tail(l)) \in Nat
    BY <1>4, <1>6
  <2>2. DOMAIN s = 1..Len(s)
    BY <1>6, LenProperties
  <2>3. QED
    BY <1>3, <1>6, <2>1, <2>2
<1>8. ASSUME NEW i \in DOMAIN s, i # 1, i # 2
      PROVE  i - 1 \in DOMAIN l /\ i - 1 # 1 /\ s[i] = l[i - 1]
  <2>1. i \in 1..(Len(l) + 1) /\ ~(i <= 2) /\ i - 2 \in 1..Len(Tail(l))
    BY <1>4, <1>7, <1>8
  <2>2. s[i] = Tail(l)[i - 2] /\ Tail(l)[i - 2] = l[(i - 2) + 1]
    BY <1>4, <1>6, <2>1
  <2>3. QED
    BY <1>4, <2>1, <2>2
<1>9. ASSUME NEW i \in DOMAIN s, i # 1, i # 2 PROVE s[i] # own /\ s[i] # again
  <2>1. 1 \in DOMAIN l
    BY <1>4
  <2>2. QED
    BY <1>1, <1>8, <1>9, <2>1
<1>10. ASSUME NEW i \in DOMAIN s, NEW j \in DOMAIN s, s[i] = s[j] PROVE i = j
  <2>1. CASE i \in {1, 2} \/ j \in {1, 2}
    BY <1>2, <1>7, <1>9, <1>10, <2>1
  <2>2. CASE i \notin {1, 2} /\ j \notin {1, 2}
    <3>1. i - 1 = j - 1
      BY <1>1, <1>8, <1>10, <2>2
    <3>2. QED
      BY <1>7, <3>1
  <2>3. QED
    BY <2>1, <2>2
<1>11. ASSUME NEW i \in DOMAIN s
       PROVE  /\ AtFirst(r, s[i]) \/ IsChange(s[i])
              /\ AtFirst(r, s[i]) \/ \E j \in DOMAIN l : s[i] = l[j]
              /\ s[i] = again => i = 2
  BY <1>1, <1>2, <1>7, <1>8, <1>9
<1>12. Shaped(r, s, "synth")
  BY <1>7, <1>10, <1>11 DEF Shaped, Ranked, own, again
<1>13. QED
  BY <1>6, <1>11, <1>12 DEF s

LEMMA FollowUpCites ==
    ASSUME FrameInv, CiteInv, NEW r \in Requests, FollowUp(r) PROVE CiteInv'
<1> DEFINE l == frame[r].list
           s == Again(r, l)
<1>1. /\ pc[r] = "follow" /\ cache' = cache /\ NumberAndRank(r, s, frame[r].knows)
      /\ pc' = [pc EXCEPT ![r] = "synth"]
  BY DEF FollowUp, At, Goto, Again
<1>2. l \in Seq(Cards) /\ l # <<>> /\ Shaped(r, l, "follow")
  BY <1>1, FrameFacts DEF IsFrame, FrameAt, CiteInv
<1>3. /\ s \in Seq(Cards) /\ Shaped(r, s, "synth")
      /\ \A i \in DOMAIN s : AtFirst(r, s[i]) \/ \E j \in DOMAIN l : s[i] = l[j]
  <2> HIDE DEF l
  <2>1. QED
    BY <1>2, AgainShape
<1> HIDE DEF s
<1>4. QED
  BY <1>1, <1>3, RankingCites

\* What deduplication leaves: the cards in their order, one for each observation
\* there was, and the latest of the two that are of one.
LEMMA LatestCards ==
    ASSUME NEW r \in Requests, NEW l \in Seq(Cards), Shaped(r, l, "synth"), NEW s, s = Latest(r, l)
    PROVE  /\ s \in Seq(Cards) /\ Shaped(r, s, "publish")
           /\ \A i \in DOMAIN s : \E j \in DOMAIN l : s[i] = l[j]
           /\ \A j \in DOMAIN l : \E i \in DOMAIN s : Observed(s[i]) = Observed(l[j])
<1> DEFINE own == <<r, "own">>
           again == <<r, "again">>
<1>1. /\ l[1] = own /\ \A i \in DOMAIN l : l[i] = again => i = 2
      /\ \A i, j \in DOMAIN l : l[i] = l[j] => i = j
      /\ \A i \in DOMAIN l : AtFirst(r, l[i]) \/ IsChange(l[i])
  BY DEF Shaped
<1>2. CASE Place(again, l) = {}
  <2>1. s = l
    BY <1>2 DEF Latest
  <2>2. Shaped(r, s, "publish")
    BY <1>1, <2>1 DEF Shaped, Ranked
  <2>3. QED
    BY <2>1, <2>2
<1>3. CASE Place(again, l) # {}
  <2>1. s = Tail(l)
    BY <1>3 DEF Latest
  <2>2. 2 \in DOMAIN l /\ l[2] = again
    BY <1>1, <1>3 DEF Place
  <2>3. Observed(own) = Observed(again)
    BY OwnCards
  <2> HIDE DEF own, again
  <2>4. l # <<>> /\ DOMAIN l = 1..Len(l) /\ Len(l) \in Nat /\ Len(l) >= 2
    BY <2>2, LenProperties, EmptySeq
  <2>5. /\ s \in Seq(Cards) /\ Len(s) = Len(l) - 1
        /\ \A i \in 1..Len(s) : s[i] = l[i + 1]
    BY <2>1, <2>4, HeadTailProperties
  <2>6. DOMAIN s = 1..(Len(l) - 1)
    BY <2>5, LenProperties
  <2>7. \A i \in DOMAIN s : i + 1 \in DOMAIN l /\ s[i] = l[i + 1]
    BY <2>4, <2>5, <2>6
  <2>8. ASSUME NEW i \in DOMAIN s, NEW j \in DOMAIN s, s[i] = s[j] PROVE i = j
    <3>1. i + 1 = j + 1
      BY <1>1, <2>7, <2>8
    <3>2. QED
      BY <2>6, <3>1
  <2>9. Shaped(r, s, "publish")
    BY <1>1, <2>7, <2>8 DEF Shaped, Ranked
  <2>10. ASSUME NEW j \in DOMAIN l PROVE \E i \in DOMAIN s : Observed(s[i]) = Observed(l[j])
    <3>1. CASE j = 1
      <4>1. 1 \in DOMAIN s /\ s[1] = again
        BY <2>2, <2>4, <2>6, <2>7
      <4>2. QED
        BY <1>1, <2>3, <3>1, <4>1
    <3>2. CASE j # 1
      <4>1. j - 1 \in DOMAIN s /\ s[j - 1] = l[j]
        BY <2>4, <2>6, <2>7, <3>2
      <4>2. QED
        BY <4>1
    <3>3. QED
      BY <3>1, <3>2
  <2>11. QED
    BY <2>5, <2>7, <2>9, <2>10
<1>4. QED
  BY <1>2, <1>3

\* The id is carried to a card of the same observation.
LEMMA RemappedCard ==
    ASSUME NEW l \in Seq(Cards), NEW s, NEW c \in DOMAIN l,
           \A i \in DOMAIN l : eid[l[i]] = i,
           \E j \in DOMAIN s : Observed(s[j]) = Observed(l[c])
    PROVE  /\ Remapped(c, l, s) \in DOMAIN s
           /\ Observed(s[Remapped(c, l, s)]) = Observed(l[c])
<1> DEFINE carriers == {i \in DOMAIN l : eid[l[i]] = c}
           heir(i)  == CHOOSE j \in DOMAIN s : Observed(s[j]) = Observed(l[i])
           first == CHOOSE i \in carriers : \A k \in carriers : k <= i
<1>1. carriers = {c} /\ c \in Nat
  BY LenProperties
<1>2. Remapped(c, l, s) = IF carriers = {} THEN c ELSE heir(first)
  BY DEF Remapped
<1>3. first = c
  <2> HIDE DEF carriers
  <2>1. \A i : (i \in carriers /\ \A k \in carriers : k <= i) <=> i = c
    BY <1>1
  <2>2. QED
    BY <2>1
<1>4. heir(c) \in DOMAIN s /\ Observed(s[heir(c)]) = Observed(l[c])
  OBVIOUS
<1> HIDE DEF carriers, heir, first
<1>5. Remapped(c, l, s) = heir(c)
  BY <1>1, <1>2, <1>3
<1>6. QED
  BY <1>4, <1>5

LEMMA SynthesizeCites ==
    ASSUME FrameInv, CiteInv, NEW r \in Requests, Synthesize(r) PROVE CiteInv'
<1> DEFINE f == frame[r]
           l == f.list
           s == Latest(r, f.list)
           c == Remapped(f.cites, f.list, s)
<1>1. /\ pc[r] = "synth" /\ pc' = [pc EXCEPT ![r] = "publish"] /\ cache' = cache
      /\ frame' = Aggregated(r) /\ eid' = Numbered(frame'[r].list)
  BY DEF Synthesize, At, Goto
<1>2. IsFrame(f) /\ l \in Seq(Cards) /\ Shaped(r, l, "synth")
  BY <1>1, FrameFacts DEF IsFrame, CiteInv
<1>3. /\ s \in Seq(Cards) /\ Shaped(r, s, "publish")
      /\ \A i \in DOMAIN s : \E j \in DOMAIN l : s[i] = l[j]
      /\ \A j \in DOMAIN l : \E i \in DOMAIN s : Observed(s[i]) = Observed(l[j])
  <2> DEFINE k == l
  <2>1. s = Latest(r, k) /\ k \in Seq(Cards) /\ Shaped(r, k, "synth")
    BY <1>2
  <2> HIDE DEF k, s
  <2>2. QED
    BY <2>1, LatestCards DEF k
<1>4. frame' = [frame EXCEPT ![r].list = s, ![r].cites = c]
  BY <1>1, FrameFacts DEF Aggregated
<1>5. ~f.shared => /\ f.cites \in DOMAIN l /\ f.meant = Observed(l[f.cites])
                   /\ c \in DOMAIN s /\ Observed(s[c]) = f.meant
  <2>1. SUFFICES ASSUME ~f.shared
                 PROVE  /\ f.cites \in DOMAIN l /\ f.meant = Observed(l[f.cites])
                        /\ c \in DOMAIN s /\ Observed(s[c]) = f.meant
    OBVIOUS
  <2>2. /\ f.cites \in DOMAIN l /\ f.meant = Observed(l[f.cites])
        /\ \A i \in DOMAIN l : eid[l[i]] = i
    BY <1>1, <2>1 DEF CiteInv, Numbers, Ranked
  <2>3. \E j \in DOMAIN s : Observed(s[j]) = Observed(l[f.cites])
    BY <1>3, <2>2
  <2> HIDE DEF s
  <2>4. QED
    BY <1>2, <2>2, <2>3, RemappedCard
<1> HIDE DEF s, c
<1>6. frame' = [frame EXCEPT ![r] = [f EXCEPT !.list = s, !.cites = c]]
  BY <1>4, FrameFacts
<1>7. /\ frame'[r] = [f EXCEPT !.list = s, !.cites = c]
      /\ \A q \in Requests \ {r} : frame'[q] = frame[q]
  BY <1>6, FrameFacts
<1>8. frame'[r] = Updates(f, s, c, f.meant, f.knows, f.shared)
  BY <1>2, <1>7, FrameAssign
<1>9. /\ frame'[r].list = s /\ frame'[r].cites = c /\ frame'[r].meant = f.meant
      /\ frame'[r].shared = f.shared
  BY <1>8, UpdatedFields
<1>10. eid' = Numbered(s)
  BY <1>1, <1>9
<1>11. \A j, k \in DOMAIN s : s[j] = s[k] => j = k
  BY <1>3 DEF Shaped
<1>12. ~frame'[r].shared => Numbers(frame'[r], eid')
  BY <1>3, <1>5, <1>9, <1>10, <1>11, NumberedAt DEF Numbers
<1>13. ASSUME NEW q \in Requests \ {r}
       PROVE  /\ Apart(frame'[r], frame'[q]) /\ Apart(frame'[q], frame'[r])
              /\ frame'[q].list = frame[q].list /\ frame'[q].cites = frame[q].cites
              /\ frame'[q].meant = frame[q].meant /\ (frame[q].shared => frame'[q].shared)
              /\ ~frame'[q].shared =>
                   \A k \in DOMAIN frame[q].list : eid'[frame[q].list[k]] = eid[frame[q].list[k]]
  <2>1. frame'[q] = frame[q]
    BY <1>7
  <2>2. \A i \in DOMAIN s : AtFirst(r, s[i]) \/ \E j \in DOMAIN frame[r].list : s[i] = frame[r].list[j]
    BY <1>3
  <2>3. /\ Apart(frame'[r], frame'[q]) /\ Apart(frame'[q], frame'[r])
        /\ ~frame'[q].shared =>
             \A k \in DOMAIN frame[q].list : eid'[frame[q].list[k]] = eid[frame[q].list[k]]
    BY <1>3, <1>9, <1>10, <1>11, <2>1, <2>2, StillApart
  <2>4. QED
    BY <2>1, <2>3
<1>14. \A k \in DOMAIN frame'[r].list :
           \E j \in DOMAIN frame[r].list : frame'[r].list[k] = frame[r].list[j]
  BY <1>3, <1>9
<1>15. pc \in [Requests -> Places] /\ ~Unborn("publish")
  BY FrameFacts DEF Unborn, Ranked
<1>16. \A t \in Targets : cache'[t] = cache[t]
  BY <1>1
<1>17. Shaped(r, frame'[r].list, "publish")
  BY <1>3, <1>9
<1>18. QED
  BY <1>1, <1>12, <1>13, <1>14, <1>15, <1>16, <1>17, CiteStep

\* A step that moves nobody: the cache may only lose an entry.
LEMMA CiteRests ==
    ASSUME CiteInv, UNCHANGED pc, UNCHANGED frame, UNCHANGED eid,
           \A t \in Targets : cache'[t] \in {cache[t], None}
    PROVE  CiteInv'
<1>1. ASSUME NEW t \in Targets, cache'[t] # None PROVE IsChange(cache'[t])
  BY <1>1 DEF CiteInv
<1>2. ASSUME NEW r \in Requests
      PROVE  /\ Shaped(r, frame'[r].list, pc'[r])
             /\ pc'[r] \in Ranked /\ ~frame'[r].shared => Numbers(frame'[r], eid')
             /\ \A q \in Requests : q # r => Apart(frame'[r], frame'[q])
  BY DEF CiteInv
<1>3. ASSUME NEW r \in Requests, Unborn(pc'[r]) PROVE Nowhere(<<r, "change2">>)'
  <2>1. Nowhere(<<r, "change2">>)
    BY <1>3 DEF CiteInv
  <2>2. <<r, "change2">> # None
    BY DEF None
  <2>3. \A t \in Targets : cache'[t] # <<r, "change2">>
    BY <2>1, <2>2 DEF Nowhere
  <2>4. \A q \in Requests : \A i \in DOMAIN frame'[q].list : frame'[q].list[i] # <<r, "change2">>
    BY <2>1 DEF Nowhere
  <2>5. QED
    BY <2>3, <2>4 DEF Nowhere
<1>4. QED
  BY <1>1, <1>2, <1>3 DEF CiteInv

LEMMA CiteInvStep == ASSUME FrameInv, CiteInv, [Next]_vars PROVE CiteInv'
<1>1. ASSUME NEW r \in Requests,
             Submit(r) \/ Answer(r) \/ Lock(r) \/ Load(r) \/ PrePlan(r) \/ NoFollowUp(r)
      PROVE  CiteInv'
  <2>0. cache' = cache /\ frame' = frame /\ eid' = eid
    BY <1>1 DEF Submit, Answer, Lock, Load, PrePlan, NoFollowUp
  <2>1. CASE Submit(r)
    <3>1. pc[r] = "idle" /\ pc' = [pc EXCEPT ![r] = "queued"]
      BY <2>1 DEF Submit, Goto
    <3>2. QED
      BY <2>0, <3>1, CiteKept DEF Unborn, Over, Ranked
  <2>2. CASE Answer(r)
    <3>1. pc[r] = "done" /\ pc' = [pc EXCEPT ![r] = "answered"]
      BY <2>2 DEF Answer, Goto
    <3>2. QED
      BY <2>0, <3>1, CiteKept DEF Unborn, Over, Ranked
  <2>3. CASE Lock(r)
    <3>1. PICK p \in {"engine", "load"} : pc' = [pc EXCEPT ![r] = p]
      BY <2>3 DEF Lock, Goto
    <3>2. QED
      BY <2>0, <2>3, <3>1, CiteKept DEF Lock, At, Unborn, Over, Ranked
  <2>4. CASE Load(r)
    <3>1. pc[r] = "load" /\ pc' = [pc EXCEPT ![r] = "engine"]
      BY <2>4 DEF Load, At, Goto
    <3>2. QED
      BY <2>0, <3>1, CiteKept DEF Unborn, Over, Ranked
  <2>5. CASE PrePlan(r)
    <3>1. PICK p \in {"plan", "preplanRead"} : pc' = [pc EXCEPT ![r] = p]
      BY <2>5 DEF PrePlan, Goto
    <3>2. QED
      BY <2>0, <2>5, <3>1, CiteKept DEF PrePlan, At, Unborn, Over, Ranked
  <2>6. CASE NoFollowUp(r)
    <3>1. pc[r] = "follow" /\ pc' = [pc EXCEPT ![r] = "synth"]
      BY <2>6 DEF NoFollowUp, At, Goto
    <3>2. "follow" \in Ranked /\ "synth" \in Ranked /\ ~Unborn("synth")
      BY DEF Unborn, Ranked
    <3>3. \A t \in Targets : cache'[t] = cache[t]
      BY <2>0
    <3>4. QED
      BY <2>0, <3>1, <3>2, <3>3, CiteKept
  <2>7. QED
    BY <1>1, <2>1, <2>2, <2>3, <2>4, <2>5, <2>6
<1>2. ASSUME NEW r \in Requests, TaskCancelled(r) \/ TimeOut(r) \/ EngineAnswers(r)
                                 \/ Report(r) \/ PipelineFails(r)
      PROVE  CiteInv'
  <2>1. cache' = cache /\ \E what \in {"stopped", "expired", "rca", "error"} : Finish(r, what)
    BY <1>2 DEF TaskCancelled, TimeOut, EngineAnswers, Report, PipelineFails
  <2>2. QED
    BY <2>1, CiteEnds
<1>3. ASSUME NEW r \in Requests, Start(r) PROVE CiteInv'
  <2>1. CASE conf.engine
    <3>1. PICK p \in {"engine", "lock"} : pc' = [pc EXCEPT ![r] = p]
      BY <1>3, <2>1 DEF Start, Goto
    <3>2. cache' = cache /\ frame' = frame /\ eid' = eid /\ pc[r] = "queued"
      BY <1>3, <2>1 DEF Start, At
    <3>3. QED
      BY <3>1, <3>2, CiteKept DEF Unborn, Over, Ranked
  <2>2. CASE ~conf.engine
    BY <1>3, <2>2, CiteBegins DEF Start, At
  <2>3. QED
    BY <2>1, <2>2
<1>4. ASSUME NEW r \in Requests, EngineFails(r) PROVE CiteInv'
  BY <1>4, CiteBegins DEF EngineFails, At
<1>5. ASSUME NEW r \in Requests, PrePlanRead(r) PROVE CiteInv'
  <2>1. /\ pc[r] = "preplanRead" /\ pc' = [pc EXCEPT ![r] = "plan"]
        /\ frame' = frame /\ eid' = eid /\ Store(r, <<r, "change1">>)
    BY <1>5 DEF PrePlanRead, At, Goto
  <2>2. \A t \in Targets : cache'[t] = cache[t] \/ cache'[t] = <<r, "change1">>
    BY <2>1, FrameFacts DEF Store
  <2>3. /\ Unborn(pc[r]) /\ pc[r] \notin {"rank"} \cup Ranked
        /\ "plan" \notin Ranked \cup {"rank", "follow", "synth"}
    BY <2>1 DEF Unborn, Over, Ranked
  <2>4. pc' = [pc EXCEPT ![r] = "plan"] /\ frame' = frame /\ eid' = eid
    BY <2>1
  <2>5. QED
    BY <2>2, <2>3, <2>4, CiteKept
<1>6. ASSUME Sync \/ (\E run \in RunIds : Cancel(run)) \/ UNCHANGED vars PROVE CiteInv'
  <2>1. pc' = pc /\ frame' = frame /\ eid' = eid /\ cache' = cache
    BY <1>6 DEF Sync, Cancel, vars, runVars
  <2>2. QED
    BY <2>1, CiteRests
<1>7. ASSUME NEW t \in Targets, Age(t) PROVE CiteInv'
  <2>1. pc' = pc /\ frame' = frame /\ eid' = eid /\ cache' = [cache EXCEPT ![t] = None]
    BY <1>7 DEF Age, runVars
  <2>2. cache \in [Targets -> Cards \cup {None}]
    BY DEF FrameInv, FramesOK
  <2>3. \A x \in Targets : cache'[x] \in {cache[x], None}
    BY <2>1, <2>2
  <2>4. QED
    BY <2>1, <2>3, CiteRests
<1>8. QED
  BY <1>1, <1>2, <1>3, <1>4, <1>5, <1>6, <1>7, EvidenceCites, EvidenceReadCites,
     RankCites, FollowUpCites, SynthesizeCites DEF Next, Direct

\* The id a report prints is of the observation its conclusion was drawn from
\* (assign_evidence_ids, _aggregate_evidence), for any number of analyses side by side.
THEOREM CitationKeepsItsCardHolds == Spec => []CitationKeepsItsCard
<1>1. ASSUME FrameInv, CiteInv PROVE CitationKeepsItsCard
  <2> SUFFICES ASSUME NEW r \in Requests, pc[r] = "publish", ~frame[r].shared
               PROVE  Resolved(r) = frame[r].meant
    BY DEF CitationKeepsItsCard
  <2> DEFINE seq == frame[r].list
             c == frame[r].cites
             hits == {i \in DOMAIN seq : eid[seq[i]] = c}
             first == CHOOSE i \in hits : \A k \in hits : k <= i
  <2>1. /\ c \in DOMAIN seq /\ frame[r].meant = Observed(seq[c])
        /\ \A i \in DOMAIN seq : eid[seq[i]] = i
    BY <1>1 DEF CiteInv, Numbers, Ranked
  <2>2. c \in Nat
    <3>1. seq \in Seq(Cards)
      BY <1>1, ListOfCards
    <3>2. QED
      BY <2>1, <3>1, LenProperties
  <2>3. hits = {c}
    BY <2>1
  <2>4. Resolved(r) = IF hits = {} THEN None ELSE Observed(seq[first])
    BY DEF Resolved
  <2>5. first = c
    <3> HIDE DEF hits, c
    <3>1. \A i : (i \in hits /\ \A k \in hits : k <= i) <=> i = c
      BY <2>2, <2>3
    <3>2. QED
      BY <3>1
  <2> HIDE DEF hits, first
  <2>6. QED
    BY <2>1, <2>3, <2>4, <2>5
<1>2. QED
  BY <1>1, FrameInvInit, CiteInvInit, FrameInvStep, CiteInvStep, PTL DEF Spec
=============================================================================
