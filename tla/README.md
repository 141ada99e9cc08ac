# Formal models of Run:ai RCA

Run:ai RCA receives Prometheus alerts, groups them into incidents, has an agent
investigate them, keeps the resulting root-cause analyses (RCA), publishes them
in Slack, and turns the ones an operator approves into reusable knowledge.  This
directory holds TLA+ models of the backend and of the agent where their
correctness depends on the order of events or on what an incomplete observation
may be taken for, the TLC runs that check them, and the TLAPS proofs about them.

Contents: 1 the system, 2 the modules, 3 the runs, 4 the proofs, 5 where code
and documentation disagree, 6 what is not modelled, 7 the plan, 8 how to run it.

Go files named below are in `src/backend/internal/server/`, Python files in
`src/agent/app/`.

## 1. The system

### 1.1 Components

| Component | Code | State it keeps | Operations | Here |
|---|---|---|---|---|
| Analysis run lifecycle | `analysis_runs.go`, run methods of `store.go`, flag methods of `memory.go` | `analysis_runs` rows, `is_analyzing` flags, the agent semaphore, a goroutine per attempt | start, begin, wait for a slot, call, complete, apply, fail, fall back, reap, backfill, correct, pin | `AnalysisRuns` |
| Slack outbox and notices | `slack.go`, the completion methods of `store.go` | an outbox of deliveries in the metadata of each run, the thread of each incident, the last notice | queue, begin, post, complete, fail, skip, reset a thread, retry, notify | `SlackOutbox` |
| Case approval | `case_snapshot.go`, `handlers_incident.go` | approval stamp, immutable snapshots, the active case of an incident | approve, un-approve, auto-release | `CaseKnowledge` |
| Reviews and knowledge | `evaluation.go`, `knowledge.go`, `handlers_knowledge.go` | reviews, candidates, packages, in memory and in Postgres | review, generate, withdraw, revive, shadow, approve, activate, reject, retire, delete, curate | `CaseKnowledge` |
| Alert intake and incidents | `handlers_alert.go`, `store.go` | alerts, incidents, correlation keys, episodes, tombstones, trash | upsert, archive, trash, restore, purge, empty the trash, hourly pass, load | `AlertIntake` |
| Automatic-analysis window | `handlers_alert.go` | start times of the last minute | reserve, release | no |
| Memory and similarity | `memory.go` | embeddings, lists of similar incidents | upsert, refresh, search | no |
| Feedback, comments, search | `handlers_feedback.go`, `store.go` | votes and comments | add, list | as a trigger |
| Chat | `chat.go` | conversations | ask, answer | as a trigger |
| Slack Socket Mode | `slack_socket.go` | a websocket | read, acknowledge, reconnect | as a trigger |
| Event hub | `events.go` | SSE subscribers with bounded queues | subscribe, publish | no |
| HTTP surface, dashboards | `server.go`, other handlers | none of their own | routing, statistics | no |
| Persistence | `store_postgres.go` | tables | load, persist | in every module |
| Agent service | `main.py`, `services/orchestrator.py`, `services/nat_engine.py` | running tasks by run id, the NAT engine and its health, the collectors the fallback shares | analyze, cancel, load, run, fall back, time out | `AgentService`, `AnalysisService` |
| Agent pipeline | `services/pipeline.py`, `services/harness.py` | the state of one analysis: cards, candidates, the report | resolve the target, rank, self-check, re-analyse, fail over, synthesize, gate, repair, abstain | `AgentPipeline`, `RcaReview`, `TargetResolution` |
| Investigator and drilldowns | `services/investigator.py`, `drilldown.py`, `query_memory.py` and beside | the ledger of hypotheses, receipts of reads, results per collector | decide, verify, probe, query, reflect, gather, floor, drill, merge | `Investigation`, `Drilldowns`, `QueryMemory` |
| Collectors and clients | `collectors/*.py`, `mcp_client.py` | the change cache; else none | read, sweep, interpret | `KubernetesReads` and six more, `AgentEvidence` |
| Ranking and knowledge | `services/root_cause_ranking.py`, `knowledge.py` | the installed snapshot, its ETag, `synced` | rank, cap, promote; fetch, validate, install | `RcaRanking`, `KnowledgeRegistry` |
| Masking, language models | `masking.py`, `llm.py` | none | mask, unmask, ask | no |
| Ontology loaders, evaluation, frontend, charts, scripts | `src/agent/ontology`, `src/agent/eval`, `src/frontend`, `src/charts`, `src/scripts` | | | no |

`PROJECT.json` lists every component with its sources and the reason for its
status, and under `hazards` each place where the order of events can go wrong.

### 1.2 How they interact

- A webhook, a button, a comment, a Slack click or the backfill loop asks
  `CreateAnalysisRunIfAllowed` for a run of a *target*, an alert or an incident.
  The store may refuse, append a row, or take over the target's latest row in
  place; it then holds the old RCA next to the status `analyzing`.
- One goroutine per attempt waits on the agent semaphore, calls the agent over
  HTTP and returns to the store three times: it ends the row
  (`CompleteAnalysisRun`, `FailAnalysisRun`), makes the result visible
  (`ApplyAnalysisForRun`), and releases a superseded approval
  (`AutoRevokeSupersededApproval`).  The store's lock is free in between.
- Ending a row with a result queues the Slack message in the same write.  The
  attempt's goroutine and a retry worker deliver it, one at a time under
  `SlackNotifier.mu`; a resolved incident sends a notice into the same thread.
- Approval binds an incident to the case of its result (run id and analysis
  hash).  Reviews of a case decide whether it compiles to a knowledge candidate;
  reviewers, after a call to the agent's validator, move the candidate on, and
  its package becomes what the agent reads at run time.
- All state is in memory under `Store.mu` (writers also hold `writeMu`), written
  through to Postgres.  A failed write rolls the memory copy back in most
  methods; a restart loads the tables.  Goroutines, the semaphore, the retry
  worker's list, the memory of notices and pending agent calls do not survive.
- The backend posts an analysis to the agent under its run id and may cancel by
  that id.  The agent runs every analysis as a task on one event loop, under one
  deadline; it tries the NAT engine and falls back to its own pipeline.
- The pipeline settles the target, has the investigator and the domain agents
  read through the collectors, ranks the families of the catalog by the typed
  cards that came back, lets a model check the leader and perhaps send the
  investigation round again, and publishes through the gates of the harness.
- A card says what it is about, whether the thing is present or absent, and
  whether the read behind it was scoped and complete.  Everything after the
  collectors trusts these three.
- The knowledge registry polls the backend's packages; a ranking reads what is
  installed at that moment.

### 1.3 What is hard, and what makes each component correct

| Component | Hard because | Correct means |
|---|---|---|
| Run lifecycle | rows are reused under the same id, so a late answer, the reaper and a new attempt write to one row; flags are set and cleared by different actors; every return path must give its slot back | one run per target at a time; no slot leaked; every analyzing row has a worker or is reaped; flags clear and nest; a good RCA is never lost to a failure; a pinned correction is not rewritten |
| Slack outbox | two deliverers with stale lists; the lock is free between the HTTP call and the acknowledgement; answers get lost, threads get deleted, processes die | each result appears once and in order; the channel and the store agree on the ordinals; automatic follow-ups stay out of the thread; each resolution is announced once; every delivery settles |
| Approval and knowledge | several transactions per review; decisions wait for the agent outside the lock; content-addressed candidates are shared by cases; memory and rows are changed separately | at most one active package for a cause; nothing live that its reviews no longer confirm; an approval names the current result; memory and rows agree; rejection is final |
| Alert intake | a webhook's rows are written after its lock is released; webhooks are repeated; purges, failed writes and restarts come in between; alerts of one key share records | rows never lose an update of memory; a purged incident never comes back; the episode purged last stays gone while it lasts |
| Agent service | run ids are reused while the first task lives; cancellation arrives at any await; a fallback after a failed engine shares collectors and cards with other analyses | one answer per request and the right one; a cancel or a newer request reaches the open attempt of its run; an analysis uses nothing of an earlier one |
| Agent pipeline | half a dozen ways to change the leader, each with its early returns; a repair may break the gate another one fixed | no refuted family is published as the cause; a published report rests on eligible cards it cites |
| Investigator and drilldowns | a model chooses what happens; reads are shared by five paths, may fail, be cut or never answer, under one budget | every path ends; no read is repeated for nothing; nothing is skipped without grounds; a failed read stays visible as a gap |
| Collectors | servers ignore selectors and ranges, return pages, lose time stamps; objects are replaced between two reads; reads cover more time than the cause could | a card supports only for its own entity and from a time before the resolution; an absence is claimed only from a complete read |
| Knowledge registry | the ETag is stored apart from the snapshot; a refresh may be refused half way | what is called synchronized is what is installed; never an older revision |

## 2. The modules

| Module | Role |
|---|---|
| `AnalysisRuns` | the life of analysis runs: state, actions, properties |
| `AnalysisRuns_proofs` | its inductive invariant and theorems |
| `SlackOutbox` | the delivery of results and notices |
| `SlackOutbox_proofs` | its invariants and theorems |
| `CaseKnowledge` | approval, reviews, candidates and packages |
| `CaseKnowledge_proofs` | its invariants and theorems |
| `AlertIntake` | alerts, incidents, the archive, the trash and the purge |
| `AlertIntake_proofs` | its invariants and theorems |
| `AnalysisService` | abstract: what `POST /analyze` and its cancel promise the backend |
| `AgentService` | the agent process, which implements it; extends `KnowledgeRegistry` |
| `KnowledgeRegistry` | the agent's copy of the approved knowledge |
| `AgentService_proofs` | the invariants of both, the refinement, and what a citation means |
| `RcaRanking`, `RcaReview` | ranking, signatures, self-check and gates as operators |
| `AgentPipeline` | one analysis from cards to report; extends both |
| `AgentPipeline_proofs` | what a published report rests on, and why no refuted leader is synthesized |
| `Evidence` | cards, time ranges and the two phases all collectors share |
| `KubernetesReads`, `LogReads`, `MetricReads`, `ChangeReads`, `PlatformReads`, `HistoryReads`, `NodeReads` | one collector each |
| `TargetResolution` | what the pipeline completes of the alert before it reads |
| `AgentEvidence` | composes the collectors and the resolution, and states what a card must be worth |
| `AgentEvidence_proofs` | an invariant per collector and of the resolution, and that they imply it |
| `QueryMemory` | the receipts of claimed reads |
| `Investigation` | one run of the investigator over that memory |
| `Drilldowns` | the domain agents beside it, and the targeted re-analysis round it |
| `Drilldowns_proofs` | the invariants of receipts, of what is left unread, and of probes |
| `MC...` | instances, symmetry and views for TLC |

Common conventions.  A store method runs under the store's lock and is one
action, with every flag, trailing trim or refresh it makes; what interleaves is
everything between two store calls.  A rejected database write is a disjunct of
the action that makes it and costs one of `MaxFaults` (or `MaxDisruptions`); a
crash forgets what is only in the process and keeps the rows.  A definition
marked `Mutant:` stands before the definition it varies, is used by no action,
and records a plausible bug that the property named in `PROJECT.json` catches.
`PROJECT.json` maps each definition to the lines it models.

### 2.1 AnalysisRuns

| State | In the code |
|---|---|
| `row` | `Store.analysisRuns`: status, source, target, `AlertID`, the RCA (named by the attempt that made it), the origin of its metadata, the parked metadata of the last success, pin, creation order, `UpdatedAt` as an order and an age |
| `task` | the goroutine of each attempt: where it is, its row and alert, its slot, its wait, what it is about to record |
| `alertFlag`, `incFlag` | `IsAnalyzing` of alerts and incidents |
| `slots` | `len(agentSlots)` |
| `backlog` | the ids the running backfill cycle has listed |
| `deleted`, `clock`, `faults` | hard-deleted incidents, the order of stamps, the fault bound |

`Request`/`BackfillStart` are `startAnalysisRun` up to its write;
`Begin`, `AcquireSlot`, `SlotTimeout`, `CallSucceeds`, `CallFails`, `Complete`,
`Apply`, `Fail`, `ApplyFallback` are the goroutine; `Reap` is one pass of the
reaper with the flags it recomputes; `OperatorCorrection`, `SetPinned`,
`HardDelete`, `Crash` and `Tick` are the rest.  A cancelled run is a call that
fails.  Comment, chat and re-verification triggers behave alike and share the
source `comment`.  `Tick` may pass while an attempt waits although `slots` is not
full, because analyses of other incidents may hold the rest.  A run whose first
write is rejected never exists, which is a stutter.  The soft delete of an
incident only refuses new starts, and no request is a behaviour already.

### 2.2 SlackOutbox

| State | In the code |
|---|---|
| `attempt`, `shown` | what the outbox sees of an attempt and of its row |
| `outbox`, `entry` | `metadata["slack_analysis_outbox"]` of each row, in order, and each delivery in it |
| `inc` | trash state, resolution, `SlackThreadTS`, `SlackSequence` of an incident |
| `spawned`, `batch`, `notices` | who waits for the mutex: goroutines of attempts, the worker's list, goroutines of resolutions |
| `poster` | the holder of `SlackNotifier.mu` with the copies it has read |
| `notified` | `lastResolvedNotification` |
| `channel`, `removed` | the messages in Slack and those somebody deleted (external) |

The poster goes `Lock`, then `Skip` or `Begin`, then one of `PostAccepted`,
`PostFails`, `PostFindsNoThread`, then `Commit` or `Reset`, and `PostNotice`
when a new root finds its incident resolved.  The retry delay is the flag
`cooling`, which ends at any time.  `client_msg_id` and deleted threads are
Slack's and are modelled from how `slack.go` relies on them.  `QueuedAt` is
taken to grow with every entry (one process, one clock).  Reading whether a
result predates the thread is merged with the store call that follows it: both
are reads of the same rows and nothing is decided in between.  The untracked
delivery path (`deliverSlackAnalysis`, `BumpIncidentAnalysisSeq`) is used by
tests only and is left out.

### 2.3 CaseKnowledge

| State | In the code |
|---|---|
| `approved`, `active` | `UserApprovedAt`, `activeCaseByIncident` |
| `snap`, `snapRow` | approval state of each snapshot, in memory and in `rca_case_snapshots` |
| `review` | `evaluationReviews`, by case and reviewer |
| `run`, `releasing` | status and current case of an incident's run; goroutines before their tail |
| `mem`, `rows` | candidates and packages in memory and in Postgres |
| `checking`, `refining` | calls to the validator and to the rewriting of actions |

What a case compiles to is a constant per review mode (`Compile`), as are the
content gates (`Eligible`) and the family and mechanism (`Fingerprint`); what
reviews make of it is `Allows`, `Mode` and `Recompute`.  `SaveReview` takes the
set of candidates whose own transaction fails, because one review is several
transactions.  `Approve*`, `Unapprove`, `AutoRevoke` are `case_snapshot.go`;
`Check*`, `Activate`, `Reject*`, `Retire`, `Delete`, `EditActions` and `Refine*`
are the decisions.  A change that memory and rows make together is an operator
on both (`Set`, `Drop`, `Link`, `Revive`); where the code changes them
differently the action says so (`ApproveAgain`, `SupersedePrior`).

Simplifications: one run per incident; no pinned corrections here; a reviewer's
edit differs from the generated text; a rewriting may start whenever the
candidate is ready and raw; failures of the review's own row are left out
because the code ignores them; a failed transaction that changes nothing is a
stutter; a database is configured; the mirror status and the upgrade of legacy
probe ids are left out.

### 2.4 AgentService, AnalysisService and KnowledgeRegistry

| State | In the code |
|---|---|
| `pc`, `stop`, `reply` | the task of each request: the await it is in, whether it was cancelled, its answer |
| `running`, `told` | `_running_analyses`, the answer of `/analyze/cancel` |
| `engine` | `NatEngine`: loaded, its lock; `engine_health` of the orchestrator |
| `cache`, `eid` | `ChangeCollector._cache`, and the `evidence_id` written into each artifact |
| `frame` | the local state of one analysis in the fallback pipeline, with history (when it began, who had ended) |
| `published`, `snap`, `etag`, `answer`, `synced`, `syncError` | the backend's revision, the installed snapshot, the conditional request in flight, and the registry's own account of it |

A step is what the event loop runs between two awaits.  `Submit`, `Cancel` and
`Answer` are the two routes; `Start`, `Lock`, `Load`, `EngineAnswers`,
`EngineFails` are engine and fallback; `PrePlan` to `Report` are the pipeline's
phases as far as they touch shared objects; `TaskCancelled` and `TimeOut` may
hit any await.  `AnalysisService` knows requests as new, open, stopping or
answered; `ServiceState` maps the process to it.  The change cache is keyed by
the target here and by more of it in the code.  Cards are named by the analysis
and the read they come from, and the cards of one run that no other run can
touch are reduced to two.

### 2.5 AgentPipeline, RcaRanking, RcaReview

A card carries what ranking reads of it: the families it speaks about, its role,
its collector and the group of collectors that counts once, whether it is
eligible, whether it names the target itself, and the marks of signatures.
Points are eighths, so that half points stay integers.  `RankStage`,
`SelfCheckStage`, `Aim`, `Settle`, `ProbeFails`, `Reanalyze`, `Resolve`,
`ResolveOnlyInLoop`, `Synthesize`, `RepairRound`, `Publish`, `Abstain` and
`PassThrough` are the steps; the answers of the checking model and what a
follow-up finds are chosen from `Opinions` and `Finds`.  The text of a report is
reduced to what the gates measure: the cards it cites, whether actions are
guarded, whether the cause is claimed.  The legacy keyword ranking, translation
and the chat headline are left out.  A `TimeoutError` from inside a phase is
taken for the deadline, as in the code.

### 2.6 The collectors

A *world* says what is true around the alert: facts named by whose they are (the
alert's pod, its twin of the same name and another uid, a child of its
controller, a look-alike sibling, the node) and by minutes.  A read is answered
with any reply a server could give about that world: complete, a page, a list
that does not say which, other objects than asked for, an error.  What a
collector may meet is its `...World` (`Observable` picks one), and `EvidenceSpec`
starts with any target (`IsTarget`) in any such world.  A collector
module turns the replies into cards as its code does and keeps, in `basis`, the
facts each card rests on; the properties compare the card with its basis and
with the world.  Collectors share nothing but the target, so a behaviour follows
one (`world.collector`).  `TargetResolution` is the exception: it changes the
target, and `NodeReads`, which depends on it most, follows it in the same
behaviour.

Reduced: regular expressions to a flag per line or event, PromQL to the four
readings results get (growth, positive, any, none), thresholds to their side,
retries of a transport to the reply they end with.  Lists have caps of one or
two instead of hundreds.

### 2.7 Investigation and Drilldowns

| State | In the code |
|---|---|
| `phase`, `loop`, `round`, `chained`, `late` | where the coroutine is; the deadline |
| `memory`, `running` | `QueryMemory` receipts; tasks in flight |
| `evidence`, `scopeOf`, `cards` | `state.results` with their gaps per scope; `latest_probe_scopes`; the artifacts |
| `ledger`, `suff` | hypotheses with status and citations; `evidence_sufficient` |
| `seen`, `asked`, `failed`, `wanted`, `held` | the round's bookkeeping of probes and queries |
| `agent`, `assessed`, `base` | each domain agent and its verdicts; the results before a re-analysis |
| `tries`, `got`, `outcome`, `floored` | history, for the properties |

`Decide`, `Verify` and `Reflect` take the model's answer; `Launch` claims and
starts what it asked for; `ProbeDone`, `QueryDone`, `ProbesCut`, `QueriesCut`
are the two batches of a round; `FinalGather` to `FloorTimesOut` the rest of the
reads; `Finish` hands over.  `DeclaredProbe`, `AskAgent` and their answers are
an agent; `Reanalyze`, `Adopt`, `KeepFirst` the second pass.  `raised` is the
exception that leaves the stage.

Simplifications: `MaxAttempts` and the eight kept citations are constants; a gap
is named by the scope that failed; `Covers` stands for seeding the memory from
artifacts; the parser's repair of a malformed decision is one flag; one
re-analysis where the code allows three; the reads a cancelled gather leaves end
with it; flowchart follow-ups between hand-over and drilldowns are left out.

### 2.8 AlertIntake

| State | In the code |
|---|---|
| `alertmanager` | the current episode of each alert: its `StartsAt`, its status, its end (external) |
| `mem` | `incidents`, `alerts`, `incidentByKey`, `alertByGroup`, `alertByFinger`, `deletedEpisodes` of the store |
| `rows` | the tables `incidents`, `alerts` and `deleted_alert_episodes` |
| `writing` | what the holder of `writeMu` has still to write, after `mu` is free |
| `pass` | the ids a run of `PurgeExpiredTrash` or `EmptyTrash` has listed and not yet deleted |
| `made`, `now`, `stale` | the id counters; the clock; rows whose last write failed |
| `asked`, `gone`, `buried`, `mourned` | history, for the properties: episodes queued for an analysis, incidents purged, the last and all episodes purged |

`Upsert`, `Drop` and `Panic` are the three ways a webhook ends: applied, swallowed
by a tombstone or the trash, or lost to an alert whose incident has no row.  The
two statements of an applied webhook are `Write`, in either order.  `Archive`,
`Trash`, `RestoreIncident` and `DeletePermanently` are the operator's calls;
`ListExpired` or `ListTrash`, then `DeleteNext` or `FindsNone` for each id, then
`EndPass` are a pass over the trash.  Each takes `writeMu` where the code does,
and none where it only reads.  `Restart` loads the rows; the order in which a
`SELECT` returns them, and in which Go walks a map, is any (`Orders`).

Alertmanager fires and resolves an alert and says so any number of times, or not
at all; of one alert the webhooks arrive in order.  A failed statement is logged
by the code and changes nothing else: memory keeps the change, except in the
purge, whose transaction decides.

Simplifications: every webhook has a `StartsAt` (the ad hoc alerts of the chat,
which borrow one, are left out); identifiers are numbers; severity, title,
labels and the occurrence counters are left out, as no decision here reads them
but that of a new occurrence; loading itself does not fail; the runs, reviews and
memories a purge takes with it are `AnalysisRuns`' and `CaseKnowledge`'s matter;
`incidentResolve` is left out.  The window that limits automatic analyses only
makes fewer runs start, which `AnalysisRuns` allows at any time.

## 3. The runs

Each passing run is exhaustive for its instance.  Every property has a mutant of
the code in `PROJECT.json` that breaks it under the same configuration.

### 3.1 What each shows

| Run | Instance | Shows |
|---|---|---|
| `one_alert` | 1 alert, requests from every source, 3 attempts, 1 slot, backfill of 1, 1 correction, 1 fault | no slot leaks; no good RCA gives way to a failure; a pinned correction is not rewritten |
| `two_alerts` | 2 alerts of 1 incident, requests on each alert and on the incident, 2 attempts, 1 slot, 1 fault, fair | one run per target; nested flags; a goroutine behind every analyzing row; every run ends and every flag clears |
| `slack_two_rows` | 2 rows of 1 incident, an attempt each or two on one, any 2 disruptions | order in the thread; ordinals; nothing delivered is posted again |
| `slack_notices` | 1 row, 2 attempts, 2 resolutions, outbox cap 1 | automatic follow-ups silent; one notice per resolution, and not none |
| `slack_settles` | 1 row, 2 attempts, 1 disruption, fair | every queued result is delivered or skipped in the end |
| `knowledge_one_incident` | 1 incident, 2 analyses with content of their own, 3 candidates, confirming and novel reviews, 3 of them, 1 agent call | one active package; nothing live unconfirmed; approvals current; memory and rows agree |
| `knowledge_faults` | the same with 2 candidates, one only on the operator's authority, a veto, 2 reviews, edits and rewriting, 1 fault | a reviewer's edit wins; nothing leaves the queue before its replacement is on record |
| `agent_service` | 2 requests of one or two runs on one or two targets, with engine, or change cache, or follow-up, or a registry of 3 revisions; fair | the process implements `AnalysisService`; every request is answered; change evidence, evidence ids and knowledge are of the analysis' own time |
| `agent_pipeline` | 7 families, 10 boards of cards, 10 settings, 3 opinions, 5 finds, 2 repairs | published reports are grounded; no refuted family is synthesized when there is time and nothing reorders the list after the check |
| `agent_evidence` | every collector over several hundred pairs of alert and world | support is of the card's entity and time; an absence is complete; the alert's own names stay |
| `agent_investigation` | 2 collectors, 3 scopes, 2 queries, 2 hypotheses, 2 rounds and 1 more, 2 agents, 1 re-analysis, the deadline anywhere; fair | no read is repeated for nothing; nothing skipped without grounds; gaps survive; every declared probe gets its verdict; the stage ends |
| `alert_intake` | 1 alert, 2 incidents and 2 records, 2 episodes, 2 orders of an operator, hourly passes at any time, 1 failed write or crash | rows never lose an update; a purged incident never comes back; the episode purged last stays gone |

### 3.2 Bounds, and why they are enough

- Attempts: what goes wrong needs an attempt, its successor on the same row and,
  for the loss of a good RCA, a success before both: three on one alert, two
  where the question is between targets.  Two targets that overlap (an alert and
  its incident) are all the ways two runs can meet.
- Slots: with one slot, two attempts already compete, time out and hand over.
- Timeouts and cooldowns are one tick each; `Tick` is nondeterministic relative
  to every other action, so only which timer has fired matters, not its length.
  The comparison of manual and automatic timeouts is left to the proofs, which
  hold for any values.
- Slack: two rows of one incident, or two attempts of one row, are the least
  that can be out of order; two disruptions combine a lost answer or a crash with
  a lost thread or a move to the trash.  The outbox cap is 32 in the code and 1
  in `slack_notices`, so that eviction happens with two attempts.  A legacy
  incident starts with ordinal 3 and no thread.
- Knowledge: two hashes of one run give a superseded approval; three candidates
  let a case compile differently as known and as novel and share a fingerprint
  across hashes, two let it compile with and without the operator's authority;
  three reviews by one reviewer confirm, withdraw and confirm again; one agent
  call at a time is enough for a decision to become stale, because every other
  action may run meanwhile.
- Agent service: interference needs two analyses; three revisions of the
  knowledge give one that is refused between two that are not.  The theorems of
  section 4 lift both bounds.
- Agent pipeline: the families differ in which collector is canonical and how
  many may speak; the cards give every reason to be refused, capped or promoted;
  two repairs let the second undo the first, three rounds of re-analysis exhaust
  the alternatives.
- Collectors: facts lie before the prelude, in it, in the incident, in the
  epilogue and after it, for the alert and for whatever could be mistaken for
  it.  A cap of one or two is what separates a full list from a page.
- Investigation: two collectors compete for declared probes and leave one
  unread; a scope that equals the collector's default and one that does not
  separate what a narrow read may stand for; two attempts allow one retry.
- Alert intake: two episodes give a tombstone that is spent and one that is not;
  two incidents give one purged and its successor; two orders trash and restore,
  or trash and purge.  Retentions of zero make everything expired at once, so a
  pass may meet any state; a window of zero makes every second episode of a
  flapping alert a new incident.  That alerts share a key matters to the
  by-hand configurations and is covered by the theorems of section 4, as are all
  larger numbers.
- Faults: one, at any write or as a crash, at any point; two in `slack_two_rows`.

### 3.3 Symmetry and views

- `RowSymmetry` (two rows of one incident): rows are only compared for equality
  and `IncidentOf` is the same for all.
- `RankView` replaces the stamps `UpdatedAt` by their rank among the rows.  Every
  action reads them through `LatestUpdated` only and new stamps are above all
  old ones, so states with equal ranks have equal futures up to the stamps, and
  no property of the run mentions one.
- `SettledView` identifies states that differ in how an attempt ended, in the
  `cooling` of a settled entry, or in which kind of disruption spent the bound:
  no action reads the first two once they are so, and guards read the sum.
  `NoticedOnce` and `ResolutionNoticed` read whether `faults` is zero; their run
  has no disruptions.
- No view or symmetry is used with a liveness property.

### 3.4 Fairness

- `AnalysisRuns`: goroutines are scheduled and a call ends by its timer (weak
  fairness of each attempt's steps), the reaper's ticker fires, time passes.
  Nothing is assumed of triggers, answers, operators or the absence of faults.
- `SlackOutbox`: the holder of the mutex goes on (weak); a goroutine waiting for
  it gets it (strong, as Go's mutex hands over to starved waiters); the retry
  ticker fires and delays run out (weak); an outage ends, that is, a post tried
  again and again is answered (strong).  A message Slack rejects for good is
  outside this assumption, and would hold back its incident (a listed hazard).
- `AgentService`: the event loop starts a queued task, delivers a cancellation,
  fires the deadline and resumes the handler (weak).  That an engine, a model or
  an API answers is not assumed: the deadline alone has to be enough.
- `Drilldowns`: steps that wait for nobody are taken and the deadline passes
  (weak).  Replies of models and servers carry no fairness.
- `CaseKnowledge`, `AgentPipeline`, `AlertIntake` and the collectors have no
  liveness property: nothing in them has to happen.

Where a configuration turns the deadlock check off, the system may stop: its
bounds are used up, nobody calls it, or the collector followed has answered.
`AgentPipeline` and `Drilldowns` end in an explicit stutter and are checked for
deadlock.

### 3.5 Refinement

`agent_service` checks `Implements`, that is `Service!Spec` with
`Service == INSTANCE AnalysisService WITH state <- ServiceState, runOf <- conf.runOf`:
`Submit` is a request and closes the older one of its run; a cancel is told the
truth; each of the five ways a task ends is one reply; every await inside is a
stutter.

## 4. The proofs

`AnalysisRuns_proofs` proves, from `ConstantsAssumption` alone and so for any
number of alerts, incidents, slots, attempts, corrections and faults, and for
any timeouts:

| Theorem | States |
|---|---|
| `TypesHold` | every variable keeps its type |
| `SlotsHold` | the semaphore counts the goroutines that hold a slot |
| `OneRunHolds` | a target is analysed by one run at a time |
| `FlagsNestedHolds` | an alert in progress has its incident in progress |
| `DrivenHolds` | without faults, a goroutine works on every analyzing row |
| `LastGoodHolds` | a successful RCA is never replaced by a failure |
| `PinnedHolds` | no attempt rewrites a pinned correction |

The argument is the inductive invariant `Inv`.  Beyond the properties it needs:

- `Numbered`: attempt numbers are handed out in order, so a new row or task takes
  a free place and nothing refers to it yet.
- `WaitersHoldNone`: `acquireAgentSlot` is the only place that takes a slot, so
  it cannot be taken twice.
- `AlertOfIncident`: the alert on a row belongs to the row's incident.  The reaper
  recomputes alert flags from the rows' alerts and incident flags from their
  targets; without this the two could disagree and break the nesting of flags.
- `OperatorRowsRest`: operator rows are complete and no goroutine has one.  It is
  why a late answer cannot hit a pinned row: `Complete` checks neither status
  nor pin.
- `SettledRowsRest`: an attempt between its terminal write and its end has left
  its row at rest unless another attempt took it over; without it the last step
  of a goroutine could leave an analyzing row undriven.

`AnalyzingIsDriven` holds by these and by the guard of reuse (a row is only taken
over at rest).  `OneRunPerTarget` holds because a new row appears only when no
row of the target is analyzing and no step but a trigger starts one.  The two
action properties follow from `Inv` by one case per action.

`AgentService_proofs` proves, from `RegistryAssumption` and `ServiceAssumption`, for
any number of requests, run ids, targets, deployments, packages and revisions:

| Theorem | States |
|---|---|
| `RegistryTypesHold` | the registry holds revisions that exist |
| `SyncedIsInstalledHolds` | after a 200 or a 304, what is installed is what was answered |
| `NeverOlderHolds` | a step never installs an older revision |
| `ImplementsHolds` | `AgentService` implements `AnalysisService` |
| `RankedOnSyncedKnowledgeHolds` | a ranking uses knowledge no older than what was synced when its analysis began |
| `ChangeReadInOwnTimeHolds` | no analysis lists the change card of one that had ended before it began |
| `CitationKeepsItsCardHolds` | a report of an analysis that shares no card prints the id of the observation its conclusion was drawn from |

- The refinement needs `RunningIsNamed`: a live task that was not told to stop
  is the one the registry names under its run id.  It is why popping the entry
  only when it is still one's own matters: without it a handler that resumes
  late would hide its successor from every cancel.  `StepKinds` reduces the
  process to requests, cancels, moves, ends and answers; each is shown to be a
  step of the service or a stutter.
- The registry needs `RegistryOrder`: a conditional request carries the ETag of
  the installed snapshot, which makes a 304 a statement about it.
- The frames need `FramesOK`: whoever had ended when an analysis began is over
  and has left nothing in the cache it could still find (the cache was cleared
  then, and only live analyses write to it); and the floor of an analysis is at
  most what is synced, which only grows.  `FrameStep` reduces a step to the
  frame of the analysis that takes it.
- The citations need `CiteInv`: a list has the analysis' own observation first and
  what it saw again second (`Shaped`); while nobody shares its cards their ids are
  their places in it (`Numbers`); whoever lists a card that another lists is
  marked (`Apart`), which the cache can bring about only through a change card;
  and a change card that is still to be read is nowhere yet (`Nowhere`), so a late
  second read cannot meet itself.

`AgentPipeline_proofs` proves, the first with no assumption on the constants, the
second from `PipelineAssumption`:

| Theorem | States |
|---|---|
| `PublishedIsGroundedHolds` | what `PublishedIsGrounded` says of every report that names a cause |
| `RefutedNeverSynthesizedHolds` | in a run that keeps its time, no family whose latest self-check refuted it is synthesized, where the open world does not reorder a list that more than one round has checked (`InTime`) |

Whatever ranking, signatures, failover, synthesis and repairs hand over, `Publish`
fires only with no failed gate.  The gates do not ask directly whether some card
that may contradict is linked against the leader: either such a card is counted
against it, which fails `Untraced` or the contradiction gate, or its link finds
no card and fails `InvalidLinks` (`NothingAgainst`).

The second needs `RefutedInv`, one part about the run, one about the list and one
about its head:

- `RunInv`: only families of the catalog are ever refuted.  That is a fact of the
  self-check (`VerdictIs`): it refutes where cards contradict a family of the
  catalog or undo a dispositive signature, which only such a family has.  So a step
  that puts an open-world hypothesis or the verdict of no cause at the head puts no
  refuted family there.
- `ListInv`: from the first check on, the list is a ranking (`IsRanking`): it is not
  empty, its families are known, and of two candidates of one family both or
  neither have a dispositive signature, so that what the check says of the one it
  would say of the other.  Every operator that makes a list keeps this (`RankIs`,
  `PromotedIs`, `MergedIs`, `ExcludedIs`, `DroppedIs`, `FailoverIs`).
- `LeaderInv`: in time, a refuted leader is marked `refuted`, which sends it to the
  failover.  A follow-up ranks without the family it was told is refuted, and a
  merge may bring up another leader after the check; it is sound because the merge
  adds no family of the catalog, and because with one round no other family was
  refuted before.  With more rounds that fails, and the code's property with it
  (section 5): the hypothesis `InTime` is the exact place.

The assumption says what the loaders and collectors see to: the catalog is a list
of named families with the hardware fault among them, a typed container state has
a family of the catalog (`_DISPOSITIVE_TYPED_REASONS`), no family is called as the
verdict of no cause is, boards and hypotheses are finite, and rounds are a natural
number.  Sorting, filtering and summing are written without recursion
(`RcaRanking!Ordered` and `Picked`, the points of a family as a sum by weight), so
that what they keep needs no induction over the list: the places of a list are a
finite set in a strict order, and the member at a place is the one with so many
before it (`EveryPlaceIsTaken`).

`Drilldowns_proofs` proves, from `InvestigationAssumption` and `DrillAssumption`, for
any collectors, scopes, queries, agents, rounds and answers:

| Theorem | States |
|---|---|
| `ReadsAreBoundedHolds` | no step starts a read that is in flight or has succeeded, or starts one more often than its receipt allows |
| `NothingSkippedUngroundedHolds` | what is handed over unread is so for grounds of a hypothesis or for the budget, in both passes |
| `EveryProbeIsAssessedHolds` | each declared probe gets exactly one verdict |
| `GapsSurviveHolds` | a failed scope stays a gap until the same scope is answered, while no history has reached its cap (`Uncut`) |

- The assumptions say what the code fixes: a receipt allows two attempts
  (`query_memory.py`, `max_attempts = 2`), a query is not a probe, and what a read
  returns has one of three statuses.
- `EveryProbeIsAssessed` needs `Partitioned`: a probe of an agent waits, is being
  read, or has its verdict, also when the read was claimed by another path.
- The other two need `BInv`.  Its centre is `Counted`: the attempts of a receipt
  cover the starts of its read, except where the read can be claimed no more (it
  has succeeded, or is the floor's, which reads without a claim).  `Receipted`
  ties the receipt to what is in flight and has come back, `Untouched` says the
  whole read of a collector without a result was never started, or is in flight,
  or was cut, and `Excused` adds the reason after the gather.  `FInv` is why the
  floor repeats nothing: it serves a collector the budget cut in its only start.
- `GapsSurvive` needs `GInv`.  Its centre is `Tells`: the newest record a merge goes
  by has, for each scope, the last answer and the gap of that answer, where a
  collector read once has no history yet and the merge makes its first record up
  from `latest_probe_scopes`.  A collector the budget cut has answered nothing, so
  the floor's answer is its first (`Silent`).
- Beyond the cap `GapsSurvive` is false of the code (section 5), so `Uncut` is
  needed; the run that checks it stays below the cap.

`AgentEvidence_proofs` proves, from the caps and ranges being numbers (at least
one line, row and machine to a page) and `EvidenceSpec`, that is, for any alert
and any world:

| Theorem | States |
|---|---|
| `SupportIsOfItsEntityHolds` | no card supports a cause on facts of another entity than it names |
| `SupportPredatesResolutionHolds` | what supports a cause of a resolved alert had happened when it resolved |
| `AbsenceIsCompleteHolds` | an absence is claimed only where nothing to the contrary was there to be read |
| `TargetStaysTheAlertsHolds` | what a lookup adopts is of the object the alert named |

- What they assume of a start: `IsTarget` (a pod name, an id or a time may be
  missing, but a node that is known came from the alert), which every label set
  gives (`LabelsGiveTargets`); and `Observable`, which says that a world has the
  fields its collector reads, that lists are finite, that stamps are numbers and
  not of the future, that no pod has been replaced before the first read, and
  that the objects a cluster lists now are among those that have run.  `CasesStart`
  has TLC check that the instances of `agent_evidence` begin so.
- The target: `Settling` says where what is held comes from.  `PodOfAlert` and
  `NodeOfPod` keep the alert's own names or say that the last lookup found them;
  `SeenRan` ties the node to the pod that was seen there, so a pod and a node are
  adopted together or not at all.
- The cards: `SoundCard` is the three properties for one card; `CollectInv` says
  that all published cards are sound and that the collector at work has its
  invariant.  Those of Loki, Prometheus, Postgres and the change collector say
  little, because they conclude from replies chosen in the same step: there the
  work is in the lemma of each card (`LogCardSound`, `MetricCardSound`,
  `SweepCardSound`, `HistoryCardSound`...), for which a lemma says what each
  reply tells of the world.
- Run:ai keeps answers between steps, and `RightAnswer` says that a usable one to
  a question is about what was asked.  The node collector keeps nothing but its
  nodes, and none is without a name.
- Kubernetes reads in six steps while pods are replaced.  `KubernetesInv` says that
  a stored pod was so of one that is there or gone (`Was`, for which the model
  remembers the gone ones), that a list which is no page holds every event
  (`ListWhole`), that a pod said to be verified stands for its controller
  (`AnchorOK`), and that a log of another pod than the one identified by uid means
  it was replaced (`LogsOK`).  That a list keeps its newest events is used where an
  absence is concluded from one (`NewestKeeps`).
- The latest of finitely many stamps and the least of a set of numbers are obtained
  from `WellFoundedInduction` (`Least`, `Latest`).

`AlertIntake_proofs` proves, from `ConstantsAssumption` and so for any alerts,
keys, windows and retentions and any number of incidents, orders and faults:

| Theorem | States |
|---|---|
| `RowsAgreeHolds` | with no write under way, rows and memory agree but for failed writes |
| `GoneForGoodHolds` | a purged incident never comes back |
| `LastPurgedStaysGoneHolds` | no webhook brings back the episode purged last while its tombstone lasts |

- `IInv` says that no identifier in memory, in a row or about to be written is a
  purged one (`Clean`, `Pending`), which is what `writeMu` is for: `HardDelete`
  finds nothing pending.  New identifiers lie beyond all purged ones.
- `Marked` says that the tombstone of the episode purged last is in memory and in
  its table.  A webhook of that episode therefore meets it in this process and in
  the next; whatever clears it ends the promise too.  `Pending` also says that
  what is about to be written is already in memory, so a write brings nothing
  back that was not there.
- `Agreement` is `RowsAgree` without its premise: a row may differ only while it
  is about to be written, and then the write is what memory holds.  The rows of a
  purged incident's alerts are chosen by the database and the records by the
  map; both choices agree by this invariant.

`CaseKnowledge_proofs` proves, from `CaseKnowledgeAssumption`:

| Theorem | States |
|---|---|
| `HumanEditWinsHolds` | the agent's rewriting never replaces a reviewer's text |
| `ApprovalIsCurrentHolds` | while nothing fails, a superseded approval is about to be released |
| `OneActivePackageHolds` | with `OwnContent`, while nothing fails: one active package of a fingerprint |
| `LiveIsConfirmedHolds` | likewise: what is live is confirmed by its reviews |
| `StatusMatchesRowHolds` | with `OwnContent`, whichever transactions fail: memory and rows agree |
| `ReplacedOnRecordHolds` | likewise: what leaves the review queue is replaced on record |
| `TypesHold` | every variable keeps its type |

- The first group of lemmas says what each operator on books does, field by
  field; the second that no operator writes the text `llm` over another
  (`Texted`, `Kept`), so only `RefineEnd` does, over the text it was asked about.
  `Texted` also says that a reviewer's text is in the row, which a restart needs.
- `OwnContent` says that no two cases compile to the same candidate.  It is a
  premise and not part of `CaseKnowledgeAssumption`: the code does not enforce it,
  and without it four properties fail (section 5).  With it a candidate has one
  supporter (`Rooted`), a package holds a candidate of its case (`Filled`), and a
  shadow candidate has the package of its case to itself (`Shadowed`); these and
  `Single`, which is `OneActivePackage`, are preserved together (`Sound`).  The
  step that needs them most is `PublishSettles`: `Priors` excludes the packages of
  the candidate itself, and it is `Filled` that leaves only the one it replaces.
- `Confirmed` goes beside `Sound` and follows the reviews: a review first
  withdraws what its case no longer confirms, then generates what it does.
- `Settled` adds that rows and memory are equal: the SQL and the code then read
  the same status.  It holds while no transaction fails; a failed one may leave a
  shadow candidate without its package, and a candidate its reviews no longer
  confirm.
- `Matched` is what failed transactions and restarts leave of it: rows equal memory, a
  candidate has the one case it comes from, and what is in a shadow or active
  package is shadow or active itself (`Placed`).  Hence making room for another
  package never supersedes a failed candidate, minting never replaces one, and
  only `Generated` takes one off the queue, after the link to its successor.

`SlackOutbox_proofs` proves, from `ConstantsAssumption`, for any rows, incidents,
attempts, caps and faults:

| Theorem | States |
|---|---|
| `DeliveredNotRepostedHolds` | an acknowledged delivery is not posted again |
| `PostedInOrderHolds` | the messages of an incident reach Slack in the order its results were queued |
| `NumberedInThreadHolds` | while no row has had more attempts than its outbox holds (`Roomy`): the channel shows the thread and the ordinals the store has recorded, and no ordinal twice |
| `AutoFollowUpsSilentHolds` | an automatic result follows only a root that is younger than it |
| `NoticedOnceHolds` | without faults: one notice of a resolution |
| `ResolutionNoticedHolds` | without faults: a resolution with a thread is announced once nothing is under way |
| `TypesHold` | every variable keeps its type, and no outbox names an attempt twice |

- The first group of lemmas reduces a step to what it does to the attempts
  (`AttemptStep`), the entries (`EntryStep`: only the holder of the mutex, at its
  commit, makes one delivered), the channel (`ChannelStep`: one message more, from
  the holder) and the holder (`PosterStep`).  `DeliveredNotReposted` follows from
  these: `Begin` looks again that the entry is pending, and nobody else can settle
  it while the call is out.
- `SilentInv` ties the three places that name a message: the entry's timestamp and
  the holder's are those of a message of that delivery.  Hence what
  `SlackAnalysisDeliveryPredatesThread` reads in the store is true of the channel.
- `NoticeInv` says that what the holder read lies between the last notice and the
  number of resolutions; a notice that is posted is therefore newer than all
  before it.  `ResolutionInv` adds who still has to announce: the last notice, the
  holder, or a goroutine that waits.  Whoever posts the root knows of the
  resolution or leaves it to such a goroutine.
- `Selected` says what trimming keeps of an outbox by the rank of each place, not
  by recursion on the list: the kept places are those of a bijection that keeps
  their order (`OutInv`).  `OrderInv` is then about time only: a delivery that has
  begun is no later than those of its incident that wait and no earlier than those
  that were posted.
- `NumberedInv` has four parts beside the property.  `KeptInv`: an entry is made
  once and stays in its outbox until the incident is purged, which is what `Roomy`
  is for (`NothingTrimmed`: distinct attempts of a row fit into its outbox).
  `TurnInv`: nobody but the holder of the mutex changes a thread or an ordinal,
  and of the deliveries of an incident that wait only the first may have a message.
  `LabelInv`: the message of a delivery that is not settled stands under the
  incident's thread and shows the next ordinal.  `ThreadInv`: a thread hangs from
  an acknowledged message, and its ordinals go up to the incident's.
- Beyond the cap `NumberedInThread` is false of the code (section 5), so `Roomy`
  is needed; the run that checks it, `slack_two_rows`, has the cap of the code.

Only model-checked:

- Liveness (`RunsEnd`, `FlagsClear`, `DeliveriesSettle`, `EveryRequestAnswered`,
  `InvestigationEnds`): under fairness it is out of the prover's reach.

Every invariant and every action property of a listed run is the conclusion of a
theorem.

## 5. Where code and documentation disagree

Each of these has a configuration under which TLC finds the property violated.
They are run by hand (section 8), to leave the listed runs to what the system
promises.

| Property | Configuration | Said | Done |
|---|---|---|---|
| `FloorReached` | `DR_floor.cfg` | `services/investigator.py:1749`: the kubernetes floor is reached although other rounds consumed the window | when the receipts of all missing collectors are still `running` from a cut probe, the gather waits for an empty set and raises before the floor (`:1715`) |
| `RefutedNeverSynthesized` | `AP_refuted.cfg` | `services/pipeline.py:2666`: a refuted leader is not synthesized | out of time, the re-analysis returns before the failover and the refuted leader goes on (`:3977`) |
| `RefutedNeverSynthesized` | `AP_refuted.cfg`, with `Settings <- MCOpenWorld` instead | the same | where open-world hypotheses are authoritative, each round sorts the list again after its leader was checked (`:3551`, `root_cause_ranking.py:452`); a family an earlier round refuted, which this one ranks second by its planes, takes the headline by its score, unchecked and not marked refuted |
| `ResolvedKeepsItsNames` | `AE_prose.cfg` | `services/pipeline.py:416`, `:582`: a resolved incident stays pinned to its historical identity | a workload named in the request's prose and running today is adopted (`:1170`) |
| `NewerRCAKept` | `AR_stated.cfg` | `memory.go:423`: the result of a slower, older run does not overwrite the visible RCA | a row is reused under its id; the answer of an attempt the reaper gave up overwrites the newer attempt's |
| `MetaMatchesRCA` | `AR_stated.cfg`, with this property instead | `store.go:2295`: a bad retry can never clobber a good snapshot | the reaper restores the parked metadata, then the goroutine's own failure merges its metadata over it |
| `FailedNeverPosted` | `SO_failed_posted.cfg` | `docs/ARCHITECTURE.md:212`: failed runs never reach Slack | the entry is pending before the result is known to stand; the worker may post it first |
| `RejectedTerminal` | `CK_stated.cfg` | `evaluation.go:343`: a rejection is terminal | approving another case with the same content a second time writes a fresh candidate over the rejected one |
| `PurgedStaysGone` | `AI_stated.cfg` | `store.go:102`: tombstones keep a purged, still firing incident from reappearing; `docs/DATABASE.md:94`: a later webhook does not restore it | there is one tombstone per fingerprint (`store.go:1160`): purging an older episode after the current one replaces it, and the next resend makes the purged one anew |
| `OnlyTrashIsPurged` | `AI_stated.cfg`, with this property instead | `docs/CONFIGURATION.md:284`: soft-deleted incidents are kept until the retention elapses | a pass deletes what it listed without looking again (`store.go:1259`), also what was restored since |
| `NoTwins` | `AI_stated.cfg`, with this property instead | `store.go:517`: a resend must land on the same incident and not mint an identical twin | after a restart the record a key names is the one read last, in no order (`store_postgres.go:740`); if that is the older one, a resend of the newer episode is taken for news and gets a second incident |
| `ResendIsSilent` | `AI_stated.cfg`, with this property instead | `docs/OPERATING-MODEL.md:65`: a resend "is the same episode, and it is not re-analyzed however long the cooldown has lapsed" | two alerts of one flapping key share a record (`store.go:505`); resends in turn change its `StartsAt` each time and are queued |
| `PublishedWasValidated` | `CK_stated.cfg`, with this property instead | `handlers_knowledge.go:298`: the agent validates the exact shape that is published | an edit during the call is published unvalidated |
| `OneActivePackage` | `CK_stated.cfg`, with this property instead | `docs/DATABASE.md:131`: the prior package of the same fingerprint is retired; `knowledge_test.go:1056`: one active and one retired package | the fresh candidate of `RejectedTerminal` may be published again under its second case, and the first case's package is not looked for because it is of the same candidate (`knowledge.go:1521`) |
| `LiveIsConfirmed` | `CK_stated.cfg`, with this property instead | `evaluation.go:429`: a shared candidate is restored only after every case supporting it passes by itself | a rejection by the validator writes its own reason over the withdrawal's (`knowledge.go:1763`), and a retry then judges the candidate by its first case alone |
| `StatusMatchesRow` | `CK_stated.cfg`, with this property instead | `store_postgres.go:1790`: the maps are updated only after the transaction succeeds | the fresh candidate of `RejectedTerminal` replaces the shared one in memory, while its row only gains the link |

Seen while modelling, without a configuration of their own:

- Runs: the reaper counts the time an attempt waited for its slot, so it may fail
  a run whose call is still under way (`analysis_runs.go:225` says it has given
  up); backfill lists an alert whose latest row failed although another row of
  it is complete (`store.go:2521`); a correction that is not pinned is rewritten
  by the next run of its target (`store.go:1919`, `2157`); a row that a comment
  re-analysed in place is no longer an automatic run, so an alert that fires
  again gets another row inside the cooldown (`store.go:1989`,
  `docs/OPERATING-MODEL.md:54`); a reused row keeps its alert, which may differ
  from the one the new attempt works for, so two rows may be analysing for one
  alert (`store.go:2071`); failing a row that an earlier attempt has completed
  meanwhile drops that result's pending Slack message (`store.go:2437`,
  `docs/OPERATING-MODEL.md:57`).
- Slack: a delivery that was acknowledged before the attempt that made it reports
  (`Notify`) may by then be dropped from a full outbox; it is queued and
  acknowledged a second time, Slack answers with the old message
  (`client_msg_id`), and the ordinal recorded is not the one shown
  (`NumberedInThreadHolds` excludes it).  When as many entries are pending as the
  outbox holds, the trim keeps all of them (`slack.go:415`).
- Approval and knowledge: the release for an older result, coming late, releases
  an approval given in between; with several alerts per incident a release may
  delete the reviews of a text that still exists (`case_snapshot.go:578`); going
  back from the operator's confirmation to a plain one supersedes both
  candidates; a ready candidate stays listed after its mode changed, though it
  can no longer be approved; a retired package leaves its candidate `active`;
  approving an existing case with a failing database leaves its snapshot active
  in memory (`case_snapshot.go:69`); a shared candidate once withdrawn cannot
  return after the reviews of one of its cases were deleted; a review that falls
  back to a shared candidate that failed already supersedes what its case had in
  the queue without being linked to it (`evaluation.go:319` reads the shared
  candidate's status and not its cases); a restart before
  the release keeps the approval of a superseded result.

- Alert intake: a crash between the two rows of a webhook may leave an alert
  without an incident, and every later webhook of its episode panics in the
  handler (`store.go:652`, action `Panic`); a second resolve of a purged episode,
  its tombstone spent by the first, makes a new, resolved incident; an index
  entry that outlived its record lends its id to the next alert.
- Agent service: a cancel sent for an attempt whose run id has been reused
  meanwhile stops the newer one, where `main.py:208` says it must not; an engine
  that hangs until the
  deadline is never recorded as failed, so health stays `ok`; a package
  withdrawn while only unusable ones remain keeps ranking until the next usable
  snapshot; one run may read two knowledge revisions, one for its plan and one
  for its ranking (`services/pipeline.py:1297`, `2157`).
- Ranking: the comment on the open world (`services/root_cause_ranking.py:447`)
  says more than the sort does; a re-analysis that raises after the ids were
  assigned leaves them renumbered.
- Investigator: the receipt of a read that was cut stays `running` for the rest
  of the run, where `query_memory.py` says it avoids permanent gaps; the queries
  of a round complete only together, so one slow query loses the others'
  answers; the gather gives a refused collector no budget stub; the history of
  a collector is cut to its last eight records (`services/investigator.py:2221`)
  and a round may have any number of probes, so with nine of them a failed
  scope's gap goes although no read of it succeeded, where the comment two lines
  below says a gap clears only then; a re-analysis
  in a narrow scope records its gap under the empty scope, so a later whole
  answer clears it (`GapsSurvive` is stated for the first pass); a refuting probe
  after an early stop leaves collectors marked `skipped_sufficient_evidence`; a
  read that covers another resets its attempts.
- Collectors.  Each of these is within what the properties allow, by an
  exception named there: a card of a resolved alert may rest on a snapshot of now
  (`pod_scheduling`, `gpu_deficit`, `ib_port`, `ib_deficit`, `capacity_gap`); a
  container that stopped for good supports whenever it stopped; Prometheus and
  Run:ai judge the epilogue too (`collectors/base.py:113` says causes do not);
  a pod's log is read by name after the pod was identified by uid; a controller
  alert's container card has no pod name; Loki finds a workload by a part of its
  name, and change and Loki cards know no uid; the card of an audit table may
  rest on rows of the workload; an event card carries the alert's first name
  whatever object the alert names the event is of: its pod, workload, node, or
  the one pod its selector finds (`_event_target_identity`,
  `collectors/kubernetes.py:5304`); where the alert's namespace is not read, the
  lists of the control plane alone count as complete (`:2519`, whose docstring
  says "every Event list"), and a pod whose events nobody read has none; lines
  of a flat list from Loki are traced to their pod only inside the incident's
  range, while those of a firing alert count until now
  (`_loki_positive_entry_labels`); a resolved alert that does not say when it
  fired has no range, and a 404 for its workload counts as an absence where the
  comment takes it for recovery (`collectors/runai.py:1042`); events keep only
  their newest page, yet absence
  is claimed from it (`collectors/kubernetes.py:5162`); a metric never scraped
  is an absence; an unanswered `ibstat` on the target counts as a deficit when
  its peers agree (`collectors/system.py:1338`); the node of a pod is
  taken from its events as "newest last", and they are sorted newest first
  (`collectors/kubernetes.py:3699`).

## 6. What is not modelled

- Similarity, embeddings, retrieval by BM25, masking patterns: numeric and
  textual computations whose results no protocol depends on.
- The event hub: events are dropped by design when a subscriber is slow and the
  dashboard reloads what it shows.
- HTTP routing, statistics, OpenAPI, the schema of the database, the frontend,
  charts, ontology loaders and offline evaluation.
- Chat, comments, feedback and the Slack listener, except that they trigger runs.
- Progress messages of a run and the refresh of similar incidents, which touch
  only what no decision reads.
- Of the agent: prompts and the parsing of model output, the wording of reports,
  knowledge-graph enrichment (`services/kg_enrichment.py`), the runbook text, the
  adapters of individual domain tools, `NatEngine.aclose` and process shutdown,
  the response budget of the orchestrator.
- Of the alert intake: `incidentResolve`, alerts without a `StartsAt`, the window
  of automatic analyses.

## 7. The plan

Order: what loses or misstates an RCA first, then what tells people about it,
then what is learnt from it, then what feeds it.

1. Done: `AnalysisRuns`, `SlackOutbox` and `CaseKnowledge` with their proofs; the
   agent's service with its refinement and proofs; its pipeline with its proof,
   investigator and collectors.
2. Done: `AlertIntake` with its proofs.
3. Done: the proofs of `Drilldowns`, of `CitationKeepsItsCard` and of the four
   properties of `AgentEvidence`.
4. Done: what the operators of `RcaRanking` and `RcaReview` keep of a list, and from
   it `RefutedNeverSynthesizedInTime`.
5. Done: the proofs of `PostedInOrder`, `NumberedInThread` and `ReplacedOnRecord`.
6. Composition: `AnalysisRuns` calling `AnalysisService` in place of its free
   choice of answers, which `ImplementsHolds` then carries over to the agent.

Bounds of the new modules follow section 3.2: the least numbers with which two
actors can meet and one fault can come between.

## 8. How to run it

In this directory, for a run of `PROJECT.json`:

    tlc -workers 2 -config AR_one_alert.cfg MCAnalysisRuns.tla
    tlapm AgentService_proofs.tla

and the configurations of section 5 that are not listed:

    tlc -config AR_stated.cfg MCAnalysisRuns.tla
    tlc -config SO_failed_posted.cfg MCSlackOutbox.tla
    tlc -config CK_stated.cfg MCCaseKnowledge.tla
    tlc -config AP_refuted.cfg MCAgentPipeline.tla
    tlc -config AE_prose.cfg MCAgentEvidence.tla
    tlc -config DR_floor.cfg MCDrilldowns.tla
    tlc -config AI_stated.cfg MCAlertIntake.tla

The longest passing run takes two to three minutes on two workers, the proofs
(over eighteen thousand obligations) about twenty minutes on one processor.
