---------------------------- MODULE AgentService ----------------------------
(***************************************************************************)
(* The agent process: analyses that run side by side on one event loop,    *)
(* their registry for cancellation, the deadline over each, the NAT engine *)
(* they share and fall back from, and the collectors the fallback runs     *)
(* share: one change collector with its cache, and the evidence cards in   *)
(* it that every run numbers in place.  A step is what the loop runs       *)
(* between two awaits.                                                     *)
(***************************************************************************)
EXTENDS Sequences, KnowledgeRegistry

CONSTANTS
    Requests,  \* the calls of POST /analyze
    RunIds,
    Targets,   \* what alerts are about
    Confs      \* deployments: [engine, change, follow, sync: BOOLEAN,
               \*               runOf: Requests -> RunIds or "", target: Requests -> Targets]

\* A blank run id names no run.
ASSUME ServiceAssumption ==
    /\ "" \notin RunIds
    /\ \A c \in Confs : /\ {c.engine, c.change, c.follow, c.sync} \subseteq BOOLEAN
                        /\ c.runOf \in [Requests -> RunIds \cup {""}]
                        /\ c.target \in [Requests -> Targets]

VARIABLES
    conf,
    pc,       \* where each analysis is
    stop,     \* its task was cancelled
    reply,    \* what its caller was told
    running,  \* _running_analyses: run id -> request
    told,     \* what the last cancel of a run was told
    engine,   \* NatEngine: loaded, lock; and the health the orchestrator keeps
    cache,    \* ChangeCollector._cache: target -> the card it holds
    eid,      \* evidence_id of every card
    frame     \* the state of each analysis in the direct pipeline

runVars == <<pc, stop, reply, running, told>>
vars == <<conf, runVars, engine, cache, eid, frame, registryVars>>

\* Cards: what a collector other than change saw, the same observation seen again
\* by a follow-up, and the card of each change read.
Cards == Requests \X {"own", "again", "change1", "change2"}
Observed(c) == IF c[2] = "again" THEN <<c[1], "own">> ELSE c
IsChange(c) == c[2] \in {"change1", "change2"}
None == <<>>

\* list: its cards in order.  cites, meant: the id the leading candidate cites and
\* the observation it was read from.  knows: the knowledge revision the ranking
\* read; floor: the one last synced, and ended: who had ended, when it began.
\* shared: another analysis held a card of its list while it did.
NoFrame == [list |-> <<>>, cites |-> 0, meant |-> None, knows |-> 0, floor |-> 0,
            ended |-> {}, shared |-> FALSE]

Over == {"done", "answered"}
Live(r) == pc[r] \notin {"idle"} \cup Over

Init ==
    /\ conf \in Confs
    /\ pc = [r \in Requests |-> "idle"]
    /\ stop = [r \in Requests |-> FALSE]
    /\ reply = [r \in Requests |-> "none"]
    /\ running = [run \in RunIds |-> None]
    /\ told = [run \in RunIds |-> "none"]
    \* lifespan tries to load the engine before the first request
    /\ \E loaded \in IF conf.engine THEN BOOLEAN ELSE {FALSE} :
         engine = [loaded |-> loaded, lock |-> None,
                   state |-> IF conf.engine /\ ~loaded THEN "failed" ELSE "unknown"]
    /\ cache = [t \in Targets |-> None]
    /\ eid = [c \in Cards |-> 0]
    /\ frame = [r \in Requests |-> NoFrame]
    /\ RegistryInit

At(r, where) == pc[r] = where /\ ~stop[r]
Goto(r, where) == pc' = [pc EXCEPT ![r] = where]
Place(c, seq) == {i \in DOMAIN seq : seq[i] = c}
Holders(c) == {q \in Requests : Place(c, frame[q].list) # {}}
Cached(c) == \E t \in Targets : cache[t] = c

\* The task ends: what only its frame held is gone.
Finish(r, what) ==
    /\ Goto(r, "done")
    /\ reply' = [reply EXCEPT ![r] = what]
    /\ frame' = [frame EXCEPT ![r] = NoFrame]
    /\ eid' = [c \in Cards |-> IF Holders(c) \cup {r} = {r} /\ ~Cached(c) THEN 0 ELSE eid[c]]

-----------------------------------------------------------------------------
(* POST /analyze and POST /analyze/cancel *)

Submit(r) ==
    /\ pc[r] = "idle"
    /\ Goto(r, "queued")
    /\ LET run == conf.runOf[r]
       IN  IF run = "" THEN UNCHANGED <<stop, running>>
           ELSE /\ stop' = [q \in Requests |-> stop[q] \/ (running[run] = <<q>> /\ Live(q))]
                /\ running' = [running EXCEPT ![run] = <<r>>]
    /\ UNCHANGED <<conf, reply, told, engine, cache, eid, frame, registryVars>>

Cancel(run) ==
    /\ \E r \in Requests : conf.runOf[r] = run
    /\ IF \E r \in Requests : running[run] = <<r>> /\ Live(r)
       THEN /\ stop' = [q \in Requests |-> stop[q] \/ running[run] = <<q>>]
            /\ told' = [told EXCEPT ![run] = "cancelling"]
       ELSE /\ told' = [told EXCEPT ![run] = "not_running"]
            /\ UNCHANGED stop
    /\ UNCHANGED <<conf, pc, reply, running, engine, cache, eid, frame, registryVars>>

\* Mutant: the handler forgets the run whoever runs it now.
AnswerForgetsRun(r) ==
    /\ pc[r] = "done"
    /\ Goto(r, "answered")
    /\ running' = [run \in RunIds |-> IF conf.runOf[r] = run THEN None ELSE running[run]]
    /\ UNCHANGED <<conf, stop, reply, told, engine, cache, eid, frame, registryVars>>

\* The handler resumes: it forgets the run only when the run is still its own.
Answer(r) ==
    /\ pc[r] = "done"
    /\ Goto(r, "answered")
    /\ running' = [run \in RunIds |-> IF running[run] = <<r>> THEN None ELSE running[run]]
    /\ UNCHANGED <<conf, stop, reply, told, engine, cache, eid, frame, registryVars>>

Unlocked(r) == [engine EXCEPT !.lock = IF engine.lock = <<r>> THEN None ELSE engine.lock]

\* CancelledError at the await the task is in; no handler on the way swallows it.
TaskCancelled(r) ==
    /\ Live(r) /\ stop[r]
    /\ Finish(r, "stopped")
    /\ engine' = Unlocked(r)
    /\ UNCHANGED <<conf, stop, running, told, cache, registryVars>>

\* Mutant: the deadline is over the direct pipeline only.
TimeOutDirect(r) ==
    /\ Live(r) /\ ~stop[r] /\ pc[r] \notin {"queued", "lock", "load", "engine"}
    /\ Finish(r, "expired")
    /\ engine' = Unlocked(r)
    /\ UNCHANGED <<conf, stop, running, told, cache, registryVars>>

\* asyncio.wait_for: a degraded report, and no engine failure is recorded.
TimeOut(r) ==
    /\ Live(r) /\ ~stop[r] /\ pc[r] # "queued"
    /\ Finish(r, "expired")
    /\ engine' = Unlocked(r)
    /\ UNCHANGED <<conf, stop, running, told, cache, registryVars>>

-----------------------------------------------------------------------------
(* The engine, and the fallback to the direct pipeline *)

\* Mutant: new_state leaves the caches alone.
AfreshKeepsCache(r) ==
    /\ Goto(r, IF conf.change THEN "preplan" ELSE "plan")
    /\ frame' = [frame EXCEPT ![r].ended = {q \in Requests : pc[q] \in Over},
                              ![r].floor = synced]
    /\ UNCHANGED cache

\* new_state: the caches of the shared collectors are cleared.
Afresh(r) ==
    /\ Goto(r, IF conf.change THEN "preplan" ELSE "plan")
    /\ cache' = [t \in Targets |-> None]
    /\ frame' = [frame EXCEPT ![r].ended = {q \in Requests : pc[q] \in Over},
                              ![r].floor = synced]

Start(r) ==
    /\ At(r, "queued")
    /\ IF ~conf.engine THEN Afresh(r)
       ELSE /\ Goto(r, IF engine.loaded THEN "engine" ELSE "lock")
            /\ UNCHANGED <<cache, frame>>
    /\ UNCHANGED <<conf, stop, reply, running, told, engine, eid, registryVars>>

Lock(r) ==
    /\ At(r, "lock") /\ engine.lock = None
    /\ IF engine.loaded THEN Goto(r, "engine") /\ UNCHANGED engine
       ELSE Goto(r, "load") /\ engine' = [engine EXCEPT !.lock = <<r>>]
    /\ UNCHANGED <<conf, stop, reply, running, told, cache, eid, frame, registryVars>>

Load(r) ==
    /\ At(r, "load")
    /\ Goto(r, "engine")
    /\ engine' = [Unlocked(r) EXCEPT !.loaded = TRUE]
    /\ UNCHANGED <<conf, stop, reply, running, told, cache, eid, frame, registryVars>>

\* A run inside the engine builds collectors of its own.
EngineAnswers(r) ==
    /\ At(r, "engine")
    /\ Finish(r, "rca")
    /\ engine' = [engine EXCEPT !.state = "ok"]
    /\ UNCHANGED <<conf, stop, running, told, cache, registryVars>>

\* Loading raises, or the run raises or returns an incomplete response.
EngineFails(r) ==
    /\ At(r, "load") \/ At(r, "engine")
    /\ Afresh(r)
    /\ engine' = [Unlocked(r) EXCEPT !.state = "failed"]
    /\ UNCHANGED <<conf, stop, reply, running, told, eid, registryVars>>

-----------------------------------------------------------------------------
(* The direct pipeline: two reads of the change collector, numbering, citing *)

Entry(r) == cache[conf.target[r]]

\* ChangeCollector.collect: an entry answers at once; a read that comes back "ok"
\* is cached whatever happened to the cache meanwhile.
Store(r, card) ==
    \E ok \in BOOLEAN :
        cache' = IF ok THEN [cache EXCEPT ![conf.target[r]] = card] ELSE cache

\* _preplan_recent_changes, before there is a plan.
PrePlan(r) ==
    /\ At(r, "preplan")
    /\ Goto(r, IF Entry(r) # None THEN "plan" ELSE "preplanRead")
    /\ UNCHANGED <<conf, stop, reply, running, told, engine, cache, eid, frame, registryVars>>

PrePlanRead(r) ==
    /\ At(r, "preplanRead")
    /\ Store(r, <<r, "change1">>)
    /\ Goto(r, "plan")
    /\ UNCHANGED <<conf, stop, reply, running, told, engine, eid, frame, registryVars>>

Board(r, change) == [frame EXCEPT ![r].list = <<<<r, "own">>>> \o change]

\* The cached card; one that another analysis lists is shared from now on.
Take(r, c) ==
    LET parties == IF Holders(c) = {} THEN {} ELSE Holders(c) \cup {r}
    IN  [q \in Requests |-> [Board(r, <<c>>)[q] EXCEPT !.shared = @ \/ q \in parties]]

\* evidence_stage; a plan that resolved another pod or node reads under another key,
\* as if the entry were not there.
Evidence(r) ==
    /\ At(r, "plan")
    /\ IF ~conf.change THEN Goto(r, "rank") /\ frame' = Board(r, <<>>)
       ELSE \/ Entry(r) # None /\ Goto(r, "rank") /\ frame' = Take(r, Entry(r))
            \/ Entry(r) = None /\ Goto(r, "evidenceRead") /\ UNCHANGED frame
    /\ UNCHANGED <<conf, stop, reply, running, told, engine, cache, eid, registryVars>>

EvidenceRead(r) ==
    /\ At(r, "evidenceRead")
    /\ Store(r, <<r, "change2">>)
    /\ Goto(r, "rank")
    /\ frame' = Board(r, <<<<r, "change2">>>>)
    /\ UNCHANGED <<conf, stop, reply, running, told, engine, eid, registryVars>>

\* An entry older than two minutes is as good as none.
Age(t) ==
    /\ cache[t] # None
    /\ cache' = [cache EXCEPT ![t] = None]
    /\ UNCHANGED <<conf, runVars, engine, eid, frame, registryVars>>

Numbered(seq) == [c \in Cards |-> IF Place(c, seq) = {} THEN eid[c]
                                  ELSE CHOOSE i \in Place(c, seq) : TRUE]

\* Cards are numbered in place, and the leading candidate cites one of them.
NumberAndRank(r, seq, revision) ==
    /\ eid' = Numbered(seq)
    /\ \E i \in DOMAIN seq :
         frame' = [frame EXCEPT ![r].list = seq, ![r].cites = i,
                                ![r].meant = Observed(seq[i]), ![r].knows = revision]

\* The end of evidence_stage numbers the cards; rank_stage ranks and reads the
\* knowledge before its first await.
Rank(r) ==
    /\ At(r, "rank")
    /\ NumberAndRank(r, frame[r].list, snap.rev)
    /\ Goto(r, IF conf.follow THEN "follow" ELSE "synth")
    /\ UNCHANGED <<conf, stop, reply, running, told, engine, cache, registryVars>>

\* _reanalyze_once: the follow-up saw an observation again; the merged cards are
\* numbered and ranked anew, and the self-check is awaited.
FollowUp(r) ==
    /\ At(r, "follow")
    /\ NumberAndRank(r, <<<<r, "own">>, <<r, "again">>>> \o Tail(frame[r].list),
                     frame[r].knows)
    /\ Goto(r, "synth")
    /\ UNCHANGED <<conf, stop, reply, running, told, engine, cache, registryVars>>

NoFollowUp(r) ==
    /\ At(r, "follow")
    /\ Goto(r, "synth")
    /\ UNCHANGED <<conf, stop, reply, running, told, engine, cache, eid, frame, registryVars>>

\* One card per observation, the latest in the place of the first.
Latest(r, seq) == IF Place(<<r, "again">>, seq) = {} THEN seq ELSE Tail(seq)

\* Mutant: citations are not carried over a renumbering.
SameId(id, old, new) == id

\* Where an old id leads: to the new id of the card that took its card's place.  An
\* id no card of the list carries stays as it is.
Remapped(id, old, new) ==
    LET carriers == {i \in DOMAIN old : eid[old[i]] = id}
        heir(i)  == CHOOSE j \in DOMAIN new : Observed(new[j]) = Observed(old[i])
    IN  IF carriers = {} THEN id
        ELSE heir(CHOOSE i \in carriers : \A k \in carriers : k <= i)

\* _aggregate_evidence: dedupe, number again, carry the citations over.
Aggregated(r) ==
    LET new == Latest(r, frame[r].list)
    IN  [frame EXCEPT ![r].list = new, ![r].cites = Remapped(@, frame[r].list, new)]

Synthesize(r) ==
    /\ At(r, "synth")
    /\ frame' = Aggregated(r)
    /\ eid' = Numbered(frame'[r].list)
    /\ Goto(r, "publish")
    /\ UNCHANGED <<conf, stop, reply, running, told, engine, cache, registryVars>>

\* The observation the cited id resolves to, by the ids the cards have now.
Resolved(r) ==
    LET seq  == frame[r].list
        hits == {i \in DOMAIN seq : eid[seq[i]] = frame[r].cites}
    IN  IF hits = {} THEN None
        ELSE Observed(seq[CHOOSE i \in hits : \A k \in hits : k <= i])

\* harness_stage copies the cards, and the response leaves.
Report(r) ==
    /\ At(r, "publish")
    /\ Finish(r, "rca")
    /\ UNCHANGED <<conf, stop, running, told, engine, cache, registryVars>>

\* The direct pipeline raises: nothing is behind it, the caller gets a 500.
PipelineFails(r) ==
    /\ pc[r] \in {"plan", "rank", "synth", "publish"} /\ ~stop[r]
    /\ Finish(r, "error")
    /\ UNCHANGED <<conf, stop, running, told, engine, cache, registryVars>>

-----------------------------------------------------------------------------
Sync == /\ conf.sync
        /\ RegistryNext
        /\ UNCHANGED <<conf, runVars, engine, cache, eid, frame>>

Direct(r) ==
    \/ PrePlan(r) \/ PrePlanRead(r) \/ Evidence(r) \/ EvidenceRead(r)
    \/ Rank(r) \/ FollowUp(r) \/ NoFollowUp(r) \/ Synthesize(r) \/ Report(r)
    \/ PipelineFails(r)

Next ==
    \/ \E r \in Requests : \/ Submit(r) \/ Answer(r) \/ TaskCancelled(r) \/ TimeOut(r)
                           \/ Start(r) \/ Lock(r) \/ Load(r)
                           \/ EngineAnswers(r) \/ EngineFails(r) \/ Direct(r)
    \/ \E run \in RunIds : Cancel(run)
    \/ \E t \in Targets : Age(t)
    \/ Sync

\* The event loop runs every task that is ready, and its timers; an engine or an
\* API that never answers is left to the deadline.
Fairness == \A r \in Requests :
    WF_vars(Start(r)) /\ WF_vars(TaskCancelled(r)) /\ WF_vars(TimeOut(r)) /\ WF_vars(Answer(r))

Spec == Init /\ [][Next]_vars /\ Fairness

-----------------------------------------------------------------------------
(* Properties *)

\* What the caller of each request could know of it.
ServiceState == [r \in Requests |-> CASE pc[r] = "idle" -> "new"
                                      [] pc[r] \in Over -> "answered"
                                      [] OTHER          -> IF stop[r] THEN "stopping" ELSE "open"]

\* The registry, the cancellation and the deadline give the caller what the
\* abstract service promises.
Service == INSTANCE AnalysisService WITH runOf <- conf.runOf, state <- ServiceState
Implements == Service!Spec

\* Every call of POST /analyze is answered, whatever the engine, the model, the
\* cluster or another analysis does: the deadline reaches every await.
EveryRequestAnswered ==
    \A r \in Requests : pc[r] = "queued" ~> pc[r] = "answered"

\* clear_cache: "Start each analysis with fresh change evidence."  An analysis may
\* find what an analysis beside it read, never what one that had ended had read.
ChangeReadInOwnTime ==
    \A r \in Requests : \A i \in DOMAIN frame[r].list :
        IsChange(frame[r].list[i]) => frame[r].list[i][1] \notin frame[r].ended

\* The evidence id a report prints is the id of the observation its conclusion was
\* drawn from, however often the cards were merged, deduplicated and numbered, as
\* long as no other analysis numbers the same cards.
CitationKeepsItsCard ==
    \A r \in Requests : pc[r] = "publish" /\ ~frame[r].shared => Resolved(r) = frame[r].meant

\* A ranking uses knowledge at least as new as the last revision the registry called
\* synchronized when the analysis began.
RankedOnSyncedKnowledge ==
    \A r \in Requests : frame[r].cites # 0 => frame[r].knows >= frame[r].floor
=============================================================================
