--------------------------- MODULE MCAgentEvidence ---------------------------
(***************************************************************************)
(* AgentEvidence for TLC: alerts that fire at minute 10 and may resolve at *)
(* minute 20, and for each collector a few worlds with facts before,       *)
(* during and after the incident, of the target and of what looks like it. *)
(***************************************************************************)
EXTENDS AgentEvidence, TLC

Fired == [NoLabels EXCEPT !.namespace = "ns", !.fired = 10]
PodLabels == [Fired EXCEPT !.pod = "pod"]
UidLabels == [PodLabels EXCEPT !.uid = "u"]
ControllerLabels ==
  [Fired EXCEPT !.controller = "workload", !.controllerKind = "deployment", !.pod = "pod", !.exporter = TRUE]
WorkloadLabels == [Fired EXCEPT !.workload = "workload", !.workloadId = "id", !.project = "project"]
NodeLabels == [NoLabels EXCEPT !.node = "node", !.fired = 10]
Resolved(l) == [l EXCEPT !.resolved = 20]
Both(S) == {Target(l) : l \in S} \union {Target(Resolved(l)) : l \in S}

World(collector) == [collector |-> collector, mcp |-> FALSE, churn |-> FALSE]

----------------------------------------------------------------------------
Event(of, at) == [of |-> of, at |-> at, where |-> "target", warns |-> TRUE, mentions |-> FALSE, pending |-> FALSE]
Sick1(who, sym) == [who |-> who, sym |-> sym, at |-> 15]
Member(who, sym) == [who |-> who, sym |-> sym, at |-> 15, labelled |-> TRUE]

Cluster ==
  World("kubernetes") @@
  [token |-> TRUE, allowed |-> TRUE, control |-> FALSE, nodes |-> TRUE, pods |-> {}, gone |-> {},
   pod |-> Sick1("pod", "crashed"), events |-> {},
   node |-> [pressure |-> "True", since |-> 15, heartbeat |-> 40, cordoned |-> FALSE],
   queue |-> "failed", claim |-> None, lines |-> {15, 22}, gpus |-> 2, gpuPods |-> {}, crds |-> {}]

EventWorlds ==
  {[Cluster EXCEPT !.events = E, !.mcp = mcp] : mcp \in BOOLEAN,
     E \in {{}, {Event("pod", {8}), Event("pod", {22})}, {Event("twin", {15}), Event("pod", {15})},
            {Event("pod", {5, 30})}, {Event("sibling", {15}), Event("workload", {22})}}}
SickWorlds ==
  {[Cluster EXCEPT !.pod = Sick1(who, sym), !.queue = "short", !.claim = "Pending", !.churn = TRUE] :
     who \in {"pod", "twin", None}, sym \in {"crashed", "waiting", "stopped", "unscheduled"}}
  \union {[Cluster EXCEPT !.pod = [Sick1("pod", "stopped") EXCEPT !.at = 22], !.churn = TRUE]}
ControllerWorlds ==
  {[Cluster EXCEPT !.pods = P, !.events = {Event("child", {15}), Event("sibling", {16})}, !.mcp = mcp] :
     mcp \in BOOLEAN,
     P \in {{Member("child", "crashed")}, {Member("child", "healthy"), Member("sibling", "crashed")},
            {[Member("child", "crashed") EXCEPT !.labelled = FALSE]}}}
NodeWorlds ==
  {[Cluster EXCEPT !.node = [pressure |-> p, since |-> t, heartbeat |-> 40, cordoned |-> TRUE], !.mcp = mcp,
                   !.token = FALSE, !.events = {[Event("pod", {15}) EXCEPT !.pending = TRUE]}] :
     p \in {"True", "False", "Unknown"}, t \in {5, 15, 22}, mcp \in BOOLEAN}
GpuWorlds ==
  {[Cluster EXCEPT !.events = {[Event("pod", {15}) EXCEPT !.pending = TRUE]},
                   !.gpuPods = {[on |-> "node", phase |-> phase, main |-> m, sidecars |-> 1, init |-> 0, share |-> 0]}] :
     phase \in {"Running", "Succeeded"}, m \in {0, 1}}
\* Whose events a card may rest on beyond the named pod's.
RelatedWorlds ==
  {[Cluster EXCEPT !.pods = {Member("sibling", "crashed")}, !.events = {Event("node", {15}), Event("sibling", {16})}],
   [Cluster EXCEPT !.control = TRUE, !.allowed = FALSE, !.events = {Event("pod", {15})}],
   [Cluster EXCEPT !.control = TRUE, !.events = {[Event("pod", {16}) EXCEPT !.where = "control"]}]}
CrdWorlds ==
  {[Cluster EXCEPT !.control = TRUE, !.crds = {[namespaced |-> n, since |-> t]}] : n \in BOOLEAN, t \in {15, 22}}

KubernetesCases ==
  (Both({PodLabels, UidLabels}) \X EventWorlds)
  \union (Both({[UidLabels EXCEPT !.project = "project"]}) \X SickWorlds)
  \union (Both({ControllerLabels}) \X ControllerWorlds)
  \union (Both({NodeLabels}) \X NodeWorlds)
  \union (Both({PodLabels}) \X GpuWorlds)
  \union (Both({ControllerLabels}) \X CrdWorlds)
  \union (Both({[ControllerLabels EXCEPT !.node = "node"], [PodLabels EXCEPT !.node = "node", !.namespace = None], PodLabels})
            \X RelatedWorlds)
  \union {<<Target(NodeLabels), [Cluster EXCEPT !.token = FALSE]>>}

----------------------------------------------------------------------------
Line(of, at) == [of |-> of, at |-> at, fails |-> TRUE, affirms |-> TRUE, named |-> FALSE]
Logs ==
  World("loki") @@ [url |-> TRUE, control |-> FALSE, lines |-> {Line("pod", 15), Line("sibling", 15), Line("pod", 22)}]
LogWorlds ==
  {[Logs EXCEPT !.mcp = mcp, !.lines = L] : mcp \in BOOLEAN,
     L \in {{Line("pod", 15), Line("sibling", 15)}, {Line("pod", 22), Line("twin", 30)}, {},
            {Line("pod", 15), Line("sibling", 30)},
            {[Line("pod", 15) EXCEPT !.fails = FALSE]}, {[Line("pod", 15) EXCEPT !.affirms = FALSE]}}}
ControlLogWorlds ==
  {[Logs EXCEPT !.control = TRUE, !.lines = {[Line("control", t) EXCEPT !.named = n], Line("pod", 15)}] :
     t \in {15, 22}, n \in BOOLEAN}

LokiCases ==
  (Both({PodLabels, [Fired EXCEPT !.workload = "workload"]}) \X LogWorlds)
  \union (Both({WorkloadLabels, [PodLabels EXCEPT !.namespace = "platform"]}) \X ControlLogWorlds)
  \union {<<Target(PodLabels), [Logs EXCEPT !.url = FALSE]>>}

----------------------------------------------------------------------------
AllQueries ==
  {"up", "memory", "container_restarts", "namespace_pending", "namespace_restarts",
   "capacity_gap", "requested", "allocated"} \union Control
Metrics ==
  World("prometheus") @@
  [url |-> TRUE, control |-> FALSE, unscraped |-> {}, hot |-> [q \in AllQueries |-> {15}]]
MetricWorlds ==
  {[Metrics EXCEPT !.mcp = mcp, !.unscraped = U, !.hot = [q \in AllQueries |-> H]] :
     mcp \in BOOLEAN, U \in {{}, {"requested"}}, H \in {{}, {15}, {25}, {2}}}

PrometheusCases ==
  (Both({PodLabels}) \X MetricWorlds)
  \union (Both({[NoLabels EXCEPT !.project = "project", !.fired = 10]}) \X {w \in MetricWorlds : ~w.mcp})
  \union (Both({Fired}) \X {[Metrics EXCEPT !.control = TRUE]})
  \union {<<Target(PodLabels), [Metrics EXCEPT !.url = FALSE]>>}

----------------------------------------------------------------------------
Change(of, src, last) == [of |-> of, src |-> src, first |-> last, last |-> last, bad |-> TRUE, pending |-> FALSE]
Changes ==
  World("change") @@
  [token |-> TRUE, allowed |-> TRUE, nodes |-> TRUE, helm |-> FALSE, depends |-> FALSE, asks |-> FALSE, changes |-> {}]
ChangeWorlds ==
  {[Changes EXCEPT !.changes = C, !.churn = TRUE] :
     C \in {{Change("workload", "controller", 15), Change("sibling", "pod", 15)},
            {Change("workload", "controller", 22), Change("pod", "event", 22)},
            {[Change("workload", "controller", 1) EXCEPT !.pending = TRUE], Change("child", "event", 15)},
            {Change("pod", "event", 15), Change("twin", "pod", 16), Change("node", "condition", 15)}, {}}}

ChangeCases ==
  (Both({PodLabels, [PodLabels EXCEPT !.node = "node"], [Fired EXCEPT !.workload = "workload"]}) \X ChangeWorlds)
  \union (Both({NodeLabels}) \X {[w EXCEPT !.nodes = n] : w \in ChangeWorlds, n \in BOOLEAN})
  \union (Both({[Fired EXCEPT !.workload = "workload"]})
            \X {[Changes EXCEPT !.helm = TRUE, !.depends = TRUE, !.asks = asks,
                                !.changes = {Change("workload", "helm", 15), Change("store", "dependency", 15)}]
                : asks \in BOOLEAN})
  \union {<<Target(Fired), [Changes EXCEPT !.token = FALSE]>>}

----------------------------------------------------------------------------
Platform ==
  World("runai") @@
  [api |-> TRUE, creds |-> "oauth", uuid |-> TRUE, byName |-> TRUE, declares |-> TRUE,
   objects |-> {[of |-> "workload", stamps |-> {15, 22}], [of |-> "namesake", stamps |-> {16}]}, scopeStamps |-> {15}]
RunaiCases ==
  (Both({WorkloadLabels, [WorkloadLabels EXCEPT !.fired = NoTime]})
     \X {[Platform EXCEPT !.mcp = mcp, !.churn = TRUE] : mcp \in BOOLEAN})
  \union (Both({[WorkloadLabels EXCEPT !.workloadId = None, !.queue = "queue"]})
            \X {[Platform EXCEPT !.declares = d, !.creds = "static"] : d \in BOOLEAN})
  \union (Both({[NoLabels EXCEPT !.queue = "queue", !.fired = 10]}) \X {[Platform EXCEPT !.mcp = TRUE, !.byName = b] : b \in BOOLEAN})
  \union {<<Target(WorkloadLabels), [Platform EXCEPT !.api = api, !.creds = "none"]>> : api \in BOOLEAN}

----------------------------------------------------------------------------
Row(pod, workload, at) == [pod |-> pod, workload |-> workload, project |-> "project", at |-> at]
Table(columns, rows) == [columns |-> columns, rows |-> rows]
Database ==
  World("postgres") @@ [dsn |-> TRUE, platform |-> TRUE, longTransaction |-> FALSE, tablesMissing |-> FALSE, tables |-> {}]
DatabaseWorlds ==
  {[Database EXCEPT !.mcp = mcp, !.tables = T] : mcp \in BOOLEAN,
     T \in {{Table({"pod", "workload"}, {Row("pod", "workload", 15), Row("other", "namesake", 16), Row("pod", "workload", 22)})},
            {Table({"workload"}, {Row("pod", "workload", 22)}), Table({}, {Row("pod", "workload", 15)}),
             Table({"pod", "project"}, {})}}}
PostgresCases ==
  (Both({[Fired EXCEPT !.project = "project"]})
     \X {[Database EXCEPT !.tables = {Table({"project"}, {Row("other", "other", 15)})}]})
  \union
  (Both({[PodLabels EXCEPT !.workload = "workload", !.project = "project"]}) \X DatabaseWorlds)
  \union {<<Target(PodLabels), [Database EXCEPT !.dsn = FALSE]>>,
          <<Target(PodLabels), [Database EXCEPT !.platform = FALSE, !.tablesMissing = TRUE]>>}

----------------------------------------------------------------------------
Machine(journal, snapshot, cas) ==
  [gpu |-> cas > 0, journal |-> journal, snapshot |-> snapshot, cas |-> cas, degraded |-> snapshot,
   attached |-> 1, capacity |-> 2]
Fleet ==
  World("system") @@
  [agent |-> TRUE, asks |-> FALSE, placements |-> {}, live |-> {}, ran |-> {}, occurrences |-> {}, guess |-> None,
   workloads |-> {}, quantity |-> FALSE, capacity |-> ("node" :> 2 @@ "other" :> 0),
   allocatable |-> ("node" :> 1 @@ "other" :> 0), inventory |-> 1, unhealthy |-> {}, healthFails |-> FALSE,
   machines |-> ("node" :> Machine({5, 15, 22}, TRUE, 1) @@ "other" :> Machine({16}, FALSE, 2)
                 @@ "plain" :> Machine({}, FALSE, 0))]
SystemCases ==
  (Both({NodeLabels}) \X {[Fleet EXCEPT !.asks = asks] : asks \in BOOLEAN})
  \union (Both({PodLabels, UidLabels})
            \X {[Fleet EXCEPT !.placements = {[of |-> "pod", on |-> "node", at |-> 15], [of |-> "twin", on |-> "other", at |-> 8]},
                              !.live = {[name |-> "pod", on |-> "other", sick |-> FALSE]}]})
  \union {<<Target(Fired), [Fleet EXCEPT !.agent = FALSE]>>}

----------------------------------------------------------------------------
Pods(live) == [Fleet EXCEPT !.collector = "plan", !.agent = FALSE, !.live = live, !.ran = live, !.churn = TRUE]
Live(name, on, sick) == [name |-> name, on |-> on, sick |-> sick]
Unnamed1 == [NoLabels EXCEPT !.fired = 10]
Deployments ==
  {[name |-> "store", namespace |-> "ns", phrases |-> {"long", "short"}],
   [name |-> "query", namespace |-> "ns", phrases |-> {"short"}]}
PlanCases ==
  (Both({UidLabels, [PodLabels EXCEPT !.node = "node"]})
     \X {[Pods(live) EXCEPT !.placements = {[of |-> "pod", on |-> "node", at |-> 15]}, !.guess = "workload",
                            !.occurrences = {"occurrence"}] :
         live \in {{Live("pod", "node", TRUE)}, {Live("pod", None, FALSE), Live("generated", "other", TRUE)},
                   {Live("generated", "node", TRUE), Live("generated", "other", FALSE)},
                   {Live("generated", "node", FALSE), Live("prefixed", "other", TRUE), Live("other", "other", TRUE)}}})
  \union (Both({Fired}) \X {[Pods({}) EXCEPT !.occurrences = {"occurrence"}]})
  \union (Both({Unnamed1}) \X {[Pods({}) EXCEPT !.quantity = TRUE, !.unhealthy = U, !.inventory = i] :
                                U \in {{}, {"node"}}, i \in 0..2})
  \union ({Target(Unnamed1)} \X {[Pods({}) EXCEPT !.workloads = Deployments]})
  \union ({Target(PodLabels)} \X {[Pods({Live("pod", "node", TRUE)}) EXCEPT !.agent = TRUE]})

ProseCases == Both({Unnamed1}) \X {[Pods({}) EXCEPT !.workloads = Deployments, !.quantity = q] : q \in BOOLEAN}

----------------------------------------------------------------------------
Cases ==
  KubernetesCases \union LokiCases \union PrometheusCases \union ChangeCases \union RunaiCases
  \union PostgresCases \union SystemCases \union PlanCases

\* Every case is one of the starts the theorems are about.
ASSUME CasesStart == \A case \in Cases \union ProseCases : IsTarget(case[1]) /\ Observable(case[1], case[2])

MCInit == \E case \in Cases : EvidenceInit(case[1], case[2])
MCSpec == MCInit /\ [][EvidenceNext]_vars

ProseInit == \E case \in ProseCases : EvidenceInit(case[1], case[2])
ProseSpec == ProseInit /\ [][EvidenceNext]_vars
=============================================================================
