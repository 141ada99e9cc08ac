---------------------------- MODULE AgentEvidence ----------------------------
(***************************************************************************)
(* The evidence an analysis works with: one collector of the run, or the   *)
(* resolution of its target followed by the collector that depends on it   *)
(* most.  The collectors of a run share nothing but the target, so a       *)
(* behaviour follows one of them; world.collector says which.              *)
(*                                                                         *)
(* A card that is present and scoped may prove a cause by itself, one that *)
(* is absent and scoped refutes it.  The properties are about what such a  *)
(* card rests on: whose facts, of which time, and of how complete a read.  *)
(***************************************************************************)
EXTENDS KubernetesReads, LogReads, MetricReads, ChangeReads, PlatformReads,
        HistoryReads, NodeReads, TargetResolution

\* Whose evidence the behaviour is about.
Of(collector) == world.collector = collector

EvidenceInit(a, w) ==
  CASE w.collector = "kubernetes" -> KubernetesInit(a, w)
    [] w.collector = "loki" -> LokiInit(a, w)
    [] w.collector = "prometheus" -> PrometheusInit(a, w)
    [] w.collector = "change" -> ChangeInit(a, w)
    [] w.collector = "runai" -> RunaiInit(a, w)
    [] w.collector = "postgres" -> PostgresInit(a, w)
    [] w.collector = "system" -> NodeInit(a, w)
    [] OTHER -> ResolutionInit(a, w)

\* What a collector raises is an unavailable answer of it.
CollectSafely ==
  /\ pc = "raised"
  /\ verdict' = [status |-> "unavailable", confidence |-> "low", missing |-> {"collector_exception"}]
  /\ pc' = "done"
  /\ UNCHANGED <<alert, world, got, cards>>

\* The collectors start once the target is settled.
StartCollecting ==
  /\ pc = "planned"
  /\ pc' = "find" /\ got' = NoScan
  /\ UNCHANGED <<alert, world, cards, verdict>>

EvidenceNext ==
  \/ KubernetesNext \/ LokiNext \/ PrometheusNext \/ ChangeNext \/ RunaiNext \/ PostgresNext \/ CollectSafely
  \/ ResolutionNext \/ StartCollecting \/ NodeNext

\* What a collector may meet.
Observable(a, w) ==
  CASE w.collector = "kubernetes" -> KubernetesWorld(a, w)
    [] w.collector = "loki" -> LokiWorld(w)
    [] w.collector = "prometheus" -> "collector" \in DOMAIN w
    [] w.collector = "change" -> ChangeWorld(w)
    [] w.collector = "runai" -> RunaiWorld(w)
    [] w.collector = "postgres" -> PostgresWorld(w)
    [] w.collector = "system" -> NodeWorld(w)
    [] OTHER -> NodeWorld(w) /\ Clustered(w)

\* Any alert, in any world, whose evidence is collected.
EvidenceStart ==
  /\ IsTarget(alert)
  /\ Observable(alert, world)
  /\ EvidenceInit(alert, world)
EvidenceSpec == EvidenceStart /\ [][EvidenceNext]_vars

----------------------------------------------------------------------------
(* Whose facts. *)

\* Pods that stand for a controller: its own, and the only one its selector
\* finds, whoever owns it.
Standing ==
  LET labelled == {p \in world.pods : p.labelled} IN
  {"child"} \union (IF Cardinality(labelled) = 1 THEN {p.who : p \in labelled} ELSE {})

\* Facts that are an entity's own by its name.  A name admits every object of
\* that name unless the alert gave the uid; a Loki line without a pod label is
\* found by a part of the workload's name, and a row of an audit table by either
\* name of the alert.
NamesakesOf(about) ==
  ({about} \ {None}) \union
  CASE about = "pod" /\ alert.uid = None -> {"twin"}
    [] about = "podname" -> {"pod", "twin"}
    [] about = "workload" -> {"child"} \union (IF alert.pod # None THEN {"pod", "twin"} ELSE {})
    [] about = "workloadname" -> {"workload", "namesake"}
    [] about = "app" -> {"pod", "twin", "child", "sibling"}
    [] OTHER -> {}

\* Kubernetes: an event of any object the alert names speaks for the first of
\* them, and a pod that stands for a controller for its card without a name.
SpokenFor(about) ==
  IF ~Of("kubernetes") THEN {}
  ELSE CASE about = None -> Standing
         [] about = "pod" -> {"workload", "node"}
         [] about = "workload" -> Standing \union (IF alert.node # None THEN {"node"} ELSE {})
         [] OTHER -> IF about = "node" /\ alert.pod # None /\ alert.namespace = None THEN NamesakesOf("pod") ELSE {}

ByIdOrNamespace == {"id", "namespace"}

\* A log is read by name, after the pod was identified by another read.
ReplacedSinceRead(c) == c.kind = "pod_log" /\ world.churn /\ world.pod.who = "twin"

\* Lines of a bare list are traced to a pod only in the collected range.
BeyondRange(t) == Of("loki") /\ ~Within(t, IncidentRange(alert))

Owned(c) ==
  Supports(c) /\ c.about \notin ByIdOrNamespace /\ ~ReplacedSinceRead(c) =>
    \A f \in c.basis :
      \/ f.of \in NamesakesOf(c.about) \union SpokenFor(c.about)
      \/ c.kind = "history" /\ f.of \in NamesakesOf("workloadname")
      \/ BeyondRange(f.at)

\* Servers may answer with other objects than they were asked for, and pods
\* are replaced while they are read: no card supports a cause on facts of
\* another entity than the one it names.
SupportIsOfItsEntity == \A c \in cards : Owned(c)

----------------------------------------------------------------------------
(* Of which time. *)

\* Cards about what is so now, with no time stamp asked for: whether a pod can be
\* scheduled, GPU and InfiniBand inventories, and a gap between two metrics.
Untimed == {"pod_scheduling", "gpu_deficit", "ib_port", "ib_deficit", "capacity_gap"}

\* A container that stopped for good supports whenever it stopped.
StoppedForGood(c) ==
  /\ c.kind = "container_lifecycle"
  /\ \E p \in {world.pod} \union world.pods \union world.gone :
       p.sym = "stopped" /\ c.basis = {[of |-> p.who, at |-> p.at]}

\* Metrics and Run:ai's objects are judged over the collected range, epilogue
\* included; everything else by what may have caused the alert.
LatestSupport == IF Of("prometheus") \/ Of("runai") THEN IncidentRange(alert).end ELSE alert.resolved

Timely(c) ==
  Supports(c) /\ c.kind \notin Untimed /\ ~StoppedForGood(c) => \A f \in c.basis : f.at <= LatestSupport

\* Reads go on through an epilogue, and all of them happen after the alert
\* resolved: what supports a cause of a resolved alert had happened by then.
SupportPredatesResolution == Ended(alert) => \A c \in cards : Timely(c)

----------------------------------------------------------------------------
(* Of how complete a read. *)

NewerWarnings(e) == {o \in world.events : o.warns /\ \E t \in o.at : \A u \in e.at : t > u}
MissedEvents ==
  {e \in world.events :
     /\ e.warns /\ e.where = "target" /\ (IsNamedPod(e) \/ IsWorkload(e))
     /\ Overlaps(e.at, CausalRange(alert)) /\ Cardinality(NewerWarnings(e)) < EventCap}
MissedLines == {l \in world.lines : OfTarget(l) /\ l.fails /\ Within(l.at, IncidentRange(alert))}
MissedSamples(q) ==
  IF q \in world.unscraped THEN {} ELSE {t \in Scrapes \intersect world.hot[q] : Within(t, IncidentRange(alert))}
MissedChanges(about) ==
  {c \in world.changes :
     /\ c.src \in SourcesOf("collect") \intersect {"controller", "pod", "condition", "helm"}
     /\ IsChange(c)
     /\ CASE about = "podname" -> ExactPod(c) [] about = "node" -> ExactNode(c) [] OTHER -> ExactController(c)}

\* What a refuting card has to be free of.  A list keeps its newest warnings
\* only, and a repeating event may leave the swept range while it is read.
\* Where no list of the alert's namespace is read, those of the control plane
\* answer for it; and an alert of no known beginning has no end either.
Contradicted(c) ==
  CASE c.kind = "warning_events" -> InScope /\ MissedEvents # {}
    [] c.kind = "error_logs" -> MissedLines # {}
    [] c.kind = "changes" -> MissedChanges(c.about) # {}
    [] c.kind = "history" -> \A tb \in world.tables : TargetRows(tb) # {}
    [] c.kind = "workload_by_id" -> ById # {} \/ (Ended(alert) /\ IncidentRange(alert) # NoRange)
    [] Of("prometheus") -> MissedSamples(c.kind) # {}
    [] OTHER -> FALSE

\* A page, a list that cannot say it is complete, a failed source, a log that
\* may be gone or an unfinished sweep never refutes: an absence is claimed only
\* where nothing to the contrary was there to be read.
Whole(c) == Refutes(c) => ~Contradicted(c)
AbsenceIsComplete == \A c \in cards : Whole(c)

----------------------------------------------------------------------------
(* The target. *)

Paired(pod, node) ==
  \/ \E p \in world.ran : p.name = pod /\ p.on = node
  \/ \E e \in world.placements : e.of = pod /\ e.on = node

\* However lookups fail, stop early or race a replacement: names the alert gave
\* stay, a node adopted with a pod is one that pod ran on, a pod of another name
\* is adopted only off a complete list, without the uid of the old one, and a
\* resolved alert gets no pod or node of today.
TargetStaysTheAlerts ==
  pc = "planned" =>
    LET was == got.declared IN
    /\ was.namespace # None => alert.namespace = was.namespace
    /\ was.node # None => alert.node = was.node /\ alert.nodeSource = "alert"
    /\ was.uid # None /\ alert.pod # was.pod => alert.uid = None
    /\ alert.nodeSource = "plan" => Paired(alert.pod, alert.node)
    /\ alert.pod \notin {was.pod} \union world.occurrences => got.complete
    /\ ~Firing(alert) =>
         /\ alert.node = was.node
         /\ alert.pod = was.pod \/ (was.pod = None /\ world.occurrences = {alert.pod})

\* _apply_effective_target: "Resolved incidents remain pinned to their
\* historical identity and never adopt a live replacement".  A workload that
\* runs today and is named by the request's prose is adopted all the same.
ResolvedKeepsItsNames ==
  pc = "planned" /\ ~Firing(alert) =>
    alert.workload = got.declared.workload /\ alert.namespace = got.declared.namespace
=============================================================================
