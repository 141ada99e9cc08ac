------------------------------ MODULE NodeReads ------------------------------
(***************************************************************************)
(* The system collector: the kernel, GPU and InfiniBand state of the       *)
(* alert's node, read from an agent on every node.  It first has to find   *)
(* the node: the target names it, the pod's own events of the incident do, *)
(* the pod that runs now does, or every node is scanned.                   *)
(*                                                                         *)
(* A node is [gpu, journal, snapshot, cas, degraded, attached, capacity]:  *)
(* the times of its error lines in the two logs that can be asked for a    *)
(* time, whether its tails show an error now, its InfiniBand adapters,     *)
(* whether one of their ports is down, and the GPUs the driver and         *)
(* Kubernetes count.                                                       *)
(***************************************************************************)
EXTENDS Evidence

CONSTANT NodeCap   \* nodes scanned when none is known

ASSUME NodeAssumption == NodeCap \in Nat \ {0}

NoScan == [origin |-> None, todo |-> {}, scans |-> {}]

NodeInit(a, w) ==
  /\ alert = a /\ world = w
  /\ pc = "find" /\ got = NoScan /\ cards = {} /\ verdict = NoVerdict

NodeWorld(w) ==
  /\ {"collector", "machines", "placements"} \subseteq DOMAIN w
  /\ None \notin DOMAIN w.machines /\ \A e \in w.placements : e.on # None

Machines == DOMAIN world.machines
Ranged == IncidentRange(alert) # NoRange

----------------------------------------------------------------------------
(* Which node. *)

\* Events of the alert's pod while the incident lasted, newest first; the one
\* taken is the last of that list.
PlacedBy(e) ==
  /\ e.of = alert.pod \/ (alert.pod = "pod" /\ e.of = "twin" /\ alert.uid = None)
  /\ ~Ranged \/ Within(e.at, IncidentRange(alert))
Placements == {e \in world.placements : PlacedBy(e)}
HistoricalNodes == {e.on : e \in {p \in Placements : \A o \in Placements : p.at <= o.at}}

\* A firing alert's pod is looked up as it is now.
LiveNodes == {p.on : p \in {q \in world.live : q.name = alert.pod}} \ {None}

SeeksPod == alert.namespace # None /\ alert.pod # None
FoundNodes == IF Firing(alert) THEN LiveNodes ELSE HistoricalNodes

FindNode(origin, todo) ==
  /\ got' = [got EXCEPT !.origin = origin, !.todo = todo]
  /\ pc' = "scan"
  /\ UNCHANGED <<alert, world, cards, verdict>>

NodeUnconfigured ==
  /\ pc = "find" /\ ~world.agent
  /\ verdict' = [status |-> "unavailable", confidence |-> "low", missing |-> {"url"}]
  /\ pc' = "done"
  /\ UNCHANGED <<alert, world, got, cards>>

\* Named by the alert, or adopted for it when the investigation was planned.
NodeNamed ==
  /\ pc = "find" /\ world.agent /\ alert.node # None
  /\ FindNode(alert.nodeSource, {alert.node})

Unnamed == pc = "find" /\ world.agent /\ alert.node = None

\* A resolved incident never follows the pod of that name that runs today.
NodeFromPod ==
  /\ Unnamed /\ SeeksPod
  /\ \E n \in FoundNodes :
       FindNode(IF Firing(alert) THEN "live_pod" ELSE "historical_pod_event", {n})

\* The nodes with GPUs first, at most NodeCap of them.
Selected ==
  {S \in SUBSET Machines :
     /\ Cardinality(S) = IF Cardinality(Machines) < NodeCap THEN Cardinality(Machines) ELSE NodeCap
     /\ \A n \in S, m \in Machines \ S : world.machines[m].gpu => world.machines[n].gpu}

ScanAll ==
  /\ Unnamed
  /\ \E S \in Selected : FindNode("cluster_scan", S)

\* No node is known and none can be listed.
NoNode ==
  /\ Unnamed
  /\ verdict' = [status |-> "unavailable", confidence |-> "low", missing |-> {"node"}]
  /\ pc' = "done"
  /\ UNCHANGED <<alert, world, got, cards>>

----------------------------------------------------------------------------
(* The reads of one node. *)

\* The alert named the node, or the pod's own events of that time did.
NodeProven == Ranged /\ got.origin \in {"alert", "historical_pod_event"}

(* A journal answers with its lines of the range and says so, answers with    *)
(* whatever it holds without saying so, or fails.  Without a range it is one  *)
(* more tail of today.                                                        *)
JournalReplies(m) ==
  {[error |-> TRUE, echoed |-> FALSE, lines |-> {}],
   [error |-> FALSE, echoed |-> FALSE, lines |-> m.journal]}
  \union (IF Ranged
          THEN {[error |-> FALSE, echoed |-> TRUE,
                 lines |-> {t \in m.journal : Within(t, IncidentRange(alert))}]} ELSE {})
SnapshotReplies(m) == {[error |-> TRUE, hit |-> FALSE], [error |-> FALSE, hit |-> m.snapshot]}
\* What cannot be read counts as no adapter at all.
AdapterReplies(m) ==
  {[error |-> TRUE, cas |-> 0, degraded |-> FALSE],
   [error |-> FALSE, cas |-> m.cas, degraded |-> m.degraded]}
\* The driver's count, when it can be read, and Kubernetes' own.
GpuCounts(m) == {[attached |-> a, capacity |-> c] : a \in {-1, m.attached}, c \in {-1, m.capacity}}

\* Nodes known to have no GPU are not asked about GPUs and adapters.
Probed(m) == got.origin # "cluster_scan" \/ m.gpu
NoAdapter == [error |-> TRUE, cas |-> 0, degraded |-> FALSE]
NoGpuCount == [attached |-> -1, capacity |-> -1]

ScanReplies(m) ==
  {[journal |-> j, snapshot |-> s, adapters |-> a, gpus |-> g] :
     j \in JournalReplies(m), s \in SnapshotReplies(m),
     a \in IF Probed(m) THEN AdapterReplies(m) ELSE {NoAdapter},
     g \in IF Probed(m) THEN GpuCounts(m) ELSE {NoGpuCount}}

\* Adapters of the other GPU nodes; one that fails or has none is no peer.
PeerCounts(n) == {world.machines[m].cas : m \in {p \in Machines \ {n} : world.machines[p].gpu}} \ {0}
PeerReplies(n) == SUBSET PeerCounts(n)

----------------------------------------------------------------------------
(* What they prove. *)

\* A line of the journal counts by its own time stamp.
CausalLines(r) ==
  IF r.journal.echoed THEN {t \in r.journal.lines : Within(t, CausalRange(alert))} ELSE {}
NodeFacts(n, times) == {[of |-> n, at |-> t] : t \in times}

LogReading(r) ==
  CASE Ranged /\ r.journal.error -> <<"unavailable", "unknown">>
    [] Ranged /\ ~r.journal.error ->
         IF CausalLines(r) = {} THEN <<"unknown", "partial">>
         ELSE <<"present", IF NodeProven THEN "scoped" ELSE "partial">>
    [] OTHER -> IF r.journal.error /\ r.snapshot.error THEN <<"unavailable", "unknown">>
                ELSE IF r.journal.lines # {} \/ r.snapshot.hit THEN <<"present", "partial">>
                ELSE <<"unknown", "partial">>

\* A tail taken now is taken inside the incident while the alert fires.
NodeLogCard(n, r) ==
  LET reading == LogReading(r)
      live == reading[1] # "present" /\ Ranged /\ Firing(alert) /\ r.snapshot.hit
  IN  IF live
      THEN Card("node_logs", "present", IF NodeProven THEN "scoped" ELSE "partial", n, NodeFacts(n, {Now}))
      ELSE Card("node_logs", reading[1], reading[2], n,
                IF reading[1] = "present" THEN NodeFacts(n, CausalLines(r)) ELSE {})

GpuDeficitCards(n, r) ==
  IF r.gpus.attached # -1 /\ r.gpus.capacity > r.gpus.attached
  THEN {Card("gpu_deficit", "present", "scoped", n, NodeFacts(n, {Now}))} ELSE {}

PortCards(n, r) ==
  IF r.adapters.cas > 0 /\ r.adapters.degraded
  THEN {Card("ib_port", "present", IF NodeProven THEN "scoped" ELSE "partial", n, NodeFacts(n, {Now}))}
  ELSE {}

\* Fewer adapters than every peer that answered, all of which agree.  What a
\* node has is known when its own read answered.
AdapterCards(n, r, peers) ==
  IF /\ got.origin # "cluster_scan"
     /\ r.adapters.cas > 0 \/ r.gpus.attached > 0
     /\ \E count \in peers : peers = {count} /\ r.adapters.cas < count
  THEN {Card("ib_deficit", "present", IF NodeProven THEN "scoped" ELSE "partial", n,
             IF r.adapters.error THEN {} ELSE NodeFacts(n, {Now}))}
  ELSE {}

NodeVerdict(r) ==
  LET verified == r.journal.echoed
      causal == IF Ranged THEN CausalLines(r) # {} ELSE r.journal.lines # {} \/ r.snapshot.hit
      answered == ~r.journal.error \/ ~r.snapshot.error
      is(status, confidence) ==
        [status |-> status, confidence |-> confidence,
         missing |-> (IF ~answered /\ r.adapters.error THEN {"query"} ELSE {})
                     \union (IF Ranged /\ ~verified THEN {"journal_time_window"} ELSE {})]
  IN  CASE Ranged /\ ~verified -> is("partial", "low")
        [] ~(Ranged /\ ~verified) /\ causal -> IF Ranged /\ ~NodeProven THEN is("partial", "low") ELSE is("ok", "high")
        [] OTHER -> IF r.journal.lines = {} /\ r.snapshot.hit /\ Firing(alert) /\ NodeProven THEN is("ok", "medium")
                    ELSE IF answered \/ ~r.adapters.error THEN is("partial", "low") ELSE is("unavailable", "low")

ScanNode ==
  /\ pc = "scan"
  /\ \E n \in got.todo : \E r \in ScanReplies(world.machines[n]), peers \in PeerReplies(n) :
       /\ cards' = cards \union {NodeLogCard(n, r)} \union GpuDeficitCards(n, r)
                         \union PortCards(n, r) \union AdapterCards(n, r, peers)
       /\ got' = [got EXCEPT !.todo = @ \ {n}, !.scans = @ \union {NodeVerdict(r)}]
  /\ UNCHANGED <<alert, world, pc, verdict>>

\* One node's verdict is the collector's; of a scan of all, the strongest.
ScansConclude ==
  /\ pc = "scan" /\ got.todo = {}
  /\ verdict' =
       LET stated(status) == \E v \in got.scans : v.status = status
           status == IF stated("ok") THEN "ok" ELSE IF stated("partial") THEN "partial" ELSE "unavailable"
       IN  IF got.origin # "cluster_scan" THEN CHOOSE v \in got.scans : TRUE
           ELSE [status |-> status, confidence |-> IF status = "ok" THEN "high" ELSE "low",
                 missing |-> UNION {v.missing : v \in got.scans}]
  /\ pc' = "done"
  /\ UNCHANGED <<alert, world, got, cards>>

----------------------------------------------------------------------------
(* One query of a model, for the alert's own node and no other. *)

NodeQueryCard(node, source, r) ==
  LET lines == IF source = "journal" THEN CausalLines(r) ELSE {}
      hit == IF source = "journal" THEN r.journal.lines # {} ELSE r.snapshot.hit
      windowed == source = "journal" /\ r.journal.echoed
  IN  CASE (IF source = "journal" THEN r.journal.error ELSE r.snapshot.error) ->
             Card("node_query", "unavailable", "unknown", node, {})
        [] ~(IF source = "journal" THEN r.journal.error ELSE r.snapshot.error) /\ hit /\ (windowed => lines # {}) ->
             Card("node_query", "present", IF windowed THEN "scoped" ELSE "partial", node, NodeFacts(node, lines))
        [] OTHER -> Card("node_query", "unknown", "partial", node, {})

NodeQuery ==
  /\ pc = "find" /\ world.asks
  /\ \E node \in Machines, source \in {"journal", "snapshot"} :
       IF ~world.agent \/ alert.node = None \/ node # alert.node
       THEN cards' = {Card("node_query", "unavailable", "unknown", node, {})}
       ELSE \E r \in ScanReplies(world.machines[node]) : cards' = {NodeQueryCard(node, source, r)}
  /\ pc' = "done"
  /\ UNCHANGED <<alert, world, got, verdict>>

NodeNext ==
  \/ NodeUnconfigured \/ NodeNamed \/ NodeFromPod \/ ScanAll \/ NoNode
  \/ ScanNode \/ ScansConclude \/ NodeQuery
=============================================================================
