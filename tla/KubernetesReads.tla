--------------------------- MODULE KubernetesReads ---------------------------
(***************************************************************************)
(* The Kubernetes collector: it resolves the pod of a controller alert,    *)
(* sweeps the alert's objects through the MCP server or, when that fails,  *)
(* through the API server, reads logs and a description, and types what it *)
(* saw as cards that may support or refute a cause.                        *)
(*                                                                         *)
(* Servers are not trusted to honour a name, a namespace or a selector:    *)
(* a reply may hold other objects, a page of a list, or a list that does   *)
(* not say whether it is a page.  Facts are named by whose they are: the   *)
(* alert's "pod", its "twin" (the same name, another uid), a "child" of    *)
(* the alert's "workload", a "sibling" with a look-alike name, the "node". *)
(***************************************************************************)
EXTENDS Evidence
LOCAL INSTANCE FiniteSetsExt

CONSTANTS
  EventCap,     \* events kept of one list
  DescribeCap   \* events kept of a description

ASSUME CapAssumption == EventCap \in Nat /\ DescribeCap \in Nat

\* Nodes are read unless the installation keeps the agent inside namespaces.
NodeScope == world.nodes
Max2(x, y) == IF x > y THEN x ELSE y

NoPod == [who |-> None, sym |-> "healthy", at |-> NoTime]
NoAnchor == [pod |-> None, verified |-> FALSE]
Failed == [error |-> "failed", page |-> "last", items |-> {}, pod |-> NoPod]
NoReply == [Failed EXCEPT !.error = "none"]
NotFound == [Failed EXCEPT !.error = "notfound"]
NothingRead == [via |-> None, anchor |-> NoAnchor, sweep |-> <<>>, logs |-> {}, pod |-> NoPod, described |-> {}]

KubernetesInit(a, w) ==
  /\ alert = a /\ world = w
  /\ pc = "resolve" /\ got = NothingRead /\ cards = {} /\ verdict = NoVerdict

\* The alert's pod goes by its role here.  What happened has a time stamp of
\* today at the latest, and nothing has been replaced before the first read.
KubernetesWorld(a, w) ==
  /\ a.pod \in {None, "pod"}
  /\ {"collector", "allowed", "churn", "pod", "pods", "gone", "node", "events", "lines"} \subseteq DOMAIN w
  /\ DOMAIN w.pod = DOMAIN NoPod /\ w.pod.who \in {"pod", "twin", None} /\ w.pod.at \in Nat
  /\ \A p \in w.pods : p.who \in {"child", "sibling"} /\ p.at \in Nat
  /\ w.gone = {} /\ w.lines \subseteq Nat /\ {w.node.since, w.node.heartbeat} \subseteq Nat
  /\ IsFiniteSet(w.events) /\ \A e \in w.events : e.at \subseteq 1..Now

InScope == alert.namespace # None /\ world.allowed
\* A pod object is the alert's when the alert named no uid or named this one.
UidAgrees(p) == alert.uid = None \/ p.who = "pod"

----------------------------------------------------------------------------
(* Which pod stands for a controller: selector first, then ownership. *)

Sick(p) == p.sym # "healthy"

\* Pods of the selector; without one, those owned by the controller or named
\* the way a controller names its pods.
Candidates(selector) == {p \in world.pods : IF selector THEN p.labelled ELSE p.who \in {"child", "sibling"}}

\* Ownership is a chain of uids; a hop that cannot be read owns nothing.
OwnedPods(ps, uidKnown, readable) ==
  IF uidKnown THEN {p \in ps : p.who = "child" /\ readable} ELSE ps

\* The pod that most likely kept the failure: any sick one before any other.
Diagnostic(ps) == IF \E p \in ps : Sick(p) THEN {p \in ps : Sick(p)} ELSE ps

(* A pod selected without proof of ownership is read, but what it shows stays *)
(* context: only a proven owner, or the selector's single pod, is verified.   *)
Anchors(selector, uidKnown, readable) ==
  LET ps == Candidates(selector)
      owned == OwnedPods(ps, uidKnown, readable)
      from == IF owned # {} THEN Diagnostic(owned) ELSE Diagnostic(ps)
  IN  IF ps = {} THEN {NoAnchor}
      ELSE {[pod |-> p.who,
             verified |-> (uidKnown /\ p \in owned) \/ (selector /\ Cardinality(ps) = 1)] : p \in from}

ResolvePod ==
  /\ pc = "resolve"
  /\ pc' = "sweep"
  /\ IF alert.pod # None \/ ~InScope \/ alert.workload = None \/ alert.kind = None
     THEN UNCHANGED got
     ELSE \E selector, uidKnown, readable \in BOOLEAN :
            \E an \in Anchors(selector, uidKnown, readable) : got' = [got EXCEPT !.anchor = an]
  /\ UNCHANGED <<alert, world, cards, verdict>>

----------------------------------------------------------------------------
(* The sweep. *)

EventReads == {"pod_events", "workload_events", "namespace_events", "control_events"}

SweepNames ==
  (IF ~InScope THEN {}
   ELSE (IF alert.pod # None THEN {"pod", "pod_events"} ELSE {"namespace_pods", "namespace_events"})
        \union (IF alert.workload # None THEN {"workload_events"} ELSE {}))
  \union (IF alert.node # None /\ NodeScope THEN {"node"} ELSE {})
  \union (IF world.control THEN {"control_pods", "control_events"} ELSE {})

\* A list: the last page, a page with more to come, or, from an MCP server, a
\* bare list that cannot say which of the two it is.
ListReplies(via) ==
  {[NoReply EXCEPT !.items = world.events]}
  \union {[NoReply EXCEPT !.page = "more", !.items = S] : S \in SUBSET world.events}
  \union (IF via = "mcp" THEN {[NoReply EXCEPT !.page = "bare", !.items = world.events]} ELSE {})

\* A named object: it is there, it is gone, or an MCP server sent another one.
PodReplies(via) ==
  {IF world.pod.who = None THEN NotFound ELSE [NoReply EXCEPT !.pod = world.pod]}
  \union (IF via = "mcp" THEN {[NoReply EXCEPT !.pod = [world.pod EXCEPT !.who = "stranger"]]} ELSE {})

NodeReplies(via) ==
  {[NoReply EXCEPT !.pod.who = "node"]}
  \union (IF via = "mcp" THEN {[NoReply EXCEPT !.pod.who = "othernode"]} ELSE {})

Replies(name, via) ==
  {Failed} \union (IF name \in EventReads THEN ListReplies(via)
                   ELSE IF name = "pod" THEN PodReplies(via)
                   ELSE IF name = "node" THEN NodeReplies(via) ELSE {NoReply})

Swept(via) == OneEach([n \in SweepNames |-> Replies(n, via)])

\* The pod the sweep found, and whether its uid lets logs be read at all.
SweptPod(f) == IF "pod" \in DOMAIN f /\ f["pod"].error = "none" THEN f["pod"].pod ELSE NoPod
LogsAllowed(f) == alert.uid = None \/ SweptPod(f).who = "pod"

AfterSweep(via, f) ==
  /\ got' = [got EXCEPT !.via = via, !.sweep = f,
                        !.pod = IF LogsAllowed(f) THEN SweptPod(f) ELSE NoPod]
  /\ pc' = IF alert.pod # None /\ InScope /\ LogsAllowed(f) THEN "logs" ELSE "describe"

(* A miss is an observation; only when every read failed was it the transport. *)
SweepMcp ==
  /\ pc = "sweep" /\ world.mcp
  /\ \E f \in Swept("mcp") :
       /\ SweepNames = {} \/ \E n \in SweepNames : f[n].error = "none"
       /\ AfterSweep("mcp", f)
  /\ UNCHANGED <<alert, world, cards, verdict>>

\* The deadline all MCP reads share, or a server that answers nothing.
McpFails ==
  /\ \/ pc = "sweep" /\ world.mcp
     \/ pc = "logs" /\ got.via = "mcp"
  /\ pc' = "direct" /\ got' = [NothingRead EXCEPT !.anchor = got.anchor]
  /\ UNCHANGED <<alert, world, cards, verdict>>

SweepDirect ==
  /\ pc = "direct" \/ (pc = "sweep" /\ ~world.mcp)
  /\ world.token
  /\ \E f \in Swept("direct") : AfterSweep("direct", f)
  /\ UNCHANGED <<alert, world, cards, verdict>>

MissingTarget ==
  (IF alert.namespace = None THEN {"namespace"} ELSE {})
  \union (IF alert.pod = None /\ alert.workload = None /\ alert.node = None THEN {"target"} ELSE {})
  \union (IF alert.namespace # None /\ ~world.allowed THEN {"namespace_scope"} ELSE {})

NoToken ==
  /\ pc = "direct" \/ (pc = "sweep" /\ ~world.mcp)
  /\ ~world.token
  /\ verdict' = [status |-> "unavailable", confidence |-> "low", missing |-> MissingTarget \union {"token"}]
  /\ pc' = "done" /\ got' = NothingRead
  /\ UNCHANGED <<alert, world, cards>>

----------------------------------------------------------------------------
(* Logs and the description. *)

(* Logs bounded in time come from the API server when there is a token: only *)
(* its lines carry time stamps Kubernetes wrote.  An MCP tail names no pod   *)
(* unless its reply does, and a bounded one proves no time.                  *)
Bounded == IncidentRange(alert) # NoRange
LogReplies(of) ==
  LET reply(error, source, timed) ==
        [of |-> of, error |-> error \/ of = None, source |-> source, timed |-> timed]
  IN  (IF got.via = "direct" \/ (Bounded /\ world.token) \/ world.token
       THEN {reply(TRUE, TRUE, TRUE), reply(FALSE, TRUE, TRUE)} ELSE {reply(TRUE, FALSE, FALSE)})
      \union (IF got.via = "mcp" /\ ~(Bounded /\ world.token)
              THEN {reply(FALSE, source, ~Bounded) : source \in BOOLEAN} ELSE {})

\* The container's log, and the log of its previous instance once it restarted.
ReadLogs ==
  /\ pc = "logs" /\ alert.pod # None
  /\ \E l \in LogReplies(world.pod.who) : got' = [got EXCEPT !.logs = {l}]
  /\ pc' = "describe"
  /\ UNCHANGED <<alert, world, cards, verdict>>

Newest(S, cap) ==
  LET last(e) == IF e.at = {} THEN 0 ELSE CHOOSE t \in e.at : \A u \in e.at : u <= t
  IN  {e \in S : Cardinality({o \in S : last(o) > last(e)}) < cap}

\* Resolved alerts are read with their epilogue, firing ones up to now.
EventRange == IF Ended(alert) THEN IncidentRange(alert) ELSE CausalRange(alert)
InEventRange(S) == IF EventRange = NoRange THEN S ELSE {e \in S : Overlaps(e.at, EventRange)}

\* Events of one named pod: the name, its kind and namespace, and the uid of
\* the object that was just read.
DescribedEvents(p) ==
  Newest(InEventRange({e \in world.events : e.of = p.who /\ e.where = "target"}), DescribeCap)

(* A description replaces the sweep's pod unless its uid is another one, in  *)
(* which case the replacement is ignored with its events.                    *)
Describe ==
  /\ pc = "describe" /\ alert.pod # None
  /\ IF ~InScope \/ world.pod.who = None
     THEN UNCHANGED got
     ELSE \E eventsRead \in BOOLEAN :
            LET evs == IF eventsRead THEN DescribedEvents(world.pod) ELSE {} IN
            got' = IF UidAgrees(world.pod)
                   THEN [got EXCEPT !.pod = world.pod, !.described = evs] ELSE got
  /\ pc' = "interpret"
  /\ UNCHANGED <<alert, world, cards, verdict>>

DescribeAnchor ==
  /\ pc = "describe" /\ alert.pod = None
  /\ IF got.anchor.pod = None \/ ~InScope
     THEN UNCHANGED got
     ELSE \E p \in {q \in world.pods : q.who = got.anchor.pod}, read \in BOOLEAN :
            \E l \in LogReplies(p.who) :
            got' = [got EXCEPT !.pod = IF read THEN [who |-> p.who, sym |-> p.sym, at |-> p.at] ELSE NoPod,
                               !.described = IF read THEN DescribedEvents(p) ELSE {},
                               !.logs = {l}]
  /\ pc' = "interpret"
  /\ UNCHANGED <<alert, world, cards, verdict>>

----------------------------------------------------------------------------
(* Events: which are kept, which speak for the alert, and what they prove. *)

Entity ==
  CASE alert.pod # None /\ alert.namespace # None -> "pod"
    [] alert.pod = None /\ alert.workload # None /\ alert.namespace # None -> "workload"
    [] OTHER -> IF alert.node # None THEN "node" ELSE None

IsNamedPod(e) == alert.pod # None /\ (e.of = "pod" \/ (e.of = "twin" /\ alert.uid = None))
IsAnchor(e) == got.anchor.pod # None /\ e.of = got.anchor.pod
IsWorkload(e) == alert.workload # None /\ alert.namespace # None /\ e.of = "workload"
IsNode(e) == alert.node # None /\ e.of = "node"

\* The filter without the object's name: any event near the workload.
SpeaksNearby(e) == alert.workload # None /\ e.where = "target"

\* An event whose object is the alert's entity.
Speaks(e) == Entity # None /\ (IsAnchor(e) \/ IsNamedPod(e) \/ IsWorkload(e) \/ IsNode(e))

\* An event worth showing: also one of a pod named like the workload, or one
\* whose message names the alert.
Concerns(e) ==
  \/ IsAnchor(e) \/ IsNamedPod(e) \/ IsWorkload(e) \/ IsNode(e)
  \/ alert.workload # None /\ e.of \in {"child", "sibling", "twin", "pod"}
  \/ e.mentions

\* What a list is filtered down to here, whatever the server was asked for.
Mine(name, S) ==
  CASE name = "pod_events" -> {e \in S : IsNamedPod(e) /\ e.where = "target"}
    [] name \in {"workload_events", "namespace_events"} -> {e \in S : e.where = "target" /\ Concerns(e)}
    [] OTHER -> {e \in S : e.where = "control" /\ Concerns(e)}

KeptEvents(name, r) ==
  IF r.error # "none" THEN {}
  ELSE Newest({e \in InEventRange(Mine(name, r.items)) : e.warns}, EventCap)

\* An event without a time, or one that spans the range without a sample in
\* it, leaves the list incomplete.
TimesComplete(e) ==
  e.at # {} /\ ~((\E t \in e.at : t < EventRange.start) /\ (\E t \in e.at : t > EventRange.end))
TimedList(name, r) ==
  EventRange = NoRange \/ \A e \in Mine(name, r.items) : e.warns => TimesComplete(e)

\* The continue token goes unread.
AnyListComplete(r) == r.error = "none"

ListComplete(r) == IF got.via = "mcp" THEN r.page = "last" ELSE r.page # "more"

SweptEvents == DOMAIN got.sweep \intersect EventReads
QueriesComplete ==
  /\ SweptEvents # {}
  /\ \A n \in SweptEvents : LET r == got.sweep[n] IN
       r.error = "none" /\ ListComplete(r) /\ TimedList(n, r)

WarningEvents ==
  UNION {KeptEvents(n, got.sweep[n]) : n \in SweptEvents} \union {e \in got.described : e.warns}

InCausalRange(S) ==
  IF CausalRange(alert) = NoRange THEN S ELSE {e \in S : Overlaps(e.at, CausalRange(alert))}
CausalEvents ==
  LET S == InCausalRange(WarningEvents) IN IF Entity = None THEN S ELSE {e \in S : Speaks(e)}

IsPodEvent(e) == e.of \in {"pod", "twin", "child", "sibling", "stranger"}
\* Two uids under the alert's pod name, and no uid to tell them apart.
Ambiguous(S) == alert.pod # None /\ alert.uid = None /\ {"pod", "twin"} \subseteq {e.of : e \in S}
Verified(S) ==
  /\ S # {} /\ ~Ambiguous(S)
  /\ \A e \in S : IF alert.pod = None /\ IsPodEvent(e) THEN got.anchor.verified /\ IsAnchor(e) ELSE Speaks(e)

EventBasis(S) == UNION {{[of |-> e.of, at |-> t] : t \in {u \in e.at : Within(u, CausalRange(alert))}} : e \in S}

(* An event is a fact even when another list failed; only a complete, empty, *)
(* bounded answer about a named entity is an absence.                        *)
EventCard(status) ==
  LET S == CausalEvents
      bounded == CausalRange(alert) # NoRange
      is(polarity, coverage) == Card("warning_events", polarity, coverage, Entity, EventBasis(S))
  IN  CASE status = "unavailable" -> is("unavailable", "unknown")
        [] status # "unavailable" /\ Entity = None -> is("unknown", "partial")
        [] status # "unavailable" /\ Entity # None /\ S # {} ->
             is("present", IF bounded /\ Verified(S) THEN "scoped" ELSE "partial")
        [] OTHER -> IF QueriesComplete /\ bounded THEN is("absent", "scoped") ELSE is("unknown", "partial")

----------------------------------------------------------------------------
(* The pod's own state. *)

PodGone ==
  /\ alert.pod # None /\ "pod" \in DOMAIN got.sweep /\ got.sweep["pod"].error = "notfound"

LifecycleCard ==
  LET is(polarity, coverage) == Card("pod_lifecycle", polarity, coverage, alert.pod, {})
  IN  CASE alert.pod = None -> is("unknown", "partial")
        [] alert.pod # None /\ PodGone -> is("present", "partial")
        [] OTHER -> IF "pod" \notin DOMAIN got.sweep \/ got.sweep["pod"].error = "failed"
                    THEN is("unavailable", "unknown") ELSE is("present", "partial")

\* The pod that was read is the alert's, by name, namespace and declared uid.
PodVerified ==
  IF alert.pod = None
  THEN got.anchor.verified /\ got.pod.who = got.anchor.pod
  ELSE got.pod.who = "pod" \/ (got.pod.who = "twin" /\ alert.uid = None)

PodBasis(at) == {[of |-> got.pod.who, at |-> at]}

(* A termination supports when it falls inside the causal range, a waiting   *)
(* container while the alert fires; a container that never restarted and    *)
(* stopped for a machine-reported reason supports whenever it stopped.      *)
ContainerCard ==
  LET p == got.pod
      range == CausalRange(alert)
      diedIn == p.sym \in {"crashed", "stopped"} /\ Within(p.at, range)
      waits == p.sym \in {"waiting", "loop"} /\ range # NoRange /\ Firing(alert)
      stopped == p.sym = "stopped" /\ range # NoRange
  IN  IF PodVerified /\ (diedIn \/ waits \/ stopped)
      THEN Card("container_lifecycle", "present", "scoped", alert.pod, PodBasis(IF waits THEN Now ELSE p.at))
      ELSE Card("container_lifecycle", "unknown", "partial", alert.pod, {})

Unscheduled == PodVerified /\ got.pod.sym = "unscheduled"

\* PodScheduled=False of the verified pod, as it is now.
SchedulingCards ==
  IF Unscheduled THEN {Card("pod_scheduling", "present", "scoped", got.pod.who, PodBasis(Now))} ELSE {}

(* The project's queue is read only for a pod that cannot be scheduled, and   *)
(* supports only while the alert fires and the queue is granted less than it *)
(* asked for.                                                                *)
QueueCards ==
  IF ~Unscheduled \/ alert.project = None \/ world.queue \notin {"short", "granted"} THEN {}
  ELSE IF world.queue = "short" /\ Firing(alert) /\ CausalRange(alert) # NoRange
       THEN {Card("queue_quota", "present", "scoped", "queue", {[of |-> "queue", at |-> Now]})}
       ELSE {Card("queue_quota", "unknown", "partial", "queue", {})}

\* A claim the pod mounts that is not bound blocks it while the alert fires.
ClaimCards ==
  IF alert.pod = None \/ got.pod.who = None \/ world.claim \notin {"Bound", "Pending", "Lost"} THEN {}
  ELSE IF world.claim # "Bound" /\ Firing(alert) /\ EventRange # NoRange
       THEN {Card("storage_claim", "present", "scoped", "claim", {[of |-> "claim", at |-> Now]})}
       ELSE {Card("storage_claim", "unknown", "partial", "claim", {})}

\* A log line counts when its pod and its time stamp are both verified; the
\* card names that pod, be it the alert's or the one that stands for a controller.
LogCards ==
  {LET at == {t \in world.lines : Within(t, CausalRange(alert))}
       is(polarity, coverage) ==
         Card("pod_log", polarity, coverage,
              CASE ~l.source -> None [] l.source /\ l.of = "twin" -> "pod" [] OTHER -> l.of,
              IF polarity = "present" THEN {[of |-> l.of, at |-> t] : t \in at} ELSE {})
   IN  IF l.error THEN is("unavailable", "unknown")
       ELSE IF l.source /\ l.timed /\ at # {} THEN is("present", "scoped") ELSE is("unknown", "partial")
     : l \in got.logs}

----------------------------------------------------------------------------
(* The node. *)

NodeRead == "node" \in DOMAIN got.sweep /\ got.sweep["node"].error = "none"
NodeName == got.sweep["node"].pod.who

(* A condition value is a fact of the incident while the alert still fires,  *)
(* or when one of Kubernetes' own time stamps of it lies in the range.       *)
ConditionCards ==
  IF ~NodeRead THEN {}
  ELSE LET n == world.node
           range == CausalRange(alert)
           stamps == {t \in {n.since, n.heartbeat} : Within(t, range)}
           scoped == n.pressure \in {"True", "False"}
                     /\ ((Firing(alert) /\ range # NoRange) \/ stamps # {})
           basis == {[of |-> NodeName, at |-> t] : t \in IF stamps # {} THEN stamps ELSE {Now}}
       IN  {IF ~scoped THEN Card("node_condition", "unknown", "partial", NodeName, {})
            ELSE Card("node_condition", IF n.pressure = "True" THEN "present" ELSE "absent", "scoped",
                      NodeName, basis)}

\* The incident shows a pending pod: by the alert's name, by an event, or by a
\* pod that is pending now.
ShowsPending ==
  \/ alert.kind = "pending" \/ SweptPod(got.sweep).sym = "unscheduled"
  \/ \E n \in SweptEvents : \E e \in KeptEvents(n, got.sweep[n]) : e.pending

\* A cordon that is there now explains a pending pod of a firing alert.
CordonCards ==
  IF ~NodeRead \/ ~world.node.cordoned THEN {}
  ELSE IF Firing(alert) /\ ShowsPending
       THEN {Card("node_cordon", "present", "scoped", NodeName, {[of |-> NodeName, at |-> Now]})}
       ELSE {Card("node_cordon", "unknown", "partial", NodeName, {})}

----------------------------------------------------------------------------
(* GPUs of the nodes a scheduling event names. *)

(* What Kubernetes reserves for a pod: its containers beside its sidecars, or *)
(* the peak of its init containers; a pod that reserves none is charged the   *)
(* share the Run:ai scheduler wrote on it.                                    *)
PodGpus(p) ==
  LET peak == Max2(p.sidecars, p.sidecars + p.init)
      whole == Max2(p.main + p.sidecars, peak)
  IN  IF whole = 0 THEN p.share ELSE whole

\* Pods assigned to the node and not finished, whatever the selector returned.
GpusRequested(pods) ==
  MapThenSumSet(PodGpus, {p \in pods : p.on = "node" /\ p.phase \notin {"Succeeded", "Failed"}})

\* The node may be answered for by another one; the pods may be a page.
GpuReads == [node : {"node", "othernode", "failed"}, pods : {"all", "page", "failed"}]

GpuWanted(S) == NodeScope /\ \E e \in S : e.pending /\ Entity # None

\* A node with nothing free while the alert fires; free GPUs prove nothing.
GpuCards(S, r) ==
  IF ~GpuWanted(S) THEN {}
  ELSE LET verified == r.node = "node"
           exhausted == r.pods = "all" /\ GpusRequested(world.gpuPods) >= world.gpus
       IN  {IF verified /\ exhausted /\ Firing(alert) /\ EventRange # NoRange
            THEN Card("node_gpus", "present", "scoped", "node", {[of |-> "node", at |-> Now]})
            ELSE Card("node_gpus", IF verified THEN "unknown" ELSE "unavailable", "partial",
                      IF verified THEN "node" ELSE None, {})}

----------------------------------------------------------------------------
(* Custom resources of Run:ai that are not ready now. *)

(* A scan reads at most three pages, an MCP server cannot continue a page,   *)
(* and a kind the cluster does not serve was checked.                        *)
CrdScans ==
  [end : {"failed", "unserved"}, found : {{}}]
  \union [end : {"checked"}, found : {world.crds}]
  \union [end : {"truncated"}, found : SUBSET world.crds]

\* The condition began before the incident ended and still holds, so it held
\* throughout; an object without a namespace is context.
CrdCards(found) ==
  {IF c.namespaced /\ c.since # NoTime /\ CausalRange(alert) # NoRange /\ c.since <= CausalRange(alert).end
   THEN Card("runai_crd_health", "present", "scoped", "crd", {[of |-> "crd", at |-> c.since]})
   ELSE Card("runai_crd_health", "unknown", "partial", "crd", {}) : c \in found}

----------------------------------------------------------------------------
(* The collector's verdict. *)

IsRequired(name) == name \notin {"control_pods", "control_events"}
Required == {n \in DOMAIN got.sweep : IsRequired(n)}
\* Not found is an answer when the API server gave it: an MCP server reports a
\* miss without the status code that would tell.
Answered(n) ==
  \/ got.sweep[n].error = "none"
  \/ got.sweep[n].error = "notfound" /\ n \in {"pod", "node"} /\ got.via = "direct"
Unanswered == {n \in Required : ~Answered(n)}
MissingReads == MissingTarget \union (IF Unanswered # {} THEN {"query"} ELSE {})

BaseStatus ==
  LET some == {n \in DOMAIN got.sweep : got.sweep[n].error = "none"} IN
  CASE Required # {} /\ Unanswered = {} /\ MissingReads = {} -> <<"ok", "high">>
    [] ~(Required # {} /\ Unanswered = {} /\ MissingReads = {}) /\ (some # {} \/ Required # Unanswered) ->
         <<"partial", "medium">>
    [] OTHER -> <<"unavailable", "low">>

\* Every list of pods and events came back, and all of them were empty.
ScopeEmpty ==
  LET lists == DOMAIN got.sweep \intersect (EventReads \union {"namespace_pods", "control_pods"}) IN
  /\ SweptPod(got.sweep).who = None /\ lists # {}
  /\ \A n \in lists : got.sweep[n].error = "none" /\ got.sweep[n].items = {}

\* A resource that is not ready is the finding a missing label denied.
Verdict(found) ==
  LET lifted == found # {} /\ BaseStatus[1] # "ok" /\ Unanswered = {}
  IN  [status |-> IF lifted THEN "ok" ELSE BaseStatus[1],
       confidence |-> CASE ScopeEmpty -> "low" [] ~ScopeEmpty /\ lifted -> "high" [] OTHER -> BaseStatus[2],
       missing |-> MissingReads]

Interpret ==
  /\ pc = "interpret"
  /\ \E scan \in IF world.control THEN CrdScans ELSE {[end |-> "skipped", found |-> {}]},
        r \in IF GpuWanted(CausalEvents) THEN GpuReads ELSE {[node |-> "failed", pods |-> "failed"]} :
       /\ verdict' = Verdict(scan.found)
       /\ cards' = {LifecycleCard, ContainerCard, EventCard(verdict'.status)}
                   \union SchedulingCards \union QueueCards \union ClaimCards \union LogCards
                   \union ConditionCards \union CordonCards
                   \union GpuCards(CausalEvents, r) \union CrdCards(scan.found)
  /\ pc' = "done" /\ got' = NothingRead
  /\ UNCHANGED <<alert, world>>

\* The pod under the alert's name is deleted and another one takes its place
\* while the collector is still reading; world.gone remembers it.
Replaced ==
  /\ pc \in {"sweep", "direct", "logs", "describe"} /\ world.pod.who = "pod" /\ world.churn
  /\ world' = [world EXCEPT !.pod.who = "twin", !.pod.sym = "healthy", !.gone = @ \union {world.pod}]
  /\ UNCHANGED <<alert, pc, got, cards, verdict>>

KubernetesNext ==
  \/ Replaced
  \/ ResolvePod \/ SweepMcp \/ McpFails \/ SweepDirect \/ NoToken
  \/ ReadLogs \/ Describe \/ DescribeAnchor \/ Interpret
=============================================================================
