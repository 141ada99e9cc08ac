------------------------ MODULE AgentEvidence_proofs ------------------------
(***************************************************************************)
(* What an analysis works with, for every alert and every world: lookups   *)
(* that fail, stop early or race a replacement never give an alert a       *)
(* target that is not its own, and whatever servers answer a card that may *)
(* prove or refute a cause rests on facts of its entity, of the right time *)
(* and of a complete read.  Of each collector an invariant says what its   *)
(* replies tell about the world; a lemma per card turns it into the card's *)
(* soundness, and a lemma per collector carries the invariant to the end.  *)
(***************************************************************************)
EXTENDS AgentEvidence, FiniteSetTheorems, WellFoundedInduction, TLAPS

\* Every label set gives a target a behaviour may begin with (extract_alert_target).
LEMMA LabelsGiveTargets ==
  ASSUME NEW l, l.fired \in Nat, l.resolved \in Nat
  PROVE  IsTarget(Target(l))
BY DEF IsTarget, TargetFields, Target

----------------------------------------------------------------------------
(* The steps of the resolution, and all the others. *)

Resolving == {"pin", "prose", "quantity", "look", "list", "choose", "apply"}
Answers == {"declared", "pod", "node", "workload", "namespace", "seen", "seenOn", "listed", "complete"}

\* No collector's step goes back to the resolution or finishes it.
LEMMA CollectorsStayOut ==
  ASSUME \/ KubernetesNext \/ LokiNext \/ PrometheusNext \/ ChangeNext \/ RunaiNext \/ PostgresNext
         \/ CollectSafely \/ StartCollecting \/ NodeNext
  PROVE  pc' \notin Resolving \cup {"planned"}
<1> USE DEF Resolving
<1>1. CASE KubernetesNext
  BY <1>1 DEF KubernetesNext, Replaced, ResolvePod, SweepMcp, McpFails, SweepDirect, NoToken, ReadLogs,
              Describe, DescribeAnchor, Interpret, AfterSweep
<1>2. CASE LokiNext
  BY <1>2 DEF LokiNext, AskLokiMcp, LokiMcpFails, AskLoki, NoLoki, LogsConclude
<1>3. CASE PrometheusNext
  BY <1>3 DEF PrometheusNext, AskPrometheusMcp, PrometheusMcpFails, AskPrometheus, NoPrometheus, MetricsConclude
<1>4. CASE ChangeNext
  BY <1>4 DEF ChangeNext, BeginSweep, NoSweep, BeginQuery, ReadSource, ConcludeSweep, Repeats
<1>5. CASE RunaiNext
  BY <1>5 DEF RunaiNext, RunaiUnconfigured, RunaiUnauthorized, RunaiToken, RunaiMcp, RunaiDirect, RunaiQueue,
              RunaiRetry, RunaiAgain, RunaiConclude, WorkloadDeleted
<1>6. CASE PostgresNext
  BY <1>6 DEF PostgresNext, PostgresMcp, PostgresMcpFails, PostgresDirect, PostgresUnavailable, PostgresRaises,
              PostgresConcludes
<1>7. CASE CollectSafely \/ StartCollecting
  BY <1>7 DEF CollectSafely, StartCollecting
<1>8. CASE NodeNext
  BY <1>8 DEF NodeNext, NodeUnconfigured, NodeNamed, NodeFromPod, ScanAll, NoNode, ScanNode, ScansConclude,
              NodeQuery, FindNode, Unnamed
<1>9. QED
  BY <1>1, <1>2, <1>3, <1>4, <1>5, <1>6, <1>7, <1>8

\* A behaviour that is about one collector does not begin with the resolution.
LEMMA OthersBeginElsewhere ==
  ASSUME EvidenceStart, pc # "pin"
  PROVE  pc \notin Resolving \cup {"planned"}
BY DEF EvidenceStart, EvidenceInit, KubernetesInit, LokiInit, PrometheusInit, ChangeInit, RunaiInit,
       PostgresInit, NodeInit, ResolutionInit, Resolving

----------------------------------------------------------------------------
(* What is held of the target while it is being settled. *)

\* The answers are about the alert as it was declared.
AnswersOK ==
  /\ DOMAIN got = Answers
  /\ got.declared = alert

\* The pod is the alert's, or an occurrence of it, or was taken off a complete
\* list; a resolved alert has no other than its own or the only occurrence.
PodOfAlert ==
  /\ got.pod \in {alert.pod} \cup world.occurrences \/ (pc = "apply" /\ got.complete)
  /\ ~Firing(alert) => got.pod = alert.pod \/ (alert.pod = None /\ world.occurrences = {got.pod})

\* The alert's node stays.  Another one is the node of a deficit, or one the
\* adopted pod ran on, and is adopted only by the last lookup.
NodeOfPod ==
  /\ alert.node # None => got.node = alert.node
  /\ ~Firing(alert) => got.node = alert.node
  /\ \/ got.node \in {None, alert.node}
     \/ got.seen = "deficit" /\ alert.namespace = None
     \/ pc = "apply" /\ Paired(got.pod, got.node)

\* A pod that was read by name ran where it was seen, as did all that are listed.
SeenRan ==
  /\ pc \in {"list", "choose"} => Firing(alert) /\ alert.namespace # None /\ got.pod # None
  /\ \/ got.seen = None
     \/ got.seen = "deficit" /\ alert.namespace = None
     \/ pc \in {"list", "choose", "apply"} /\ \E p \in world.ran : p.name = got.seen /\ p.on = got.seenOn
  /\ got.listed \subseteq world.ran

Settling == AnswersOK /\ PodOfAlert /\ NodeOfPod /\ SeenRan
TargetInv ==
  /\ pc \in Resolving => IsTarget(alert) /\ Clustered(world) /\ Settling
  /\ TargetStaysTheAlerts

\* A step that leaves what is known of pod and node moves on.
Known == <<got.declared, got.pod, got.node, got.seen, got.seenOn, got.listed, got.complete>>

LEMMA KnownSettles ==
  ASSUME Settling, UNCHANGED <<alert, world>>, UNCHANGED Known, DOMAIN got' = Answers,
         \/ pc = "pin" /\ pc' = "prose"
         \/ pc = "prose" /\ pc' = "quantity"
         \/ pc = "quantity" /\ pc' = "look"
         \/ pc = "look" /\ pc' = "apply"
         \/ pc = "look" /\ pc' = "list" /\ Seeks
  PROVE  Settling'
<1>1. /\ got'.declared = got.declared /\ got'.pod = got.pod /\ got'.node = got.node
      /\ got'.seen = got.seen /\ got'.seenOn = got.seenOn /\ got'.listed = got.listed
      /\ got'.complete = got.complete
  BY DEF Known
<1>2. AnswersOK' /\ PodOfAlert'
  BY <1>1 DEF Settling, AnswersOK, PodOfAlert, Firing
<1>3. NodeOfPod'
  BY <1>1 DEF Settling, NodeOfPod, Firing
<1>4. SeenRan'
  BY <1>1 DEF Settling, SeenRan, Firing, Seeks
<1>5. QED
  BY <1>2, <1>3, <1>4 DEF Settling

\* A resolved alert is pinned to its own pod, or to its only occurrence.
LEMMA PinSettles == ASSUME pc \in Resolving, Clustered(world), Settling, Pin PROVE Settling'
<1>1. UNCHANGED <<alert, world>> /\ pc = "pin" /\ pc' = "prose" /\ DOMAIN got = Answers
  BY DEF Pin, Proceed, Settling, AnswersOK
<1>2. CASE Firing(alert)
  <2>1. got' = [got EXCEPT !.workload = world.guess]
    BY <1>2 DEF Pin
  <2>2. UNCHANGED Known /\ DOMAIN got' = Answers
    BY <1>1, <2>1 DEF Known, Answers
  <2>3. QED
    BY <1>1, <2>2, KnownSettles
<1>3. CASE ~Firing(alert)
  <2>1. got' = [got EXCEPT !.pod = HistoricalPod]
    BY <1>3 DEF Pin
  <2>2. /\ DOMAIN got' = Answers /\ got'.pod = HistoricalPod /\ got'.declared = got.declared /\ got'.node = got.node
        /\ got'.seen = got.seen /\ got'.seenOn = got.seenOn /\ got'.listed = got.listed
    BY <1>1, <2>1 DEF Answers
  <2>3. HistoricalPod = alert.pod \/ (alert.pod = None /\ world.occurrences = {HistoricalPod})
    <3>1. CASE alert.pod # None
      BY <3>1 DEF HistoricalPod
    <3>2. CASE alert.pod = None /\ Cardinality(world.occurrences) = 1
      <4>1. PICK o : world.occurrences = {o}
        BY <3>2, FS_Singleton DEF Clustered
      <4>2. QED
        BY <3>2, <4>1 DEF HistoricalPod
    <3>3. CASE alert.pod = None /\ Cardinality(world.occurrences) # 1
      BY <3>3 DEF HistoricalPod
    <3>4. QED
      BY <3>1, <3>2, <3>3
  <2>4. PodOfAlert'
    BY <1>1, <2>2, <2>3 DEF PodOfAlert
  <2>5. NodeOfPod' /\ SeenRan' /\ AnswersOK'
    BY <1>1, <2>2 DEF Settling, AnswersOK, NodeOfPod, SeenRan, Firing
  <2>6. QED
    BY <2>4, <2>5 DEF Settling
<1>4. QED
  BY <1>2, <1>3

\* A sentence names a workload, never a pod or a node.
LEMMA ProseSettles == ASSUME Settling, ReadProse PROVE Settling'
<1>1. UNCHANGED <<alert, world>> /\ pc = "prose" /\ pc' = "quantity" /\ DOMAIN got = Answers
  BY DEF ReadProse, Proceed, Settling, AnswersOK
<1>2. CASE UNCHANGED got
  BY <1>1, <1>2, KnownSettles DEF Known
<1>3. CASE \E x \in UNION {OnlyNamed(listed) : listed \in SUBSET world.workloads} :
              got' = [got EXCEPT !.workload = x.name, !.namespace = x.namespace]
  <2>1. UNCHANGED Known /\ DOMAIN got' = Answers
    BY <1>1, <1>3 DEF Known, Answers
  <2>2. QED
    BY <1>1, <2>1, KnownSettles
<1>4. QED
  BY <1>2, <1>3 DEF ReadProse

\* A node is nominated only for a firing alert that names neither node nor
\* namespace, so no pod is looked up after it.
LEMMA DeficitSettles == ASSUME Settling, DeriveNode PROVE Settling'
<1>1. UNCHANGED <<alert, world>> /\ pc = "quantity" /\ pc' = "look" /\ DOMAIN got = Answers
  BY DEF DeriveNode, Proceed, Settling, AnswersOK
<1>2. CASE UNCHANGED got
  BY <1>1, <1>2, KnownSettles DEF Known
<1>3. CASE got' # got
  <2>1. /\ QuantityAlert /\ Firing(alert)
        /\ \E S \in Nominees : got' = [got EXCEPT !.node = CHOOSE n \in S : TRUE, !.seen = "deficit"]
    BY <1>3 DEF DeriveNode
  <2>2. alert.node = None /\ alert.namespace = None
    BY <2>1 DEF QuantityAlert
  <2>3. /\ DOMAIN got' = Answers /\ got'.pod = got.pod /\ got'.declared = got.declared
        /\ got'.seen = "deficit" /\ got'.seenOn = got.seenOn /\ got'.listed = got.listed
        /\ got'.complete = got.complete
    BY <1>1, <2>1 DEF Answers
  <2>4. NodeOfPod' /\ SeenRan' /\ AnswersOK' /\ PodOfAlert'
    BY <1>1, <2>1, <2>2, <2>3 DEF Settling, AnswersOK, NodeOfPod, SeenRan, PodOfAlert, Firing
  <2>5. QED
    BY <2>4 DEF Settling
<1>4. QED
  BY <1>2, <1>3

\* The read by name and the list see pods that run.
LEMMA LookSettles == ASSUME Settling, Clustered(world), Skip \/ GetPod PROVE Settling'
<1>1. /\ UNCHANGED <<alert, world>> /\ pc = "look" /\ DOMAIN got = Answers
      /\ pc' = "apply" \/ (pc' = "list" /\ Seeks)
  BY DEF Skip, GetPod, Proceed, Settling, AnswersOK
<1>2. CASE UNCHANGED got
  BY <1>1, <1>2, KnownSettles DEF Known
<1>3. CASE GetPod /\ \E p \in Named(world.live) : got' = [got EXCEPT !.seen = p.name, !.seenOn = p.on]
  <2>1. PICK p \in Named(world.live) : got' = [got EXCEPT !.seen = p.name, !.seenOn = p.on]
    BY <1>3
  <2>2. p \in world.ran /\ pc' = "list" /\ Seeks
    BY <1>3, <2>1 DEF Named, Clustered, GetPod, Proceed
  <2>3. /\ DOMAIN got' = Answers /\ got'.pod = got.pod /\ got'.declared = got.declared /\ got'.node = got.node
        /\ got'.seen = p.name /\ got'.seenOn = p.on /\ got'.listed = got.listed /\ got'.complete = got.complete
    BY <1>1, <2>1 DEF Answers
  <2>4. SeenRan'
    BY <1>1, <2>2, <2>3 DEF Settling, SeenRan, Firing, Seeks
  <2>5. NodeOfPod' /\ AnswersOK' /\ PodOfAlert'
    BY <1>1, <2>2, <2>3 DEF Settling, AnswersOK, NodeOfPod, PodOfAlert, Firing, Seeks
  <2>6. QED
    BY <2>4, <2>5 DEF Settling
<1>4. QED
  BY <1>2, <1>3 DEF GetPod, Skip

LEMMA ListSettles == ASSUME Settling, Clustered(world), ListPods PROVE Settling'
<1>1. UNCHANGED <<alert, world>> /\ pc = "list" /\ pc' = "choose" /\ DOMAIN got = Answers
  BY DEF ListPods, Proceed, Settling, AnswersOK
<1>2. PICK S \in SUBSET world.live, complete \in BOOLEAN : got' = [got EXCEPT !.listed = S, !.complete = complete]
  BY DEF ListPods
<1>3. /\ DOMAIN got' = Answers /\ got'.pod = got.pod /\ got'.declared = got.declared /\ got'.node = got.node
      /\ got'.seen = got.seen /\ got'.seenOn = got.seenOn /\ got'.listed = S
  BY <1>1, <1>2 DEF Answers
<1>4. S \subseteq world.ran
  BY DEF Clustered
<1>5. SeenRan'
  BY <1>1, <1>3, <1>4 DEF Settling, SeenRan, Firing
<1>6. NodeOfPod' /\ AnswersOK'
  BY <1>1, <1>3 DEF Settling, AnswersOK, NodeOfPod, Firing
<1>7. PodOfAlert'
  BY <1>1, <1>3, <1>6 DEF Settling, PodOfAlert, SeenRan, Firing
<1>8. QED
  BY <1>5, <1>6, <1>7 DEF Settling

\* The pod is adopted, and with it the node it runs on.
LEMMA AdoptSettles ==
  ASSUME Settling, pc = "choose", pc' = "apply", UNCHANGED <<alert, world>>,
         NEW name, NEW on, Adopt(name, on),
         name \in {alert.pod} \cup world.occurrences \/ got.complete,
         Paired(name, on)
  PROVE  Settling'
<1>1. /\ DOMAIN got = Answers /\ Firing(alert) /\ alert.namespace # None
      /\ got.node \in {None, alert.node}
  BY DEF Settling, AnswersOK, SeenRan, NodeOfPod
<1> DEFINE adopted == IF alert.node # None THEN alert.node ELSE IF on # None THEN on ELSE got.node
<1>2. /\ DOMAIN got' = Answers /\ got'.pod = name /\ got'.declared = got.declared /\ got'.node = adopted
      /\ got'.seen = got.seen /\ got'.seenOn = got.seenOn /\ got'.listed = got.listed
      /\ got'.complete = got.complete
  BY <1>1 DEF Adopt, Answers
<1>3. AnswersOK' /\ PodOfAlert'
  BY <1>1, <1>2 DEF Settling, AnswersOK, PodOfAlert, Firing
<1>4. adopted \in {None, alert.node} \/ adopted = on
  BY <1>1
<1>5. NodeOfPod'
  BY <1>1, <1>2, <1>4 DEF NodeOfPod, Firing, Paired
<1>6. SeenRan'
  BY <1>1, <1>2 DEF Settling, SeenRan
<1>7. QED
  BY <1>3, <1>5, <1>6 DEF Settling

\* The row of the list or the read by name, the replacement off a complete
\* list, or the events of the alert's own pods.
LEMMA ChooseSettles ==
  ASSUME Settling, ChooseExact \/ ChooseReplacement \/ ChooseEvents
  PROVE  Settling'
<1>1. /\ UNCHANGED <<alert, world>> /\ pc = "choose" /\ pc' = "apply" /\ DOMAIN got = Answers
      /\ got.pod \in {alert.pod} \cup world.occurrences /\ got.pod # None /\ got.listed \subseteq world.ran
      /\ alert.namespace # None
  BY DEF ChooseExact, ChooseReplacement, ChooseEvents, Proceed, Settling, AnswersOK, PodOfAlert, SeenRan
<1>2. CASE ChooseExact
  <2>1. CASE Named(got.listed) # {}
    <3>1. PICK p \in Named(got.listed) : Adopt(p.name, p.on)
      BY <1>2, <2>1 DEF ChooseExact
    <3>2. Paired(p.name, p.on) /\ p.name \in {alert.pod} \cup world.occurrences
      BY <1>1, <3>1 DEF Named, Paired
    <3>3. QED
      BY <1>1, <3>1, <3>2, AdoptSettles
  <2>2. CASE Named(got.listed) = {}
    <3>1. got.seen = got.pod /\ Adopt(got.seen, got.seenOn)
      BY <1>2, <2>2 DEF ChooseExact
    <3>2. Paired(got.seen, got.seenOn)
      BY <1>1, <3>1 DEF Settling, SeenRan, Paired
    <3>3. QED
      BY <1>1, <3>1, <3>2, AdoptSettles
  <2>3. QED
    BY <2>1, <2>2
<1>3. CASE ChooseReplacement
  <2>1. PICK p \in Replacements : Adopt(p.name, p.on)
    BY <1>3 DEF ChooseReplacement
  <2>2. p \in got.listed /\ got.complete
    BY <1>3, <2>1 DEF ChooseReplacement, Replacements, Pool, Tier
  <2>3. Paired(p.name, p.on)
    BY <1>1, <2>2 DEF Paired
  <2>4. QED
    BY <1>1, <2>1, <2>2, <2>3, AdoptSettles
<1>4. CASE ChooseEvents /\ UNCHANGED got
  BY <1>1, <1>4 DEF Settling, AnswersOK, PodOfAlert, NodeOfPod, SeenRan, Firing
<1>5. CASE ChooseEvents /\ got' # got
  <2>1. PICK e \in world.placements : e.of \in {got.pod} \cup world.occurrences /\ Adopt(e.of, e.on)
    BY <1>5 DEF ChooseEvents
  <2>2. Paired(e.of, e.on) /\ e.of \in {alert.pod} \cup world.occurrences
    BY <1>1, <2>1 DEF Paired
  <2>3. QED
    BY <1>1, <2>1, <2>2, AdoptSettles
<1>6. QED
  BY <1>2, <1>3, <1>4, <1>5

\* Another pod of the alert's controller starts: what ran has still run.
LEMMA MovesSettle ==
  ASSUME Settling, Clustered(world), PodMoves
  PROVE  Settling' /\ Clustered(world')
<1>1. UNCHANGED <<alert, pc, got>>
  BY DEF PodMoves
<1>2. PICK p \in world.live, on \in {"other", None} :
        LET new == [name |-> "generated", on |-> on, sick |-> FALSE] IN
        world' = [world EXCEPT !.live = (@ \ {p}) \cup {new}, !.ran = @ \cup {new}, !.churn = FALSE]
  BY DEF PodMoves
<1> DEFINE new == [name |-> "generated", on |-> on, sick |-> FALSE]
<1>3. /\ DOMAIN world' = DOMAIN world
      /\ world'.live = (world.live \ {p}) \cup {new} /\ world'.ran = world.ran \cup {new}
      /\ world'.placements = world.placements /\ world'.occurrences = world.occurrences
  BY <1>2 DEF Clustered
<1>4. Clustered(world')
  BY <1>3 DEF Clustered
<1>5. Paired(got.pod, got.node) => Paired(got.pod, got.node)'
  BY <1>1, <1>3 DEF Paired
<1>6. AnswersOK' /\ PodOfAlert' /\ NodeOfPod'
  BY <1>1, <1>3, <1>5 DEF Settling, AnswersOK, PodOfAlert, NodeOfPod, Firing
<1>7. SeenRan'
  BY <1>1, <1>3 DEF Settling, SeenRan, Firing
<1>8. QED
  BY <1>4, <1>6, <1>7 DEF Settling

\* What was settled becomes the target.
LEMMA ApplyKeeps ==
  ASSUME Settling, IsTarget(alert), Apply
  PROVE  TargetStaysTheAlerts'
<1> DEFINE to == alert'
<1>1. /\ pc = "apply" /\ UNCHANGED <<world, got>> /\ got.declared = alert
  BY DEF Apply, Settling, AnswersOK
<1>2. /\ to.pod = got.pod
      /\ to.uid = IF got.pod = alert.pod THEN alert.uid ELSE None
      /\ to.namespace = IF alert.namespace # None THEN alert.namespace ELSE got.namespace
      /\ to.node = IF got.node # None THEN got.node ELSE alert.node
      /\ to.nodeSource = IF got.node \in {None, alert.node} THEN alert.nodeSource
                         ELSE IF got.seen = "deficit" THEN "inventory" ELSE "plan"
      /\ to.resolved = alert.resolved
  BY DEF Apply, IsTarget, TargetFields, Target
<1>3. alert.nodeSource = (IF alert.node # None THEN "alert" ELSE None)
  BY DEF IsTarget
<1>4. alert.node # None => to.node = alert.node /\ to.nodeSource = "alert"
  BY <1>2, <1>3 DEF Settling, NodeOfPod
<1>5. to.nodeSource = "plan" => Paired(to.pod, to.node)
  BY <1>1, <1>2, <1>3 DEF Settling, NodeOfPod, Paired, None
<1>6. to.pod \notin {alert.pod} \cup world.occurrences => got.complete
  BY <1>1, <1>2 DEF Settling, PodOfAlert
<1>7. ~Firing(to) => /\ to.node = alert.node
                     /\ to.pod = alert.pod \/ (alert.pod = None /\ world.occurrences = {to.pod})
  BY <1>1, <1>2 DEF Settling, PodOfAlert, NodeOfPod, Firing
<1>8. UNCHANGED <<world, got>> => (Paired(to.pod, to.node) => Paired(alert.pod, alert.node)')
  BY DEF Paired
<1>9. QED
  BY <1>1, <1>2, <1>4, <1>5, <1>6, <1>7, <1>8 DEF TargetStaysTheAlerts

----------------------------------------------------------------------------
(* The theorem. *)

LEMMA TargetInvInit == EvidenceStart => TargetInv
<1> SUFFICES ASSUME EvidenceStart PROVE TargetInv
  OBVIOUS
<1>1. CASE pc # "pin"
  BY <1>1, OthersBeginElsewhere DEF TargetInv, TargetStaysTheAlerts
<1>2. CASE pc = "pin"
  <2>1. ResolutionInit(alert, world)
    BY <1>2 DEF EvidenceStart, EvidenceInit, KubernetesInit, LokiInit, PrometheusInit, ChangeInit, RunaiInit,
                PostgresInit, NodeInit
  <2>2. Clustered(world)
    BY <1>2 DEF EvidenceStart, Observable, EvidenceInit, KubernetesInit, LokiInit, PrometheusInit, ChangeInit,
                RunaiInit, PostgresInit, NodeInit
  <2>3. /\ DOMAIN got = Answers /\ got.declared = alert /\ got.pod = alert.pod /\ got.node = alert.node
        /\ got.seen = None /\ got.listed = {}
    BY <2>1 DEF ResolutionInit, Unresolved, Answers
  <2>4. Settling
    BY <1>2, <2>3 DEF Settling, AnswersOK, PodOfAlert, NodeOfPod, SeenRan
  <2>5. QED
    BY <1>2, <2>4, <2>2 DEF TargetInv, TargetStaysTheAlerts, EvidenceStart
<1>3. QED
  BY <1>1, <1>2

LEMMA TargetInvStep == TargetInv /\ [EvidenceNext]_vars => TargetInv'
<1> SUFFICES ASSUME TargetInv, [EvidenceNext]_vars PROVE TargetInv'
  OBVIOUS
<1>1. CASE UNCHANGED vars
  BY <1>1 DEF vars, TargetInv, Settling, AnswersOK, PodOfAlert, NodeOfPod, SeenRan, Paired, Firing, Clustered,
              IsTarget, TargetStaysTheAlerts
<1>2. CASE \/ KubernetesNext \/ LokiNext \/ PrometheusNext \/ ChangeNext \/ RunaiNext \/ PostgresNext
           \/ CollectSafely \/ StartCollecting \/ NodeNext
  BY <1>2, CollectorsStayOut DEF TargetInv, TargetStaysTheAlerts
<1>3. CASE ResolutionNext /\ ~Apply
  <2>1. pc \in Resolving /\ pc' # "planned"
    BY <1>3 DEF ResolutionNext, Pin, ReadProse, DeriveNode, Skip, GetPod, ListPods, ChooseExact, ChooseReplacement,
                ChooseEvents, PodMoves, Proceed, Resolving
  <2>2. IsTarget(alert) /\ Clustered(world) /\ Settling
    BY <2>1 DEF TargetInv
  <2>3. UNCHANGED alert /\ (UNCHANGED world \/ PodMoves)
    BY <1>3 DEF ResolutionNext, Pin, ReadProse, DeriveNode, Skip, GetPod, ListPods, ChooseExact, ChooseReplacement,
                ChooseEvents, PodMoves, Proceed
  <2>4. Settling' /\ Clustered(world')
    BY <1>3, <2>1, <2>2, <2>3, PinSettles, ProseSettles, DeficitSettles, LookSettles, ListSettles, ChooseSettles,
       MovesSettle DEF ResolutionNext
  <2>5. QED
    BY <2>1, <2>2, <2>3, <2>4 DEF TargetInv, TargetStaysTheAlerts
<1>4. CASE Apply
  <2>1. pc' = "planned" /\ Settling /\ IsTarget(alert)
    BY <1>4 DEF Apply, TargetInv, Resolving
  <2>2. QED
    BY <1>4, <2>1, ApplyKeeps DEF TargetInv, Resolving
<1>5. QED
  BY <1>1, <1>2, <1>3, <1>4 DEF EvidenceNext

\* However the lookups fail, stop early or race a replacement, an alert keeps
\* the names it gave, and what it gets besides is its own (target_resolution).
THEOREM TargetStaysTheAlertsHolds == EvidenceSpec => []TargetStaysTheAlerts
<1>1. TargetInv => TargetStaysTheAlerts
  BY DEF TargetInv
<1>2. QED
  BY <1>1, TargetInvInit, TargetInvStep, PTL DEF EvidenceSpec

----------------------------------------------------------------------------
(* What makes a card sound, and the times it is about. *)

\* What the three properties say of one card.
SoundCard(c) == Owned(c) /\ (Ended(alert) => Timely(c)) /\ Whole(c)

\* Whose facts may speak for a name.
LEMMA OwnNames ==
  /\ \A n : n # None => n \in NamesakesOf(n)
  /\ {"pod", "twin"} \subseteq NamesakesOf("podname")
  /\ {"workload", "namesake"} \subseteq NamesakesOf("workloadname")
  /\ {"pod", "twin", "child", "sibling"} \subseteq NamesakesOf("app")
  /\ {"workload", "child"} \subseteq NamesakesOf("workload")
  /\ alert.pod # None => {"pod", "twin"} \subseteq NamesakesOf("workload")
  /\ "pod" \in NamesakesOf("pod") /\ (alert.uid = None => "twin" \in NamesakesOf("pod"))
<1>1. \A n : n # None => n \in NamesakesOf(n)
  BY DEF NamesakesOf
<1>2. {"pod", "twin"} \subseteq NamesakesOf("podname")
  BY DEF NamesakesOf
<1>3. {"workload", "namesake"} \subseteq NamesakesOf("workloadname")
  BY DEF NamesakesOf
<1>4. {"pod", "twin", "child", "sibling"} \subseteq NamesakesOf("app")
  BY DEF NamesakesOf
<1>5. /\ {"workload", "child"} \subseteq NamesakesOf("workload")
      /\ alert.pod # None => {"pod", "twin"} \subseteq NamesakesOf("workload")
  BY <1>1 DEF NamesakesOf, None
<1>6. "pod" \in NamesakesOf("pod") /\ (alert.uid = None => "twin" \in NamesakesOf("pod"))
  BY <1>1 DEF NamesakesOf, None
<1>7. QED
  BY <1>1, <1>2, <1>3, <1>4, <1>5, <1>6

\* Of finitely many minutes one is the first, and one is the last.
LEMMA Least == ASSUME NEW T \in SUBSET Nat, T # {} PROVE \E x \in T : \A y \in T : x <= y
<1> DEFINE R == OpToRel(<, Nat)
<1>1. IsWellFoundedOn(R, Nat)
  BY NatLessThanWellFounded
<1>2. \A x, y \in Nat : x < y => <<x, y>> \in R
  BY DEF OpToRel
<1> HIDE DEF R
<1>3. PICK x \in T : \A y \in T : ~(<<y, x>> \in R)
  BY <1>1, WFMin
<1>4. ASSUME NEW y \in T PROVE x <= y
  <2>1. x \in Nat /\ y \in Nat
    OBVIOUS
  <2>2. ~(y < x)
    BY <1>2, <1>3, <2>1
  <2>3. QED
    BY <2>1, <2>2
<1>5. QED
  BY <1>4

LEMMA Latest == ASSUME NEW T \in SUBSET (1..Now), T # {} PROVE \E x \in T : \A y \in T : y <= x
<1> DEFINE D == {Now - t : t \in T}
<1>1. Now \in Nat
  BY EvidenceAssumption
<1>2. D \in SUBSET Nat /\ D # {}
  <2>1. \A t \in T : Now - t \in Nat
    BY <1>1
  <2>2. QED
    BY <2>1
<1>3. PICK d \in D : \A e \in D : d <= e
  BY <1>2, Least
<1>4. PICK x \in T : d = Now - x
  BY <1>3
<1>5. ASSUME NEW y \in T PROVE y <= x
  <2>1. Now - y \in D
    OBVIOUS
  <2>2. Now - x <= Now - y /\ x \in Int /\ y \in Int
    BY <1>3, <1>4, <2>1
  <2>3. QED
    BY <1>1, <2>2
<1>6. QED
  BY <1>5

\* The alert's two time stamps, which the resolution of its target leaves alone.
Dated == alert.fired \in Nat /\ alert.resolved \in Nat

\* The two ranges: causes end with the resolution, reads with the epilogue.
LEMMA RangesNest ==
  ASSUME Dated
  PROVE  /\ alert.fired = NoTime <=> IncidentRange(alert) = NoRange
         /\ alert.fired = NoTime => CausalRange(alert) = NoRange
         /\ CausalRange(alert).start \in Int /\ CausalRange(alert).end \in Int
         /\ IncidentRange(alert).start \in Int /\ IncidentRange(alert).end \in Int
         /\ Ended(alert) => /\ ~Firing(alert)
                            /\ alert.fired # NoTime => CausalRange(alert) # NoRange
                            /\ CausalRange(alert) # NoRange => CausalRange(alert).end = alert.resolved
                            /\ \A t \in Int : Within(t, CausalRange(alert)) => Within(t, IncidentRange(alert))
<1> USE EvidenceAssumption DEF Dated, NoTime, NoRange, IncidentRange, CausalRange, Ended, Firing, Within
<1>1. CASE alert.fired = NoTime
  BY <1>1
<1>2. CASE alert.fired # NoTime
  <2>1. CASE Ended(alert)
    BY <1>2, <2>1
  <2>2. CASE ~Ended(alert)
    BY <1>2, <2>2
  <2>3. QED
    BY <2>1, <2>2
<1>3. QED
  BY <1>1, <1>2

\* A time within the causal range of a resolved alert is before the resolution.
LEMMA CausesPredate ==
  ASSUME Dated, Ended(alert), NEW t, Within(t, CausalRange(alert)), t \in Int \/ CausalRange(alert) # NoRange
  PROVE  t <= alert.resolved
<1>1. CASE CausalRange(alert) = NoRange
  BY <1>1 DEF Within, NoRange
<1>2. CASE CausalRange(alert) # NoRange
  BY <1>2, RangesNest DEF Within
<1>3. QED
  BY <1>1, <1>2

LEMMA TargetsAreDated == ASSUME IsTarget(alert) PROVE Dated
BY DEF IsTarget, Dated

----------------------------------------------------------------------------
(* Loki. *)

LEMMA OneEachAnswers ==
  ASSUME NEW choices, NEW f \in OneEach(choices)
  PROVE  DOMAIN f = DOMAIN choices /\ \A q \in DOMAIN f : f[q] \in choices[q]
BY DEF OneEach

LokiInv == Of("loki") /\ LokiWorld(world) /\ IsTarget(alert)

\* A card of a query of Loki proves what its lines do.
LEMMA LogCardSound ==
  ASSUME LokiInv, NEW via \in {"mcp", "direct"}, NEW f \in LokiReplies(via), NEW q \in DOMAIN f
  PROVE  SoundCard(LogCard(q, f[q], Covered(f)))
<1> DEFINE r == f[q]
           c == LogCard(q, r, Covered(f))
<1>1. q \in LogQueries /\ r \in IF via = "mcp" THEN McpLogReplies(q) ELSE DirectLogReplies(q)
  <2> DEFINE choices == [p \in LogQueries |-> IF via = "mcp" THEN McpLogReplies(p) ELSE DirectLogReplies(p)]
  <2>1. f \in OneEach(choices)
    BY DEF LokiReplies
  <2>2. q \in DOMAIN choices /\ f[q] \in choices[q]
    BY <2>1, OneEachAnswers
  <2>3. QED
    BY <2>2
<1>2. r.lines \subseteq world.lines
  <2>1. \A S : NewestLines(S) \subseteq S
    BY DEF NewestLines
  <2>2. Asked(q) \subseteq world.lines
    BY DEF Asked
  <2>3. r \in McpLogReplies(q) => r.lines \subseteq world.lines
    BY <2>1, <2>2 DEF McpLogReplies, LogReply, LogError
  <2>4. r \in DirectLogReplies(q) => r.lines \subseteq world.lines
    BY <2>1, <2>2 DEF DirectLogReplies, LogReply, LogError
  <2>5. QED
    BY <1>1, <2>3, <2>4
<1>3. r.via = "direct" => r \in DirectLogReplies(q)
  BY <1>1 DEF McpLogReplies, LogReply, LogError
<1>4. /\ q \in {"error_logs", "recent_logs", "workload_history", "control_errors", "control_for_workload"}
      /\ c.kind = q
  BY <1>1 DEF LogQueries, Primary, LogCard, Card
<1>5. ASSUME Supports(c)
      PROVE  /\ c.about = LogEntity(q) /\ LogScope(q, r, Covered(f))
             /\ c.basis = {[of |-> l.of, at |-> l.at] : l \in Affirming(r)} /\ Affirming(r) # {}
             /\ q # "recent_logs"
  BY <1>4, <1>5 DEF LogCard, LogPolarity, Card, Supports, Primary, Correlated
<1>6. \A l \in Affirming(r) : /\ l \in r.lines /\ l.at \in Int /\ Within(l.at, CausalRange(alert))
                              /\ r.timed /\ l.fails /\ l.affirms
  BY <1>2 DEF Affirming, LogTime, Within, LokiInv, LokiWorld
<1>7. Ended(alert) => Timely(c)
  BY <1>5, <1>6, CausesPredate, TargetsAreDated DEF LokiInv, Timely, LatestSupport, Of
<1>8. Owned(c)
  <2> SUFFICES ASSUME Supports(c), c.about \notin ByIdOrNamespace, NEW l \in Affirming(r)
               PROVE  l.of \in NamesakesOf(c.about) \/ BeyondRange(l.at)
    BY <1>5 DEF Owned
  <2>1. q = "error_logs" /\ c.about \in {"podname", "app"}
    BY <1>4, <1>5 DEF LogEntity, ByIdOrNamespace, Correlated
  <2>2. PrimaryScope(r, Covered(f))
    BY <1>5, <2>1 DEF LogScope, Primary, Correlated
  <2>3. l \in Labelled(r) \/ BeyondRange(l.at)
    BY <1>6 DEF Labelled, BeyondRange, LogTime, LokiInv
  <2>4. l \in Labelled(r) => OfTarget(l)
    BY <1>6, <2>2 DEF PrimaryScope, DirectEmpty
  <2>5. OfTarget(l) => l.of \in NamesakesOf(c.about)
    BY <1>5, <2>1, OwnNames DEF OfTarget, LogEntity, Correlated, LokiInv, Of
  <2>6. QED
    BY <2>3, <2>4, <2>5
<1>9. Whole(c)
  <2> SUFFICES ASSUME Refutes(c) PROVE q = "error_logs" /\ MissedLines = {}
    <3>1. q = "recent_logs" \/ q \in Correlated \/ q = "control_errors" => ~Refutes(c)
      BY DEF LogCard, LogPolarity, Card, Refutes, Correlated
    <3>2. QED
      BY <1>4, <3>1 DEF Whole, Contradicted, Correlated, LokiInv, Of
  <2>1. q = "error_logs" /\ r.lines = {} /\ ~r.error /\ LogScope(q, r, Covered(f))
    BY <1>4 DEF LogCard, LogPolarity, Card, Refutes, Primary, Correlated
  <2>2. r.via = "direct"
    BY <2>1 DEF LogScope, PrimaryScope, Primary, Correlated, DirectEmpty, Labelled
  <2>3. NewestLines(Asked(q)) = {}
    BY <1>3, <2>1, <2>2 DEF DirectLogReplies, LogReply, LogError
  <2>4. Asked(q) = {}
    <3> SUFFICES ASSUME Asked(q) # {} PROVE FALSE
      OBVIOUS
    <3>1. Asked(q) \subseteq world.lines
      BY DEF Asked
    <3>2. {l.at : l \in Asked(q)} \in SUBSET (1..Now) /\ {l.at : l \in Asked(q)} # {}
      BY <3>1 DEF LokiInv, LokiWorld
    <3>3. PICK x \in {l.at : l \in Asked(q)} : \A y \in {l.at : l \in Asked(q)} : y <= x
      BY <3>2, Latest
    <3>4. PICK l \in Asked(q) : l.at = x
      BY <3>3
    <3>5. {o \in Asked(q) : o.at > l.at} = {}
      <4>1. \A o \in Asked(q) : o.at \in Int /\ o.at <= l.at
        BY <3>2, <3>3, <3>4
      <4>2. l.at \in Int
        BY <4>1
      <4>3. QED
        BY <4>1, <4>2
    <3>6. l \in NewestLines(Asked(q))
      <4>1. Cardinality({}) < LineCap
        BY FS_EmptySet, LineAssumption
      <4>2. QED
        BY <3>5, <4>1 DEF NewestLines
    <3>7. QED
      BY <2>3, <3>6
  <2>5. MissedLines \subseteq Asked(q)
    BY <2>1 DEF MissedLines, Asked
  <2>6. QED
    BY <2>1, <2>4, <2>5
<1>10. QED
  BY <1>7, <1>8, <1>9 DEF SoundCard

----------------------------------------------------------------------------
(* Prometheus. *)

PrometheusInv == Of("prometheus") /\ IsTarget(alert)

\* What a query of Prometheus returns holds every sample of the incident that was
\* scraped, and dates each of them.
LEMMA MetricReplyHolds ==
  ASSUME PrometheusInv, NEW via \in {"mcp", "direct"}, NEW f \in MetricReplies(via), NEW q \in DOMAIN f
  PROVE  /\ q \in MetricQueries
         /\ \A s \in f[q].series : s.hot \subseteq s.at /\ s.at \subseteq Scrapes
         /\ ~f[q].error /\ IncidentRange(alert) # NoRange => MissedSamples(q) \subseteq Hot(f[q])
<1> DEFINE r == f[q]
           whole == [start |-> 1, end |-> Now]
           renamed == {[s EXCEPT !.of = "other"] : s \in Series(q, AskedRange)}
<1>1. q \in MetricQueries /\ r \in IF via = "mcp" THEN McpMetricReplies(q) ELSE DirectMetricReplies(q)
  <2> DEFINE choices == [p \in MetricQueries |->
                           IF via = "mcp" THEN McpMetricReplies(p) ELSE DirectMetricReplies(p)]
  <2>1. f \in OneEach(choices)
    BY DEF MetricReplies
  <2>2. q \in DOMAIN choices /\ f[q] \in choices[q]
    BY <2>1, OneEachAnswers
  <2>3. QED
    BY <2>2
<1>2. \/ r.error /\ r.series = {}
      \/ r.series \in {Series(q, AskedRange), Series(q, whole), renamed}
  <2>1. r \in DirectMetricReplies(q) => (r.error /\ r.series = {}) \/ r.series = Series(q, AskedRange)
    BY DEF DirectMetricReplies, MetricReply, MetricError
  <2>2. r \in McpMetricReplies(q) =>
          \/ r \in DirectMetricReplies(q)
          \/ r.series \in {Series(q, whole), renamed}
    BY DEF McpMetricReplies, MetricReply
  <2>3. QED
    BY <1>1, <2>1, <2>2
<1>3. ASSUME NEW range, NEW s \in Series(q, range)
      PROVE  s.hot \subseteq s.at /\ s.at \subseteq Scrapes /\ "of" \in DOMAIN s /\ DOMAIN s = {"of", "at", "hot"}
  BY <1>3 DEF Series
<1>4. ASSUME NEW s \in renamed PROVE s.hot \subseteq s.at /\ s.at \subseteq Scrapes
  <2>1. PICK o \in Series(q, AskedRange) : s = [o EXCEPT !.of = "other"]
    BY <1>4
  <2>2. s.hot = o.hot /\ s.at = o.at
    BY <2>1, <1>3
  <2>3. QED
    BY <2>2, <1>3
<1>5. \A s \in r.series : s.hot \subseteq s.at /\ s.at \subseteq Scrapes
  BY <1>2, <1>3, <1>4
<1>6. ASSUME IncidentRange(alert) # NoRange, NEW t \in MissedSamples(q), NEW range \in {AskedRange, whole}
      PROVE  \E s \in Series(q, range) : t \in s.hot
  <2>1. t \in Scrapes /\ t \in world.hot[q] /\ Within(t, IncidentRange(alert)) /\ q \notin world.unscraped
    BY <1>6 DEF MissedSamples
  <2>2. Within(t, range)
    <3>1. Within(t, AskedRange)
      BY <1>6, <2>1 DEF AskedRange
    <3>2. Within(t, whole)
      BY <2>1, ScrapeAssumption, EvidenceAssumption DEF Within, NoTime
    <3>3. QED
      BY <3>1, <3>2
  <2>3. QED
    BY <2>1, <2>2 DEF Series
<1>7. ASSUME ~r.error, IncidentRange(alert) # NoRange, NEW t \in MissedSamples(q)
      PROVE  t \in Hot(r)
  <2>1. CASE r.series \in {Series(q, AskedRange), Series(q, whole)}
    BY <1>6, <1>7, <2>1 DEF Hot
  <2>2. CASE r.series = renamed
    <3>1. PICK o \in Series(q, AskedRange) : t \in o.hot
      BY <1>6, <1>7
    <3>2. [o EXCEPT !.of = "other"] \in r.series /\ [o EXCEPT !.of = "other"].hot = o.hot
      BY <2>2, <1>3
    <3>3. QED
      BY <3>1, <3>2 DEF Hot
  <2>3. QED
    BY <1>2, <1>7, <2>1, <2>2
<1>8. QED
  BY <1>1, <1>5, <1>7

\* A card of a query of Prometheus proves what its samples do.
LEMMA MetricCardSound ==
  ASSUME PrometheusInv, NEW via \in {"mcp", "direct"}, NEW f \in MetricReplies(via), NEW q \in DOMAIN f
  PROVE  SoundCard(MetricCard(q, f))
<1> DEFINE r == f[q]
           c == MetricCard(q, f)
<1>1. /\ q \in MetricQueries
      /\ \A s \in r.series : s.hot \subseteq s.at /\ s.at \subseteq Scrapes
      /\ ~r.error /\ IncidentRange(alert) # NoRange => MissedSamples(q) \subseteq Hot(r)
  BY MetricReplyHolds
<1>2. q \in {"up", "memory", "container_restarts", "namespace_pending", "namespace_restarts",
             "capacity_gap", "requested", "allocated", "control_restarts", "control_pending"}
  BY <1>1 DEF MetricQueries, Control
<1>3. c.kind = q
  BY DEF MetricCard, Card
<1>4. ASSUME Supports(c)
      PROVE  /\ c.about = MetricEntity(q) /\ q \notin {"up", "memory", "requested", "allocated"}
             /\ MetricScope(q, r) /\ c.basis = UNION {{[of |-> s.of, at |-> t] : t \in s.hot} : s \in r.series}
             /\ q # "capacity_gap" => SamplesInRange(r)
  BY <1>2, <1>4 DEF MetricCard, MetricPolarity, GapPolarity, ContextOnly, Card, Supports
<1>5. Owned(c)
  <2> SUFFICES ASSUME Supports(c), NEW b \in c.basis PROVE b.of \in NamesakesOf(c.about) \/ c.about = "namespace"
    BY DEF Owned, ByIdOrNamespace
  <2>1. PICK s \in r.series : \E t \in s.hot : b = [of |-> s.of, at |-> t]
    BY <1>4
  <2>2. b.of = MetricEntity(q) /\ c.about = MetricEntity(q)
    BY <1>4, <2>1 DEF MetricScope
  <2>3. MetricEntity(q) \in {"podname", "namespace", "project", "control"}
    BY <1>2, <1>4 DEF MetricEntity, Control
  <2>4. QED
    BY <2>2, <2>3, OwnNames DEF PrometheusInv, None
<1>6. Timely(c)
  <2> SUFFICES ASSUME Supports(c), q # "capacity_gap", NEW b \in c.basis PROVE b.at <= LatestSupport
    BY <1>3 DEF Timely, Untimed
  <2>1. PICK s \in r.series : \E t \in s.hot : b = [of |-> s.of, at |-> t]
    BY <1>4
  <2>2. b.at \in s.at
    BY <1>1, <2>1
  <2>3. DOMAIN IncidentRange(alert) = {"start", "end"}
    BY DEF IncidentRange, NoRange
  <2>4. Within(b.at, [IncidentRange(alert) EXCEPT !.start = @ - Step])
    BY <1>4, <2>2 DEF SamplesInRange
  <2>5. b.at <= IncidentRange(alert).end
    BY <2>3, <2>4 DEF Within
  <2>6. QED
    BY <2>5 DEF LatestSupport, PrometheusInv
<1>7. Whole(c)
  <2> SUFFICES ASSUME Refutes(c) PROVE MissedSamples(q) = {}
    BY <1>2, <1>3 DEF Whole, Contradicted, PrometheusInv
  <2>1. MetricPolarity(q, f, r) = "absent"
    BY DEF MetricCard, Card, Refutes
  <2>2. ~r.error /\ IncidentRange(alert) # NoRange /\ Hot(r) = {}
    <3>1. r.series = {} => Hot(r) = {}
      BY DEF Hot
    <3>2. QED
      BY <2>1, <3>1 DEF MetricPolarity, GapPolarity, CounterPolarity
  <2>3. QED
    BY <1>1, <2>2
<1>8. QED
  BY <1>5, <1>6, <1>7 DEF SoundCard

----------------------------------------------------------------------------
(* Changes. *)

\* Of what nothing contradicts any absence is whole.
LEMMA NothingToContradict ==
  ASSUME NEW c, ~Of("prometheus"),
         c.kind \notin {"warning_events", "error_logs", "changes", "history", "workload_by_id"}
  PROVE  Whole(c)
BY DEF Whole, Contradicted

\* What the change collector holds: the complete reads of a source that keeps its
\* objects are still what the world holds of it.
ChangeInv ==
  /\ Of("change") /\ ChangeWorld(world) /\ IsTarget(alert)
  /\ DOMAIN got = {"reads", "ask", "component"} /\ got.component \in {None, "workload"}
  /\ \A src \in DOMAIN got.reads :
       \/ got.reads[src].warned \/ src \in {"event", "node_event"}
       \/ got.reads[src].items = {c \in world.changes : c.src = src}

LEMMA ChangeBasisIsOf ==
  ASSUME NEW S, NEW b \in ChangeBasis(S)
  PROVE  \E o \in S : b = [of |-> o.of, at |-> o.last] /\ Within(o.last, CausalWindow)
BY DEF ChangeBasis, TimedChanges

LEMMA ChangeBasisTimely ==
  ASSUME IsTarget(alert), Ended(alert), Historical, NEW S, NEW b \in ChangeBasis(S)
  PROVE  b.at <= alert.resolved
<1>1. CausalRange(alert) # NoRange /\ CausalRange(alert).end = alert.resolved
  BY RangesNest, TargetsAreDated DEF Historical
<1>2. PICK o \in S : b = [of |-> o.of, at |-> o.last] /\ Within(o.last, CausalWindow)
  BY ChangeBasisIsOf
<1>3. QED
  BY <1>1, <1>2 DEF CausalWindow, Within

LEMMA SweepCardSound ==
  ASSUME ChangeInv, DOMAIN got.reads = SourcesOf("collect")
  PROVE  SoundCard(SweepCard(got.reads))
<1> DEFINE f == got.reads
           S == CorrelatedChanges(Reported(f))
           c == SweepCard(f)
<1>1. c.kind = "changes" /\ c.about = SweepEntity(S)
  BY DEF SweepCard, Card
<1>2. ASSUME Supports(c) PROVE Historical /\ S # {} /\ SweepEntity(S) # None /\ c.basis = ChangeBasis(S)
  BY <1>2 DEF SweepCard, Card, Supports
<1>3. Owned(c)
  <2> SUFFICES ASSUME Supports(c), NEW b \in c.basis PROVE b.of \in NamesakesOf(c.about)
    BY DEF Owned
  <2>1. PICK o \in S : b.of = o.of
    BY <1>2 DEF ChangeBasis, TimedChanges
  <2>2. CASE \A x \in S : ExactPod(x)
    <3>1. SweepEntity(S) = "podname"
      BY <1>2, <2>2 DEF SweepEntity, ExactPod
    <3>2. QED
      BY <1>1, <2>1, <2>2, <3>1, OwnNames DEF ExactPod, ChangeInv, Of
  <2>3. CASE ~(\A x \in S : ExactPod(x)) /\ \A x \in S : ExactNode(x)
    <3>1. SweepEntity(S) = "node"
      BY <1>2, <2>3 DEF SweepEntity
    <3>2. QED
      BY <1>1, <2>1, <2>3, <3>1, OwnNames DEF ExactNode, None
  <2>4. CASE ~(\A x \in S : ExactPod(x)) /\ ~\A x \in S : ExactNode(x)
    <3>1. SweepEntity(S) = "workload" /\ \A x \in S : ExactController(x) \/ ExactPod(x)
      BY <1>2, <2>4 DEF SweepEntity
    <3>2. QED
      BY <1>1, <2>1, <3>1, OwnNames DEF ExactPod, ExactController
  <2>5. QED
    BY <2>2, <2>3, <2>4
<1>4. Ended(alert) => Timely(c)
  BY <1>2, ChangeBasisTimely DEF Timely, LatestSupport, ChangeInv, Of
<1>5. Whole(c)
  <2> SUFFICES ASSUME Refutes(c) PROVE MissedChanges(c.about) = {}
    BY <1>1 DEF Whole, Contradicted, ChangeInv, Of
  <2>1. ~Warned(f) /\ Reported(f) = {}
    BY DEF SweepCard, Card, Refutes
  <2>2. SUFFICES ASSUME NEW m \in MissedChanges(c.about) PROVE FALSE
    OBVIOUS
  <2>3. /\ m \in world.changes /\ m.src \in DOMAIN f /\ IsChange(m)
        /\ m.src \notin {"event", "node_event"}
    BY <2>2 DEF MissedChanges
  <2>4. m \in f[m.src].items
    BY <2>1, <2>3 DEF ChangeInv, Warned
  <2>5. m \in Reported(f)
    BY <2>3, <2>4 DEF Reported, ReportedOf
  <2>6. QED
    BY <2>1, <2>5
<1>6. QED
  BY <1>3, <1>4, <1>5 DEF SoundCard

LEMMA QueryCardSound ==
  ASSUME ChangeInv
  PROVE  SoundCard(QueryCard(got.reads, got.ask, got.component))
<1> DEFINE f == got.reads
           S == {o \in Reported(f) : InWindow(o.last) /\ (got.component # None => o.of = got.component)}
           mine == CorrelatedChanges(S)
           c == QueryCard(f, got.ask, got.component)
<1>1. c.kind = "change_query"
  BY DEF QueryCard, Card
<1>2. ASSUME Supports(c)
      PROVE  /\ Historical /\ S = mine /\ c.basis = ChangeBasis(mine)
             /\ c.about = IF got.component # None THEN got.component ELSE "namespace"
  BY <1>2 DEF QueryCard, Card, Supports
<1>3. Owned(c)
  <2> SUFFICES ASSUME Supports(c), c.about # "namespace", NEW b \in c.basis PROVE b.of \in NamesakesOf(c.about)
    BY DEF Owned, ByIdOrNamespace
  <2>1. got.component = "workload" /\ c.about = "workload"
    BY <1>2 DEF ChangeInv
  <2> HIDE DEF mine
  <2>2. PICK o \in mine : b = [of |-> o.of, at |-> o.last]
    BY <1>2, ChangeBasisIsOf
  <2>3. QED
    BY <1>2, <2>1, <2>2, OwnNames DEF None
<1>4. Ended(alert) => Timely(c)
  BY <1>2, ChangeBasisTimely DEF Timely, LatestSupport, ChangeInv, Of
<1>5. Whole(c)
  BY <1>1, NothingToContradict DEF ChangeInv, Of
<1>6. QED
  BY <1>3, <1>4, <1>5 DEF SoundCard

LEMMA ChangeStep ==
  ASSUME ChangeInv, cards = {}, ChangeNext
  PROVE  \/ pc' \in {"ask_change", "sweep_change"} /\ cards' = {} /\ ChangeInv'
         \/ pc' = "done" /\ UNCHANGED <<alert, world>> /\ \A c \in cards' : SoundCard(c)
<1>1. ASSUME BeginSweep PROVE pc' = "sweep_change" /\ cards' = {} /\ ChangeInv'
  <2>1. UNCHANGED alert /\ UNCHANGED world /\ UNCHANGED got
    BY <1>1 DEF BeginSweep
  <2>2. QED
    BY <1>1, <2>1 DEF BeginSweep, ChangeInv, Of
<1>2. ASSUME NoSweep PROVE pc' = "done" /\ UNCHANGED <<alert, world>> /\ \A c \in cards' : SoundCard(c)
  <2> DEFINE c == Card("changes", "unavailable", "unknown", None, {})
  <2>1. SoundCard(c)
    BY DEF SoundCard, Owned, Timely, Whole, Supports, Refutes, Card
  <2>2. QED
    BY <1>2, <2>1 DEF NoSweep
<1>3. ASSUME BeginQuery PROVE pc' = "sweep_change" /\ cards' = {} /\ ChangeInv'
  <2>1. PICK ask, component : component \in {None, "workload"} /\ got' = [got EXCEPT !.ask = ask, !.component = component]
    BY <1>3 DEF BeginQuery
  <2>2. DOMAIN got' = DOMAIN got /\ got'.reads = got.reads /\ got'.component = component
    BY <2>1 DEF ChangeInv
  <2>3. UNCHANGED alert /\ UNCHANGED world
    BY <1>3 DEF BeginQuery
  <2>4. QED
    BY <1>3, <2>1, <2>2, <2>3 DEF BeginQuery, ChangeInv, Of
<1>4. ASSUME ReadSource PROVE pc' = "sweep_change" /\ cards' = {} /\ ChangeInv'
  <2>1. PICK src, r :
          r \in SourceReplies(src) /\ got' = [got EXCEPT !.reads = [s \in DOMAIN @ \union {src} |-> IF s = src THEN r ELSE @[s]]]
    BY <1>4 DEF ReadSource
  <2> DEFINE reads == [s \in DOMAIN got.reads \union {src} |-> IF s = src THEN r ELSE got.reads[s]]
  <2>2. DOMAIN got' = DOMAIN got /\ got'.reads = reads /\ got'.component = got.component
    BY <2>1 DEF ChangeInv
  <2>3. r.warned \/ r.items = {c \in world.changes : c.src = src}
    BY <2>1 DEF SourceReplies
  <2>4. UNCHANGED alert /\ UNCHANGED world
    BY <1>4 DEF ReadSource
  <2>5. \A s \in DOMAIN reads :
          \/ reads[s].warned \/ s \in {"event", "node_event"}
          \/ reads[s].items = {c \in world.changes : c.src = s}
    BY <2>3 DEF ChangeInv
  <2>6. QED
    BY <1>4, <2>2, <2>4, <2>5 DEF ReadSource, ChangeInv, Of
<1>5. ASSUME ConcludeSweep PROVE pc' = "done" /\ UNCHANGED <<alert, world>> /\ \A c \in cards' : SoundCard(c)
  BY <1>5, SweepCardSound, QueryCardSound DEF ConcludeSweep
<1>6. ASSUME Repeats PROVE pc' = "sweep_change" /\ cards' = {} /\ ChangeInv'
  <2>1. PICK e \in world.changes :
          /\ e.src \in {"event", "node_event"}
          /\ world' = [world EXCEPT !.changes = (@ \ {e}) \union {[e EXCEPT !.last = Now]}, !.churn = FALSE]
    BY <1>6 DEF Repeats
  <2> DEFINE later == [e EXCEPT !.last = Now]
  <2>2. world'.changes = (world.changes \ {e}) \union {later} /\ DOMAIN world' = DOMAIN world /\ Of("change")'
    BY <2>1 DEF ChangeInv, ChangeWorld, Of
  <2>3. later.src = e.src /\ DOMAIN later = DOMAIN e
    BY <2>1 DEF ChangeInv, ChangeWorld
  <2>4. ChangeWorld(world)'
    BY <2>2, <2>3 DEF ChangeInv, ChangeWorld
  <2>5. ASSUME NEW src, src \notin {"event", "node_event"}
        PROVE  {c \in world'.changes : c.src = src} = {c \in world.changes : c.src = src}
    BY <2>1, <2>2, <2>3, <2>5
  <2>6. UNCHANGED alert /\ UNCHANGED got
    BY <1>6 DEF Repeats
  <2>7. QED
    BY <1>6, <2>2, <2>4, <2>5, <2>6 DEF Repeats, ChangeInv
<1>7. QED
  BY <1>1, <1>2, <1>3, <1>4, <1>5, <1>6 DEF ChangeNext

----------------------------------------------------------------------------
(* Run:ai. *)

\* What an answer of the platform says, whichever way it came: a project or a
\* queue is answered with itself, and a workload that is not there by its id has
\* gone, for it never comes back under that id.
RunaiQueries == {"workload_by_id", "workloads", "project", "queue", "cluster", "workload_status", "project_resources"}
RightAnswer(r) ==
  /\ r.query \in RunaiQueries
  /\ r.query \notin WorkloadQueries => \A i \in r.items : i.of = r.query
  /\ r.error = "404" /\ r.query = "workload_by_id" => ById = {}
RunaiInv ==
  /\ Of("runai") /\ RunaiWorld(world) /\ IsTarget(alert)
  /\ DOMAIN got = {"token", "results", "mcp", "asked", "refreshed", "gaps"}
  /\ \A r \in got.results : RightAnswer(r)

LEMMA RunaiRepliesRight ==
  ASSUME NEW q \in RunaiQueries, NEW via, NEW r \in RunaiReplies(q, via)
  PROVE  RightAnswer(r)
<1>1. \A why : /\ Refusal(q, via, why).query = q /\ Refusal(q, via, why).error = why
               /\ Refusal(q, via, why).items = {}
  BY DEF Refusal, Answer
<1>2. \A items : /\ Answer(q, via, items).query = q /\ Answer(q, via, items).error = "none"
                 /\ Answer(q, via, items).items = items
  BY DEF Answer
<1>3. \/ \E why \in {"failed", "401"} : r = Refusal(q, via, why)
      \/ r = Refusal(q, via, "404") /\ (q = "workload_by_id" => ById = {})
      \/ q \in WorkloadQueries /\ \E items : r = Answer(q, via, items)
      \/ r = Answer(q, via, {Scope(q)})
  BY DEF RunaiReplies, WorkloadQueries
<1>4. Scope(q).of = q
  BY DEF Scope
<1>5. r.query = q /\ (q \notin WorkloadQueries => \A i \in r.items : i.of = q)
  BY <1>1, <1>2, <1>3, <1>4
<1>6. r.error = "404" /\ q = "workload_by_id" => ById = {}
  BY <1>1, <1>2, <1>3
<1>7. QED
  BY <1>5, <1>6 DEF RightAnswer

LEMMA AnswersRight ==
  ASSUME NEW queries \in SUBSET RunaiQueries, NEW via, NEW f \in AllAnswers(queries, via), NEW r \in Values(f)
  PROVE  RightAnswer(r)
<1> DEFINE choices == [q \in queries |-> RunaiReplies(q, via)]
<1>1. f \in OneEach(choices)
  BY DEF AllAnswers
<1>2. DOMAIN f = DOMAIN choices /\ \A q \in DOMAIN f : f[q] \in choices[q]
  <2> HIDE DEF choices
  <2>1. QED
    BY <1>1, OneEachAnswers
<1>3. PICK q \in queries : r = f[q]
  BY <1>2 DEF Values
<1>4. r \in RunaiReplies(q, via)
  BY <1>2, <1>3
<1>5. QED
  BY <1>4, RunaiRepliesRight

LEMMA RunaiQueriesAsked == DirectQueries \subseteq RunaiQueries /\ McpQueries \subseteq RunaiQueries
BY DEF DirectQueries, McpQueries, RunaiQueries

\* A card of an answer proves what its objects do.
LEMMA RunaiCardSound ==
  ASSUME RunaiInv, NEW r \in got.results
  PROVE  SoundCard(RunaiCard(r))
<1> DEFINE c == RunaiCard(r)
           mine == Identified(r)
<1>1. RightAnswer(r) /\ ~Of("prometheus") /\ ~Of("loki") /\ Of("runai")
  BY DEF RunaiInv, Of
<1>2. c.kind = r.query
  BY DEF RunaiCard, Card
<1>3. ASSUME Supports(c)
      PROVE  /\ HasIdentity(r.query) /\ c.about = RunaiEntity(r.query)
             /\ c.basis = UNION {Stamped(i) : i \in mine}
  BY <1>3 DEF RunaiCard, Card, Supports
<1>4. ASSUME Supports(c), NEW b \in c.basis
      PROVE  \E i \in mine : b.of = i.of /\ Within(b.at, IncidentRange(alert))
  <2>1. PICK i \in mine : b \in Stamped(i)
    BY <1>3, <1>4
  <2>2. QED
    BY <2>1 DEF Stamped
<1>5. Owned(c)
  <2> SUFFICES ASSUME Supports(c), NEW b \in c.basis PROVE b.of \in NamesakesOf(c.about)
    BY DEF Owned
  <2>1. PICK i \in mine : b.of = i.of
    BY <1>4
  <2>2. CASE r.query \in WorkloadQueries
    <3>1. i.of = "workload" \/ (i.of = "namesake" /\ alert.workloadId = None)
      BY <2>1, <2>2 DEF Identified
    <3>2. c.about = IF alert.workloadId # None THEN "workload" ELSE "workloadname"
      BY <1>3, <2>2 DEF RunaiEntity
    <3>3. QED
      BY <2>1, <3>1, <3>2, OwnNames
  <2>3. CASE r.query \notin WorkloadQueries
    <3>1. r.query \in {"project", "queue"} /\ c.about = r.query
      BY <1>3, <2>3 DEF HasIdentity, RunaiEntity
    <3>2. b.of = r.query
      BY <1>1, <2>1, <2>3 DEF Identified, RightAnswer
    <3>3. QED
      BY <3>1, <3>2, OwnNames DEF None
  <2>4. QED
    BY <2>2, <2>3
<1>6. Timely(c)
  <2> SUFFICES ASSUME Supports(c), NEW b \in c.basis PROVE b.at <= LatestSupport
    BY DEF Timely
  <2>1. Within(b.at, IncidentRange(alert))
    BY <1>4
  <2>2. QED
    BY <1>1, <2>1 DEF Within, LatestSupport
<1>7. Whole(c)
  <2>1. CASE c.kind = "workload_by_id"
    <3> SUFFICES ASSUME Refutes(c) PROVE ById = {} /\ ~(Ended(alert) /\ IncidentRange(alert) # NoRange)
      BY <1>1, <2>1 DEF Whole, Contradicted
    <3>1. r.error = "404" /\ ~(IncidentRange(alert) # NoRange /\ Ended(alert))
      BY DEF RunaiCard, Card, Refutes
    <3>2. QED
      BY <1>1, <1>2, <2>1, <3>1 DEF RightAnswer
  <2>2. CASE c.kind # "workload_by_id"
    <3>1. c.kind \notin {"warning_events", "error_logs", "changes", "history", "workload_by_id"}
      BY <1>1, <1>2, <2>2 DEF RightAnswer, RunaiQueries
    <3>2. QED
      BY <1>1, <3>1, NothingToContradict
  <2>3. QED
    BY <2>1, <2>2
<1>8. QED
  BY <1>5, <1>6, <1>7 DEF SoundCard

LEMMA RunaiStep ==
  ASSUME RunaiInv, cards = {}, RunaiNext
  PROVE  \/ pc' \in {"begin_runai", "mcp", "direct_runai", "queue", "retry", "again"} /\ cards' = {} /\ RunaiInv'
         \/ pc' = "done" /\ UNCHANGED <<alert, world>> /\ \A c \in cards' : SoundCard(c)
<1> DEFINE Phase == {"begin_runai", "mcp", "direct_runai", "queue", "retry", "again"}
\* Answers stay right while nothing happens outside.
<1>1. ASSUME UNCHANGED alert, UNCHANGED world, DOMAIN got' = DOMAIN got,
             \A r \in got'.results : RightAnswer(r)
      PROVE  RunaiInv'
  <2>1. \A r : RightAnswer(r)' = RightAnswer(r)
    BY <1>1 DEF RightAnswer, ById
  <2>2. QED
    BY <1>1, <2>1 DEF RunaiInv, Of
<1>2. CASE RunaiUnconfigured \/ RunaiUnauthorized
  BY <1>2 DEF RunaiUnconfigured, RunaiUnauthorized
<1>3. CASE RunaiToken
  <2>1. got' = [got EXCEPT !.token = TRUE] /\ UNCHANGED alert /\ UNCHANGED world /\ cards' = {}
        /\ pc' \in {"mcp", "direct_runai"}
    BY <1>3 DEF RunaiToken
  <2>2. DOMAIN got' = DOMAIN got /\ got'.results = got.results
    BY <2>1 DEF RunaiInv
  <2>3. QED
    BY <1>1, <2>1, <2>2 DEF RunaiInv
<1>4. CASE RunaiMcp
  <2>1. PICK f \in AllAnswers(McpQueries, "mcp") :
          \E used \in BOOLEAN : got' = [got EXCEPT !.results = IF used THEN Values(f) ELSE {}, !.mcp = used]
    BY <1>4 DEF RunaiMcp
  <2>2. DOMAIN got' = DOMAIN got /\ got'.results \subseteq Values(f)
    BY <2>1 DEF RunaiInv
  <2>3. UNCHANGED alert /\ UNCHANGED world /\ cards' = {} /\ pc' \in {"direct_runai", "queue"}
    BY <1>4 DEF RunaiMcp
  <2>4. \A r \in got'.results : RightAnswer(r)
    BY <2>2, AnswersRight, RunaiQueriesAsked
  <2>5. QED
    BY <1>1, <2>2, <2>3, <2>4
<1>5. CASE RunaiDirect
  <2>1. PICK f \in AllAnswers(DirectQueries, "direct") : got' = [got EXCEPT !.results = Merged(Values(f))]
    BY <1>5 DEF RunaiDirect
  <2>2. Merged(Values(f)) \subseteq got.results \union Values(f)
    BY DEF Merged
  <2>3. DOMAIN got' = DOMAIN got /\ got'.results = Merged(Values(f))
    BY <2>1 DEF RunaiInv
  <2>4. UNCHANGED alert /\ UNCHANGED world /\ cards' = {} /\ pc' = "queue"
    BY <1>5 DEF RunaiDirect
  <2>5. \A r \in got'.results : RightAnswer(r)
    BY <2>2, <2>3, AnswersRight, RunaiQueriesAsked DEF RunaiInv
  <2>6. QED
    BY <1>1, <2>3, <2>4, <2>5
<1>6. CASE RunaiQueue
  <2>1. UNCHANGED alert /\ UNCHANGED world /\ cards' = {} /\ pc' = "retry"
    BY <1>6 DEF RunaiQueue
  <2>2. \/ UNCHANGED got
        \/ got' = [got EXCEPT !.gaps = {"queue_scope"}]
        \/ \E r \in RunaiReplies("queue", "direct") : got' = [got EXCEPT !.results = @ \union {r}]
    BY <1>6 DEF RunaiQueue
  <2>3. DOMAIN got' = DOMAIN got /\ \A r \in got'.results : r \in got.results \/ r \in RunaiReplies("queue", "direct")
    BY <2>2 DEF RunaiInv
  <2>4. \A r \in got'.results : RightAnswer(r)
    BY <2>3, RunaiRepliesRight DEF RunaiInv, RunaiQueries
  <2>5. QED
    BY <1>1, <2>1, <2>3, <2>4
<1>7. CASE RunaiRetry
  <2>1. got' = [got EXCEPT !.refreshed = TRUE] /\ UNCHANGED alert /\ UNCHANGED world /\ cards' = {} /\ pc' = "again"
    BY <1>7 DEF RunaiRetry
  <2>2. DOMAIN got' = DOMAIN got /\ got'.results = got.results
    BY <2>1 DEF RunaiInv
  <2>3. QED
    BY <1>1, <2>1, <2>2 DEF RunaiInv
<1>8. CASE RunaiAgain
  <2>1. PICK f \in AllAnswers(DirectQueries, "direct") : got' = [got EXCEPT !.results = Values(f)]
    BY <1>8 DEF RunaiAgain
  <2>2. DOMAIN got' = DOMAIN got /\ got'.results = Values(f)
    BY <2>1 DEF RunaiInv
  <2>3. UNCHANGED alert /\ UNCHANGED world /\ cards' = {} /\ pc' = "retry"
    BY <1>8 DEF RunaiAgain
  <2>4. \A r \in got'.results : RightAnswer(r)
    BY <2>2, AnswersRight, RunaiQueriesAsked
  <2>5. QED
    BY <1>1, <2>2, <2>3, <2>4
<1>9. CASE RunaiConclude
  BY <1>9, RunaiCardSound DEF RunaiConclude
<1>10. CASE WorkloadDeleted
  <2>1. world' = [world EXCEPT !.objects = {o \in @ : o.of # "workload"}, !.churn = FALSE]
    BY <1>10 DEF WorkloadDeleted
  <2>2. /\ world'.objects = {o \in world.objects : o.of # "workload"}
        /\ DOMAIN world' = DOMAIN world /\ world'.collector = world.collector
    BY <2>1 DEF RunaiInv, RunaiWorld
  <2>3. ById' = {}
    BY <2>2 DEF ById
  <2>4. UNCHANGED alert /\ UNCHANGED got /\ cards' = {} /\ pc' \in Phase
    BY <1>10 DEF WorkloadDeleted
  <2>5. \A r \in got'.results : RightAnswer(r)'
    BY <2>3, <2>4 DEF RunaiInv, RightAnswer
  <2>6. RunaiInv'
    BY <2>2, <2>4, <2>5 DEF RunaiInv, RunaiWorld, Of
  <2>7. QED
    BY <2>4, <2>6
<1>11. QED
  BY <1>2, <1>3, <1>4, <1>5, <1>6, <1>7, <1>8, <1>9, <1>10 DEF RunaiNext

----------------------------------------------------------------------------
(* The audit tables. *)

PostgresInv == Of("postgres") /\ PostgresWorld(world) /\ IsTarget(alert)

\* A reply of a table tells the number of its rows about the alert.
LEMMA TableReplyCounts ==
  ASSUME NEW tb, NEW via, NEW r \in TableReplies(tb, via)
  PROVE  r.table = tb /\ r.count = Cardinality(TargetRows(tb))
<1> DEFINE honest == TableReply(tb, Cardinality(TargetRows(tb)), NewestRows(TargetRows(tb)), TRUE)
<1>1. honest.table = tb /\ honest.count = Cardinality(TargetRows(tb)) /\ DOMAIN honest = {"table", "error", "count", "rows", "timed"}
  BY DEF TableReply
<1>2. \/ r = honest \/ r = [honest EXCEPT !.error = TRUE] \/ r = [honest EXCEPT !.timed = FALSE]
      \/ \E rows : r = [honest EXCEPT !.rows = rows]
  BY DEF TableReplies
<1> HIDE DEF honest
<1>3. QED
  BY <1>1, <1>2

\* A name that a row proved is the row's own.
LEMMA RowIsOf ==
  ASSUME NEW tb, NEW row, RowEntity(tb, row) # None
  PROVE  \/ RowEntity(tb, row) = "podname" /\ RowOf(tb, row) \in {"pod", "twin"}
         \/ RowEntity(tb, row) = "workloadname" /\ RowOf(tb, row) \in {"workload", "namesake"}
         \/ /\ RowEntity(tb, row) = "project" /\ RowOf(tb, row) = "project"
            /\ \A other : RowEntity(tb, other) \in {"project", None}
<1>1. CASE "pod" \in IdentityColumns(tb) /\ Matches("pod", row)
  BY <1>1 DEF RowEntity, RowOf, Matches
<1>2. CASE ~("pod" \in IdentityColumns(tb) /\ Matches("pod", row)) /\ "workload" \in IdentityColumns(tb) /\ Matches("workload", row)
  BY <1>2 DEF RowEntity, RowOf, Matches
<1>3. CASE ~("pod" \in IdentityColumns(tb) /\ Matches("pod", row)) /\ ~("workload" \in IdentityColumns(tb) /\ Matches("workload", row))
  <2>1. "project" \in IdentityColumns(tb) /\ RowEntity(tb, row) = "project"
    BY <1>3 DEF RowEntity
  <2>2. "pod" \notin IdentityColumns(tb) /\ "workload" \notin IdentityColumns(tb)
    BY <2>1 DEF IdentityColumns, Strong
  <2>3. \A other : RowEntity(tb, other) \in {"project", None}
    BY <2>2 DEF RowEntity
  <2>4. QED
    BY <2>1, <2>3 DEF RowOf
<1>4. QED
  BY <1>1, <1>2, <1>3

\* A card of a table proves what its rows do.
LEMMA HistoryCardSound ==
  ASSUME PostgresInv, IncidentRange(alert) # NoRange, NEW tb \in world.tables, NEW via,
         NEW r \in TableReplies(tb, via)
  PROVE  SoundCard(HistoryCard(r))
<1> DEFINE c == HistoryCard(r)
<1>1. r.table = tb /\ r.count = Cardinality(TargetRows(tb))
  BY TableReplyCounts
<1>2. TargetRows(tb) \subseteq tb.rows /\ IsFiniteSet(tb.rows)
  BY DEF TargetRows, PostgresInv, PostgresWorld
<1>3. r.count \in Nat
  BY <1>1, <1>2, FS_Subset, FS_CardinalityType
<1>4. c.kind = "history" /\ ~Of("prometheus") /\ ~Of("runai")
  BY DEF HistoryCard, Card, PostgresInv, Of
<1>5. ASSUME Supports(c)
      PROVE  /\ r.count > 0 /\ RowsProve(r) /\ c.about = HistoryEntity(r)
             /\ c.basis = {[of |-> RowOf(tb, row), at |-> row.at] : row \in Counting(r)}
  BY <1>1, <1>5 DEF HistoryCard, Card, Supports
<1>6. Owned(c)
  <2> SUFFICES ASSUME Supports(c), NEW row \in Counting(r)
               PROVE  RowOf(tb, row) \in NamesakesOf(c.about) \/ RowOf(tb, row) \in NamesakesOf("workloadname")
    BY <1>4, <1>5 DEF Owned
  <2> DEFINE kinds == {RowEntity(tb, o) : o \in Counting(r)}
  <2>1. \A o \in Counting(r) : RowEntity(tb, o) # None
    BY <1>1, <1>5 DEF RowsProve
  <2>2. c.about = IF "podname" \in kinds THEN "podname" ELSE CHOOSE k \in kinds : TRUE
    BY <1>1, <1>3, <1>5 DEF HistoryEntity
  <2>3. CASE RowEntity(tb, row) = "podname" /\ RowOf(tb, row) \in {"pod", "twin"}
    BY <1>4, <2>2, <2>3, OwnNames
  <2>4. CASE RowEntity(tb, row) = "workloadname" /\ RowOf(tb, row) \in {"workload", "namesake"}
    BY <2>4, OwnNames
  <2>5. CASE /\ RowEntity(tb, row) = "project" /\ RowOf(tb, row) = "project"
             /\ \A other : RowEntity(tb, other) \in {"project", None}
    <3>1. \A k \in kinds : k = "project"
      BY <2>1, <2>5
    <3>2. "project" \in kinds
      BY <2>5
    <3>3. c.about = "project"
      <4> HIDE DEF kinds
      <4>1. QED
        BY <2>2, <3>1, <3>2
    <3>4. QED
      BY <2>5, <3>3, OwnNames DEF None
  <2>6. QED
    BY <2>1, <2>3, <2>4, <2>5, RowIsOf
<1>7. Ended(alert) => Timely(c)
  <2> SUFFICES ASSUME Ended(alert), Supports(c), NEW b \in c.basis PROVE b.at <= alert.resolved
    BY <1>4 DEF Timely, LatestSupport
  <2>1. PICK row \in Counting(r) : b.at = row.at
    BY <1>5
  <2>2. CausalRange(alert).end = alert.resolved
    BY RangesNest, TargetsAreDated DEF PostgresInv
  <2>3. QED
    BY <2>1, <2>2 DEF Counting
<1>8. Whole(c)
  <2> SUFFICES ASSUME Refutes(c) PROVE TargetRows(tb) = {}
    BY <1>4 DEF Whole, Contradicted
  <2>1. ~(r.count > 0)
    BY DEF HistoryCard, Card, Refutes
  <2>2. Cardinality(TargetRows(tb)) = 0
    BY <1>1, <1>3, <2>1
  <2>3. QED
    BY <1>2, <2>2, FS_Subset, FS_EmptySet
<1>9. QED
  BY <1>6, <1>7, <1>8 DEF SoundCard

LEMMA PostgresConclusion ==
  ASSUME PostgresInv, NEW via, PostgresConcludes(via)
  PROVE  pc' = "done" /\ UNCHANGED <<alert, world>> /\ \A c \in cards' : SoundCard(c)
<1>1. PICK S \in SUBSET Searched : \E f \in OneEach([tb \in S |-> TableReplies(tb, via)]) :
        LET replies == {f[tb] : tb \in S} IN cards' = {HistoryCard(r) : r \in {q \in replies : ~q.error}}
  BY DEF PostgresConcludes
<1> DEFINE choices == [tb \in S |-> TableReplies(tb, via)]
<1>2. PICK f \in OneEach(choices) : cards' = {HistoryCard(r) : r \in {q \in {f[tb] : tb \in S} : ~q.error}}
  BY <1>1
<1>3. DOMAIN f = DOMAIN choices /\ \A tb \in DOMAIN f : f[tb] \in choices[tb]
  <2> HIDE DEF choices
  <2>1. QED
    BY <1>2, OneEachAnswers
<1>4. ASSUME NEW tb \in S PROVE SoundCard(HistoryCard(f[tb]))
  <2>1. tb \in world.tables /\ IncidentRange(alert) # NoRange
    BY DEF Searched
  <2>2. f[tb] \in TableReplies(tb, via)
    BY <1>3
  <2>3. QED
    BY <2>1, <2>2, HistoryCardSound
<1>5. pc' = "done" /\ UNCHANGED <<alert, world>>
  BY DEF PostgresConcludes
<1>6. QED
  BY <1>2, <1>4, <1>5

LEMMA PostgresStep ==
  ASSUME PostgresInv, cards = {}, PostgresNext
  PROVE  \/ pc' \in {"begin_postgres", "direct_postgres", "raised"} /\ cards' = {} /\ PostgresInv'
         \/ pc' = "done" /\ UNCHANGED <<alert, world>> /\ \A c \in cards' : SoundCard(c)
<1>1. CASE PostgresMcp
  BY <1>1, PostgresConclusion DEF PostgresMcp
<1>2. CASE PostgresDirect
  BY <1>2, PostgresConclusion DEF PostgresDirect
<1>3. CASE PostgresMcpFails
  <2>1. UNCHANGED alert /\ UNCHANGED world /\ UNCHANGED cards /\ pc' = "direct_postgres"
    BY <1>3 DEF PostgresMcpFails
  <2>2. QED
    BY <2>1 DEF PostgresInv, Of
<1>4. CASE PostgresRaises
  <2>1. UNCHANGED alert /\ UNCHANGED world /\ UNCHANGED cards /\ pc' = "raised"
    BY <1>4 DEF PostgresRaises
  <2>2. QED
    BY <2>1 DEF PostgresInv, Of
<1>5. CASE PostgresUnavailable
  BY <1>5 DEF PostgresUnavailable
<1>6. QED
  BY <1>1, <1>2, <1>3, <1>4, <1>5 DEF PostgresNext

----------------------------------------------------------------------------
(* The nodes. *)

\* The collectors that neither settle the target nor read its node.
SixCollectors == {"kubernetes", "loki", "prometheus", "change", "runai", "postgres"}
NodeInv ==
  /\ world.collector \notin SixCollectors /\ NodeWorld(world) /\ Dated
  /\ DOMAIN got = {"origin", "todo", "scans"} /\ None \notin got.todo

\* A card about a node that rests on facts of that node, is about now or of the
\* causal range, and refutes nothing.
LEMMA NodeCardSound ==
  ASSUME NodeInv, NEW c, ~Refutes(c), NEW n, n # None, NEW times,
         Supports(c) => /\ c.about = n /\ c.basis \subseteq NodeFacts(n, times)
                        /\ c.kind \in Untimed \/ Firing(alert)
                           \/ (Ranged /\ \A t \in times : Within(t, CausalRange(alert)))
  PROVE  SoundCard(c)
<1>1. Owned(c)
  <2> SUFFICES ASSUME Supports(c), NEW b \in c.basis PROVE b.of \in NamesakesOf(c.about)
    BY DEF Owned
  <2>1. b.of = n
    BY DEF NodeFacts
  <2>2. QED
    BY <2>1, OwnNames
<1>2. ASSUME Ended(alert) PROVE Timely(c)
  <2> SUFFICES ASSUME Supports(c), c.kind \notin Untimed, NEW b \in c.basis PROVE b.at <= LatestSupport
    BY DEF Timely
  <2>1. PICK t \in times : b.at = t
    BY DEF NodeFacts
  <2>2. ~Firing(alert) /\ CausalRange(alert) # NoRange
    BY <1>2, RangesNest DEF NodeInv, Ranged, Firing, Ended
  <2>3. b.at <= alert.resolved
    BY <1>2, <2>1, <2>2, CausesPredate DEF NodeInv
  <2>4. LatestSupport = alert.resolved
    BY DEF LatestSupport, NodeInv, Of, SixCollectors
  <2>5. QED
    BY <2>3, <2>4
<1>3. Whole(c)
  BY DEF Whole
<1>4. QED
  BY <1>1, <1>2, <1>3 DEF SoundCard

LEMMA NodeLogCardSound ==
  ASSUME NodeInv, NEW n, n # None, NEW r
  PROVE  SoundCard(NodeLogCard(n, r))
<1> DEFINE c == NodeLogCard(n, r)
<1>1. ~Refutes(c) /\ (Supports(c) => c.about = n)
  BY DEF NodeLogCard, LogReading, Card, Refutes, Supports
<1>2. CASE Supports(c) /\ Firing(alert)
  <2>1. \E times : c.basis = NodeFacts(n, times)
    BY <1>2 DEF NodeLogCard, Card, Supports
  <2>2. QED
    BY <1>1, <1>2, <2>1, NodeCardSound
<1>3. CASE Supports(c) /\ ~Firing(alert)
  <2>1. c.basis = NodeFacts(n, CausalLines(r)) /\ Ranged
    BY <1>3 DEF NodeLogCard, LogReading, Card, Supports
  <2>2. \A t \in CausalLines(r) : Within(t, CausalRange(alert))
    BY DEF CausalLines
  <2>3. QED
    BY <1>1, <2>1, <2>2, NodeCardSound
<1>4. CASE ~Supports(c)
  BY <1>1, <1>4, NodeCardSound
<1>5. QED
  BY <1>2, <1>3, <1>4

LEMMA NodeStateCardsSound ==
  ASSUME NodeInv, NEW n, n # None, NEW r, NEW peers,
         NEW c \in GpuDeficitCards(n, r) \union PortCards(n, r) \union AdapterCards(n, r, peers)
  PROVE  SoundCard(c)
<1>1. c.kind \in Untimed /\ c.polarity = "present" /\ c.about = n /\ c.basis \subseteq NodeFacts(n, {Now})
  <2>1. CASE c \in GpuDeficitCards(n, r)
    BY <2>1 DEF GpuDeficitCards, Card, Untimed
  <2>2. CASE c \in PortCards(n, r)
    BY <2>2 DEF PortCards, Card, Untimed
  <2>3. CASE c \in AdapterCards(n, r, peers)
    BY <2>3 DEF AdapterCards, Card, Untimed
  <2>4. QED
    BY <2>1, <2>2, <2>3
<1>2. ~Refutes(c)
  BY <1>1 DEF Refutes
<1>3. QED
  BY <1>1, <1>2, NodeCardSound

LEMMA NodeQueryCardSound ==
  ASSUME NodeInv, NEW n, n # None, NEW source, NEW m, NEW r \in ScanReplies(m)
  PROVE  SoundCard(NodeQueryCard(n, source, r))
<1> DEFINE c == NodeQueryCard(n, source, r)
<1>1. ~Refutes(c)
  BY DEF NodeQueryCard, Card, Refutes
<1>2. CASE Supports(c)
  <2>1. source = "journal" /\ r.journal.echoed /\ c.about = n /\ c.basis = NodeFacts(n, CausalLines(r))
    BY <1>2 DEF NodeQueryCard, Card, Supports
  <2>2. r.journal \in JournalReplies(m)
    BY DEF ScanReplies
  <2>3. Ranged
    BY <2>1, <2>2 DEF JournalReplies
  <2>4. \A t \in CausalLines(r) : Within(t, CausalRange(alert))
    BY DEF CausalLines
  <2>5. QED
    BY <1>1, <2>1, <2>3, <2>4, NodeCardSound
<1>3. CASE ~Supports(c)
  BY <1>1, <1>3, NodeCardSound
<1>4. QED
  BY <1>2, <1>3

\* A node that is found has a name.
LEMMA FindNodeKeeps ==
  ASSUME NodeInv, NEW origin, NEW todo, None \notin todo, FindNode(origin, todo)
  PROVE  pc' = "scan" /\ UNCHANGED cards /\ UNCHANGED alert /\ UNCHANGED world /\ NodeInv'
<1>1. /\ got' = [got EXCEPT !.origin = origin, !.todo = todo] /\ pc' = "scan"
      /\ UNCHANGED alert /\ UNCHANGED world /\ UNCHANGED cards
  BY DEF FindNode
<1>2. DOMAIN got' = DOMAIN got /\ got'.todo = todo
  BY <1>1 DEF NodeInv
<1>3. QED
  BY <1>1, <1>2 DEF NodeInv, Dated

LEMMA NodeStep ==
  ASSUME NodeInv, \A c \in cards : SoundCard(c), NodeNext
  PROVE  /\ UNCHANGED <<alert, world>> /\ \A c \in cards' : SoundCard(c)
         /\ pc' = "done" \/ (pc' = "scan" /\ NodeInv')
<1>1. CASE NodeUnconfigured \/ NoNode \/ ScansConclude
  BY <1>1 DEF NodeUnconfigured, NoNode, ScansConclude
<1>2. CASE NodeNamed
  BY <1>2, FindNodeKeeps DEF NodeNamed
<1>3. CASE NodeFromPod
  <2>1. None \notin FoundNodes
    <3>1. None \notin LiveNodes
      BY DEF LiveNodes
    <3>2. None \notin HistoricalNodes
      BY DEF HistoricalNodes, Placements, NodeInv, NodeWorld
    <3>3. QED
      BY <3>1, <3>2 DEF FoundNodes
  <2>2. PICK origin, n : n \in FoundNodes /\ FindNode(origin, {n})
    BY <1>3 DEF NodeFromPod
  <2>3. QED
    BY <2>1, <2>2, FindNodeKeeps
<1>4. CASE ScanAll
  <2>1. PICK S \in SUBSET Machines : FindNode("cluster_scan", S)
    BY <1>4 DEF ScanAll, Selected
  <2>2. None \notin S
    BY DEF Machines, NodeInv, NodeWorld
  <2>3. QED
    BY <2>1, <2>2, FindNodeKeeps
<1>5. CASE ScanNode
  <2>1. PICK n, r, peers :
          /\ n \in got.todo
          /\ cards' = cards \union {NodeLogCard(n, r)} \union GpuDeficitCards(n, r)
                            \union PortCards(n, r) \union AdapterCards(n, r, peers)
          /\ got' = [got EXCEPT !.todo = @ \ {n}, !.scans = @ \union {NodeVerdict(r)}]
    BY <1>5 DEF ScanNode
  <2>2. n # None
    BY <2>1 DEF NodeInv
  <2>3. \A c \in cards' : SoundCard(c)
    BY <2>1, <2>2, NodeLogCardSound, NodeStateCardsSound
  <2>4. DOMAIN got' = DOMAIN got /\ got'.todo = got.todo \ {n}
    BY <2>1 DEF NodeInv
  <2>5. UNCHANGED alert /\ UNCHANGED world /\ pc' = "scan"
    BY <1>5 DEF ScanNode
  <2>6. QED
    BY <2>3, <2>4, <2>5 DEF NodeInv, Dated
<1>6. CASE NodeQuery
  <2>1. pc' = "done" /\ UNCHANGED <<alert, world>>
    BY <1>6 DEF NodeQuery
  <2>2. PICK n \in Machines, source \in {"journal", "snapshot"} :
          \/ cards' = {Card("node_query", "unavailable", "unknown", n, {})}
          \/ \E r \in ScanReplies(world.machines[n]) : cards' = {NodeQueryCard(n, source, r)}
    BY <1>6 DEF NodeQuery
  <2>3. n # None
    BY DEF Machines, NodeInv, NodeWorld
  <2>4. SoundCard(Card("node_query", "unavailable", "unknown", n, {}))
    BY DEF SoundCard, Owned, Timely, Whole, Supports, Refutes, Card
  <2>5. \A c \in cards' : SoundCard(c)
    BY <2>2, <2>3, <2>4, NodeQueryCardSound
  <2>6. QED
    BY <2>1, <2>5
<1>7. QED
  BY <1>1, <1>2, <1>3, <1>4, <1>5, <1>6 DEF NodeNext

----------------------------------------------------------------------------
(* Kubernetes: events of the alert, or of the pod that stands for it. *)

\* The world of the Kubernetes collector, also after a replacement.
ClusterOK ==
  /\ alert.pod \in {None, "pod"}
  /\ {"collector", "allowed", "churn", "pod", "pods", "gone", "node", "events", "lines"} \subseteq DOMAIN world
  /\ DOMAIN world.pod = DOMAIN NoPod /\ world.pod.who \in {"pod", "twin", None}
  /\ \A p \in world.pods : p.who \in {"child", "sibling"}
  /\ \A p \in {world.pod} \union world.pods \union world.gone : p.at \in Nat
  /\ world.lines \subseteq Nat /\ {world.node.since, world.node.heartbeat} \subseteq Nat
  /\ IsFiniteSet(world.events) /\ \A e \in world.events : e.at \subseteq 1..Now

\* The pod that stands for a controller was looked for, and proved if it says so.
AnchorOK ==
  /\ got.anchor.pod # None =>
       /\ InScope /\ alert.pod = None /\ alert.workload # None
       /\ got.anchor.pod \in {"child", "sibling"}
  /\ got.anchor.verified => got.anchor.pod \in Standing

\* A list that is not a page of more holds every event, a node has a name, and
\* the events of what the alert names were asked for.
ListWhole(r) == r.error = "none" /\ r.page # "more" => r.items = world.events
SweepOK ==
  /\ \A n \in DOMAIN got.sweep \intersect EventReads : ListWhole(got.sweep[n])
  /\ NodeRead => NodeName # None
  /\ pc \in {"logs", "describe", "interpret"} /\ InScope =>
       /\ alert.pod # None => "pod_events" \in DOMAIN got.sweep
       /\ alert.workload # None => "workload_events" \in DOMAIN got.sweep

\* What is held of a pod was so of the pod that is there, or of one that is gone.
Was(pod) ==
  \/ pod.who \in {None, "stranger"}
  \/ \E p \in {world.pod} \union world.pods \union world.gone :
       p.who = pod.who /\ p.sym = pod.sym /\ p.at = pod.at
PodSeen == Was(got.pod)

\* The log of another pod than the one of the alert's uid is that of one that
\* took its place since the pod was identified.
StillThere == alert.uid # None => world.pod.who = "pod" \/ (world.churn /\ world.pod.who = "twin")
LogsOK ==
  /\ pc = "logs" => StillThere
  /\ \A l \in got.logs :
       /\ l.of = None => l.error
       /\ l.of = "twin" /\ alert.uid # None => world.churn /\ world.pod.who = "twin"

KubernetesInv ==
  /\ Of("kubernetes") /\ IsTarget(alert) /\ ClusterOK
  /\ DOMAIN got = {"via", "anchor", "sweep", "logs", "pod", "described"}
  /\ AnchorOK /\ SweepOK /\ PodSeen /\ LogsOK

\* A card that refutes nothing and rests on facts of its own entity, all of them
\* of today for an alert that fires, or of the causal range.
LEMMA KubernetesCardSound ==
  ASSUME KubernetesInv, NEW c,
         c.kind \notin {"warning_events", "error_logs", "changes", "history", "workload_by_id"},
         Supports(c) => \A b \in c.basis : b.of \in NamesakesOf(c.about) \union SpokenFor(c.about),
         Supports(c) => \/ Firing(alert) \/ c.kind \in Untimed
                        \/ \A b \in c.basis : /\ Within(b.at, CausalRange(alert))
                                              /\ b.at \in Int \/ CausalRange(alert) # NoRange
  PROVE  SoundCard(c)
<1>1. Owned(c)
  BY DEF Owned
<1>2. ASSUME Ended(alert) PROVE Timely(c)
  <2> SUFFICES ASSUME Supports(c), c.kind \notin Untimed, NEW b \in c.basis PROVE b.at <= LatestSupport
    BY DEF Timely
  <2>1. Dated /\ ~Firing(alert)
    BY <1>2, TargetsAreDated DEF KubernetesInv, Firing, Ended
  <2>2. b.at <= alert.resolved
    BY <1>2, <2>1, CausesPredate
  <2>3. QED
    BY <2>2 DEF LatestSupport, KubernetesInv, Of
<1>3. Whole(c)
  BY NothingToContradict DEF KubernetesInv, Of
<1>4. QED
  BY <1>1, <1>2, <1>3 DEF SoundCard

LEMMA EventBasisIsOf ==
  ASSUME NEW S, NEW b \in EventBasis(S)
  PROVE  /\ \E e \in S : b.of = e.of
         /\ Within(b.at, CausalRange(alert))
BY DEF EventBasis

\* Events that speak for the alert are of what it names, or of the pod that was
\* proved to stand for its controller.
LEMMA VerifiedEventsAreOwn ==
  ASSUME KubernetesInv, Entity # None, NEW S, Verified(S), NEW e \in S
  PROVE  e.of \in NamesakesOf(Entity) \union SpokenFor(Entity)
<1>1. \/ alert.pod = None /\ IsPodEvent(e) /\ got.anchor.verified /\ IsAnchor(e)
      \/ ~(alert.pod = None /\ IsPodEvent(e)) /\ (IsAnchor(e) \/ IsNamedPod(e) \/ IsWorkload(e) \/ IsNode(e))
  BY DEF Verified, Speaks
<1>2. IsAnchor(e) => /\ alert.pod = None /\ alert.workload # None /\ alert.namespace # None
                     /\ IsPodEvent(e) /\ (got.anchor.verified => e.of \in Standing)
  BY DEF IsAnchor, KubernetesInv, AnchorOK, InScope, IsPodEvent
<1>3. Of("kubernetes") /\ alert.pod \in {None, "pod"}
  BY DEF KubernetesInv, ClusterOK
<1>4. IsNamedPod(e) => alert.pod # None /\ e.of \in NamesakesOf("pod")
  BY OwnNames DEF IsNamedPod
<1>5. CASE alert.pod # None /\ alert.namespace # None
  <2>1. Entity = "pod"
    BY <1>5 DEF Entity
  <2>2. {"workload", "node"} \subseteq SpokenFor("pod")
    BY <1>3 DEF SpokenFor, None
  <2>3. QED
    BY <1>1, <1>2, <1>4, <1>5, <2>1, <2>2 DEF IsWorkload, IsNode
<1>6. CASE alert.pod = None /\ alert.workload # None /\ alert.namespace # None
  <2>1. Entity = "workload"
    BY <1>6 DEF Entity
  <2>2. Standing \subseteq SpokenFor("workload") /\ (alert.node # None => "node" \in SpokenFor("workload"))
    BY <1>3 DEF SpokenFor, None
  <2>3. IsAnchor(e) => e.of \in Standing
    BY <1>1, <1>2
  <2>4. IsWorkload(e) => e.of \in NamesakesOf("workload")
    BY OwnNames DEF IsWorkload
  <2>5. QED
    BY <1>1, <1>4, <1>6, <2>1, <2>2, <2>3, <2>4 DEF IsNode
<1>7. CASE ~(alert.pod # None /\ alert.namespace # None) /\ ~(alert.pod = None /\ alert.workload # None /\ alert.namespace # None)
  <2>1. Entity = "node"
    BY <1>7 DEF Entity
  <2>2. alert.pod # None => NamesakesOf("pod") \subseteq SpokenFor("node")
    BY <1>3, <1>7 DEF SpokenFor, None
  <2>3. IsNode(e) => e.of \in NamesakesOf("node")
    BY OwnNames DEF IsNode, None
  <2>4. ~IsAnchor(e) /\ (IsWorkload(e) => alert.pod # None /\ FALSE)
    BY <1>2, <1>7 DEF IsWorkload
  <2>5. QED
    BY <1>1, <1>4, <2>1, <2>2, <2>3, <2>4
<1>8. QED
  BY <1>5, <1>6, <1>7

----------------------------------------------------------------------------
(* Kubernetes: what a complete sweep has seen. *)

Last(e) == IF e.at = {} THEN 0 ELSE CHOOSE t \in e.at : \A u \in e.at : u <= t

\* The time an event is sorted by is its latest.
LEMMA LastIsLatest ==
  ASSUME NEW e, e.at \subseteq 1..Now
  PROVE  /\ Last(e) \in Nat
         /\ e.at # {} => Last(e) \in e.at /\ \A u \in e.at : u <= Last(e)
<1>1. CASE e.at = {}
  BY <1>1 DEF Last
<1>2. CASE e.at # {}
  <2>1. \E t \in e.at : \A u \in e.at : u <= t
    BY <1>2, Latest
  <2>2. Last(e) \in e.at /\ \A u \in e.at : u <= Last(e)
    BY <1>2, <2>1 DEF Last
  <2>3. QED
    BY <1>2, <2>2, EvidenceAssumption
<1>3. QED
  BY <1>1, <1>2

\* An event with few warnings newer than itself is among the newest of any of them.
LEMMA NewestKeeps ==
  ASSUME ClusterOK, NEW S \in SUBSET {o \in world.events : o.warns}, NEW e \in S, e.at # {},
         Cardinality(NewerWarnings(e)) < EventCap
  PROVE  e \in Newest(S, EventCap)
<1> DEFINE newer == {o \in S : Last(o) > Last(e)}
<1>1. newer \subseteq NewerWarnings(e)
  <2> SUFFICES ASSUME NEW o \in S, Last(o) > Last(e)
               PROVE  \E t \in o.at : \A u \in e.at : t > u
    BY DEF NewerWarnings
  <2>1. o.at \subseteq 1..Now /\ e.at \subseteq 1..Now
    BY DEF ClusterOK
  <2>2. /\ Last(o) \in Nat /\ Last(e) \in Nat /\ \A u \in e.at : u <= Last(e)
        /\ o.at # {} => Last(o) \in o.at
    BY <2>1, LastIsLatest
  <2>3. o.at # {}
    BY <2>2 DEF Last
  <2>4. \A u \in e.at : Last(o) > u
    BY <2>1, <2>2, EvidenceAssumption
  <2>5. QED
    BY <2>2, <2>3, <2>4
<1>2. IsFiniteSet(NewerWarnings(e))
  BY FS_Subset DEF NewerWarnings, ClusterOK
<1>3. Cardinality(newer) <= Cardinality(NewerWarnings(e)) /\ Cardinality(newer) \in Nat /\ Cardinality(NewerWarnings(e)) \in Nat
  BY <1>1, <1>2, FS_Subset, FS_CardinalityType
<1>4. Cardinality(newer) < EventCap
  <2> HIDE DEF newer
  <2>1. QED
    BY <1>3, CapAssumption
<1>5. Newest(S, EventCap) = {x \in S : Cardinality({o \in S : Last(o) > Last(x)}) < EventCap}
  BY DEF Newest, Last
<1>6. QED
  BY <1>4, <1>5

\* What a complete sweep could have shown it has.
LEMMA SweepShowsEvents ==
  ASSUME KubernetesInv, pc = "interpret", QueriesComplete, InScope, CausalRange(alert) # NoRange,
         NEW e \in MissedEvents
  PROVE  e \in WarningEvents /\ Overlaps(e.at, CausalRange(alert)) /\ (IsNamedPod(e) \/ IsWorkload(e))
<1>1. /\ e \in world.events /\ e.warns /\ e.where = "target" /\ (IsNamedPod(e) \/ IsWorkload(e))
      /\ Overlaps(e.at, CausalRange(alert)) /\ Cardinality(NewerWarnings(e)) < EventCap
  BY DEF MissedEvents
<1>2. PICK n \in {"pod_events", "workload_events"} :
        /\ n \in DOMAIN got.sweep
        /\ \A S : e \in S => e \in Mine(n, S)
  <2>1. CASE IsNamedPod(e)
    <3>1. "pod_events" \in DOMAIN got.sweep
      BY <2>1 DEF IsNamedPod, KubernetesInv, SweepOK
    <3>2. \A S : e \in S => e \in Mine("pod_events", S)
      BY <1>1, <2>1 DEF Mine
    <3>3. QED
      BY <3>1, <3>2
  <2>2. CASE IsWorkload(e)
    <3>1. "workload_events" \in DOMAIN got.sweep
      BY <2>2 DEF IsWorkload, KubernetesInv, SweepOK
    <3>2. \A S : e \in S => e \in Mine("workload_events", S)
      BY <1>1, <2>2 DEF Mine, Concerns
    <3>3. QED
      BY <3>1, <3>2
  <2>3. QED
    BY <1>1, <2>1, <2>2
<1> DEFINE r == got.sweep[n]
           S == {x \in InEventRange(Mine(n, r.items)) : x.warns}
<1>3. n \in SweptEvents
  BY <1>2 DEF SweptEvents, EventReads
<1>4. r.error = "none" /\ r.page # "more"
  BY <1>3 DEF QueriesComplete, ListComplete
<1>5. r.items = world.events
  BY <1>3, <1>4 DEF KubernetesInv, SweepOK, ListWhole, SweptEvents
<1>6. \A R : InEventRange(R) \subseteq R
  BY DEF InEventRange
<1>7. \A R : Mine(n, R) \subseteq R
  BY <1>2 DEF Mine
<1>8. S \in SUBSET {o \in world.events : o.warns}
  BY <1>5, <1>6, <1>7
<1>9. Overlaps(e.at, EventRange)
  <2>1. \A t \in e.at : t \in Int
    BY <1>1, EvidenceAssumption DEF KubernetesInv, ClusterOK
  <2>2. Ended(alert) => \A t \in Int : Within(t, CausalRange(alert)) => Within(t, IncidentRange(alert))
    BY RangesNest, TargetsAreDated DEF KubernetesInv
  <2>3. QED
    BY <1>1, <2>1, <2>2 DEF Overlaps, EventRange
<1>10. e \in S
  <2>1. e \in Mine(n, r.items)
    BY <1>1, <1>2, <1>5
  <2>2. e \in InEventRange(Mine(n, r.items))
    BY <1>9, <2>1 DEF InEventRange
  <2>3. QED
    BY <1>1, <2>2
<1>11. e.at # {}
  BY <1>1 DEF Overlaps
<1>12. e \in Newest(S, EventCap)
  <2> HIDE DEF S
  <2>1. QED
    BY <1>1, <1>8, <1>10, <1>11, NewestKeeps DEF KubernetesInv
<1>13. e \in KeptEvents(n, r)
  BY <1>4, <1>12 DEF KeptEvents
<1>14. QED
  BY <1>1, <1>3, <1>13 DEF WarningEvents

\* The card of the warning events proves what they do.
LEMMA EventCardSound ==
  ASSUME KubernetesInv, pc = "interpret", NEW status
  PROVE  SoundCard(EventCard(status))
<1> DEFINE c == EventCard(status)
           S == CausalEvents
<1>1. c.kind = "warning_events" /\ c.about = Entity /\ c.basis = EventBasis(S)
  BY DEF EventCard, Card
<1>2. ASSUME Supports(c) PROVE Entity # None /\ CausalRange(alert) # NoRange /\ Verified(S)
  BY <1>2 DEF EventCard, Card, Supports
<1>3. Owned(c)
  <2> SUFFICES ASSUME Supports(c), NEW b \in c.basis
               PROVE  b.of \in NamesakesOf(c.about) \union SpokenFor(c.about)
    BY DEF Owned
  <2>1. PICK e \in S : b.of = e.of
    BY <1>1, EventBasisIsOf
  <2>2. QED
    BY <1>1, <1>2, <2>1, VerifiedEventsAreOwn
<1>4. ASSUME Ended(alert) PROVE Timely(c)
  <2> SUFFICES ASSUME Supports(c), NEW b \in c.basis PROVE b.at <= LatestSupport
    BY DEF Timely
  <2>1. Within(b.at, CausalRange(alert))
    BY <1>1, EventBasisIsOf
  <2>2. b.at <= alert.resolved
    BY <1>2, <1>4, <2>1, CausesPredate, TargetsAreDated DEF KubernetesInv
  <2>3. QED
    BY <2>2 DEF LatestSupport, KubernetesInv, Of
<1>5. Whole(c)
  <2> SUFFICES ASSUME Refutes(c), InScope, NEW e \in MissedEvents PROVE FALSE
    BY <1>1 DEF Whole, Contradicted, KubernetesInv, Of
  <2>1. Entity # None /\ S = {} /\ QueriesComplete /\ CausalRange(alert) # NoRange
    BY DEF EventCard, Card, Refutes
  <2>2. e \in WarningEvents /\ Overlaps(e.at, CausalRange(alert)) /\ (IsNamedPod(e) \/ IsWorkload(e))
    BY <2>1, SweepShowsEvents
  <2>3. e \in S
    BY <2>1, <2>2 DEF CausalEvents, InCausalRange, Speaks
  <2>4. QED
    BY <2>1, <2>3
<1>6. QED
  BY <1>3, <1>4, <1>5 DEF SoundCard

----------------------------------------------------------------------------
(* Kubernetes: the other cards. *)

\* A pod that was verified is the alert's own, or stands for its controller.
LEMMA VerifiedPodIsOwn ==
  ASSUME KubernetesInv, PodVerified
  PROVE  /\ got.pod.who \in NamesakesOf(alert.pod) \union SpokenFor(alert.pod)
         /\ got.pod.who \notin {None, "stranger"}
<1>1. Of("kubernetes") /\ alert.pod \in {None, "pod"}
  BY DEF KubernetesInv, ClusterOK
<1>2. CASE alert.pod = None
  <2>1. got.anchor.verified /\ got.pod.who = got.anchor.pod
    BY <1>2 DEF PodVerified
  <2>2. got.pod.who \in Standing
    BY <2>1 DEF KubernetesInv, AnchorOK
  <2>3. SpokenFor(alert.pod) = Standing
    BY <1>1, <1>2 DEF SpokenFor, None
  <2>4. \A w \in Standing : w \in {"child", "sibling"}
    BY DEF Standing, KubernetesInv, ClusterOK
  <2>5. QED
    BY <2>2, <2>3, <2>4 DEF None
<1>3. CASE alert.pod = "pod"
  <2>1. got.pod.who = "pod" \/ (got.pod.who = "twin" /\ alert.uid = None)
    BY <1>3 DEF PodVerified, None
  <2>2. QED
    BY <1>3, <2>1, OwnNames DEF None
<1>4. QED
  BY <1>1, <1>2, <1>3

LEMMA ContainerCardSound == ASSUME KubernetesInv PROVE SoundCard(ContainerCard)
<1> DEFINE c == ContainerCard
           p == got.pod
<1>1. c.kind = "container_lifecycle" /\ c.about = alert.pod /\ ~Refutes(c)
  BY DEF ContainerCard, Card, Refutes
<1>2. CASE ~Supports(c)
  BY <1>1, <1>2, KubernetesCardSound
<1>3. CASE Supports(c)
  <2>1. /\ PodVerified
        /\ \/ Firing(alert) /\ c.basis = PodBasis(Now)
           \/ /\ c.basis = PodBasis(p.at)
              /\ p.sym = "stopped" \/ Within(p.at, CausalRange(alert))
    BY <1>3 DEF ContainerCard, Card, Supports
  <2>2. \A b \in c.basis : b.of = p.who
    BY <2>1 DEF PodBasis
  <2>3. Owned(c)
    BY <1>1, <2>1, <2>2, VerifiedPodIsOwn DEF Owned
  <2>4. ASSUME Ended(alert) PROVE Timely(c)
    <3> SUFFICES ASSUME ~StoppedForGood(c), NEW b \in c.basis PROVE b.at <= LatestSupport
      BY DEF Timely
    <3>1. ~Firing(alert) /\ c.basis = {[of |-> p.who, at |-> p.at]}
      BY <2>1, <2>4 DEF PodBasis, Firing, Ended
    <3>2. PICK o \in {world.pod} \union world.pods \union world.gone :
            o.who = p.who /\ o.sym = p.sym /\ o.at = p.at
      BY <2>1, VerifiedPodIsOwn DEF KubernetesInv, PodSeen, Was
    <3>3. p.sym # "stopped"
      BY <1>1, <3>1, <3>2 DEF StoppedForGood
    <3>4. Within(p.at, CausalRange(alert)) /\ p.at \in Nat
      BY <2>1, <3>1, <3>2, <3>3 DEF KubernetesInv, ClusterOK
    <3>5. p.at <= alert.resolved
      BY <2>4, <3>4, CausesPredate, TargetsAreDated DEF KubernetesInv
    <3>6. QED
      BY <3>1, <3>5 DEF LatestSupport, KubernetesInv, Of
  <2>5. Whole(c)
    BY <1>1 DEF Whole
  <2>6. QED
    BY <2>3, <2>4, <2>5 DEF SoundCard
<1>4. QED
  BY <1>2, <1>3

LEMMA LifecycleCardSound == ASSUME KubernetesInv PROVE SoundCard(LifecycleCard)
<1>1. ~Supports(LifecycleCard) /\ LifecycleCard.kind = "pod_lifecycle"
  BY DEF LifecycleCard, Card, Supports
<1>2. QED
  BY <1>1, KubernetesCardSound

\* Facts of the pod, its queue and its claims, as they are now.
LEMMA PodStateCardsSound ==
  ASSUME KubernetesInv, NEW c \in SchedulingCards \union QueueCards \union ClaimCards
  PROVE  SoundCard(c)
<1>1. CASE c \in SchedulingCards
  <2>1. PodVerified /\ c = Card("pod_scheduling", "present", "scoped", got.pod.who, PodBasis(Now))
    BY <1>1 DEF SchedulingCards, Unscheduled
  <2>2. c.kind = "pod_scheduling" /\ c.about = got.pod.who /\ \A b \in c.basis : b.of = got.pod.who
    BY <2>1 DEF Card, PodBasis
  <2>3. got.pod.who # None
    BY <2>1, VerifiedPodIsOwn
  <2>4. QED
    BY <2>2, <2>3, KubernetesCardSound, OwnNames DEF Untimed
<1>2. CASE c \in QueueCards
  <2>1. c.kind = "queue_quota" /\ c.about = "queue" /\ (Supports(c) => Firing(alert) /\ \A b \in c.basis : b.of = "queue")
    BY <1>2 DEF QueueCards, Card, Supports
  <2>2. QED
    BY <2>1, KubernetesCardSound, OwnNames DEF None
<1>3. CASE c \in ClaimCards
  <2>1. c.kind = "storage_claim" /\ c.about = "claim" /\ (Supports(c) => Firing(alert) /\ \A b \in c.basis : b.of = "claim")
    BY <1>3 DEF ClaimCards, Card, Supports
  <2>2. QED
    BY <2>1, KubernetesCardSound, OwnNames DEF None
<1>4. QED
  BY <1>1, <1>2, <1>3

LEMMA LogCardsSound == ASSUME KubernetesInv, NEW c \in LogCards PROVE SoundCard(c)
<1> DEFINE at == {t \in world.lines : Within(t, CausalRange(alert))}
<1>1. PICK l \in got.logs :
        /\ c.kind = "pod_log" /\ ~Refutes(c)
        /\ Supports(c) => /\ ~l.error /\ c.about = IF l.of = "twin" THEN "pod" ELSE l.of
                          /\ c.basis = {[of |-> l.of, at |-> t] : t \in at}
  BY DEF LogCards, Card, Refutes, Supports
<1>2. \A t \in at : t \in Nat /\ Within(t, CausalRange(alert))
  BY DEF KubernetesInv, ClusterOK
<1>3. CASE ~Supports(c)
  BY <1>1, <1>3, KubernetesCardSound
<1>4. CASE Supports(c)
  <2>1. \A b \in c.basis : b.of = l.of /\ b.at \in Nat /\ Within(b.at, CausalRange(alert))
    BY <1>1, <1>2, <1>4
  <2>2. CASE l.of # "twin"
    <3>1. l.of # None /\ c.about = l.of
      BY <1>1, <1>4, <2>2 DEF KubernetesInv, LogsOK
    <3>2. QED
      BY <1>1, <2>1, <3>1, KubernetesCardSound, OwnNames
  <2>3. CASE l.of = "twin" /\ alert.uid = None
    BY <1>1, <1>4, <2>1, <2>3, KubernetesCardSound, OwnNames
  <2>4. CASE l.of = "twin" /\ alert.uid # None
    <3>1. ReplacedSinceRead(c)
      BY <1>1, <2>4 DEF ReplacedSinceRead, KubernetesInv, LogsOK
    <3>2. Owned(c)
      BY <3>1 DEF Owned
    <3>3. Ended(alert) => Timely(c)
      <4> SUFFICES ASSUME Ended(alert), NEW b \in c.basis PROVE b.at <= LatestSupport
        BY DEF Timely
      <4>1. b.at <= alert.resolved
        BY <2>1, CausesPredate, TargetsAreDated DEF KubernetesInv
      <4>2. QED
        BY <4>1 DEF LatestSupport, KubernetesInv, Of
    <3>4. Whole(c)
      BY <1>1 DEF Whole
    <3>5. QED
      BY <3>2, <3>3, <3>4 DEF SoundCard
  <2>5. QED
    BY <2>2, <2>3, <2>4
<1>5. QED
  BY <1>3, <1>4

\* The node's conditions, by their own time stamps, and its cordon.
LEMMA NodeCardsSound == ASSUME KubernetesInv, NEW c \in ConditionCards \union CordonCards PROVE SoundCard(c)
<1> DEFINE stamps == {t \in {world.node.since, world.node.heartbeat} : Within(t, CausalRange(alert))}
<1>1. NodeRead /\ NodeName # None
  BY DEF ConditionCards, CordonCards, KubernetesInv, SweepOK
<1>2. CASE c \in ConditionCards
  <2>1. /\ c.kind = "node_condition" /\ c.about = NodeName
        /\ Supports(c) => /\ Firing(alert) \/ stamps # {}
                          /\ c.basis = {[of |-> NodeName, at |-> t] : t \in IF stamps # {} THEN stamps ELSE {Now}}
    BY <1>1, <1>2 DEF ConditionCards, Card, Supports
  <2>2. \A t \in stamps : t \in Nat /\ Within(t, CausalRange(alert))
    BY DEF KubernetesInv, ClusterOK
  <2>3. Supports(c) => \A b \in c.basis : b.of = NodeName
    BY <2>1
  <2>4. Supports(c) => \/ Firing(alert)
                       \/ \A b \in c.basis : b.at \in Nat /\ Within(b.at, CausalRange(alert))
    BY <2>1, <2>2
  <2>5. QED
    BY <1>1, <2>1, <2>3, <2>4, KubernetesCardSound, OwnNames
<1>3. CASE c \in CordonCards
  <2>1. c.kind = "node_cordon" /\ c.about = NodeName /\ (Supports(c) => Firing(alert) /\ \A b \in c.basis : b.of = NodeName)
    BY <1>3 DEF CordonCards, Card, Supports
  <2>2. QED
    BY <1>1, <2>1, KubernetesCardSound, OwnNames
<1>4. QED
  BY <1>2, <1>3

LEMMA ClusterCardsSound ==
  ASSUME KubernetesInv, NEW S, NEW r, NEW found, NEW c \in GpuCards(S, r) \union CrdCards(found)
  PROVE  SoundCard(c)
<1>1. CASE c \in GpuCards(S, r)
  <2>1. c.kind = "node_gpus" /\ (Supports(c) => c.about = "node" /\ Firing(alert) /\ \A b \in c.basis : b.of = "node")
    BY <1>1 DEF GpuCards, Card, Supports
  <2>2. QED
    BY <2>1, KubernetesCardSound, OwnNames DEF None
<1>2. CASE c \in CrdCards(found)
  <2>1. /\ c.kind = "runai_crd_health" /\ c.about = "crd" /\ ~Refutes(c)
        /\ Supports(c) => \E x : /\ c.basis = {[of |-> "crd", at |-> x.since]} /\ CausalRange(alert) # NoRange
                                 /\ x.since <= CausalRange(alert).end
    BY <1>2 DEF CrdCards, Card, Supports, Refutes
  <2>2. Owned(c)
    <3>1. Supports(c) => \A b \in c.basis : b.of = "crd"
      BY <2>1
    <3>2. QED
      BY <2>1, <3>1, OwnNames DEF Owned, None
  <2>3. ASSUME Ended(alert) PROVE Timely(c)
    <3>1. CausalRange(alert) # NoRange => CausalRange(alert).end = alert.resolved
      BY <2>3, RangesNest, TargetsAreDated DEF KubernetesInv
    <3>2. Supports(c) => \A b \in c.basis : b.at <= alert.resolved
      BY <2>1, <3>1
    <3>3. QED
      BY <3>2 DEF Timely, LatestSupport, KubernetesInv, Of
  <2>4. Whole(c)
    BY <2>1 DEF Whole
  <2>5. QED
    BY <2>2, <2>3, <2>4 DEF SoundCard
<1>3. QED
  BY <1>1, <1>2

----------------------------------------------------------------------------
(* Kubernetes: replies. *)

LEMMA RepliesAre ==
  /\ Failed.error = "failed" /\ NoReply.error = "none" /\ NotFound.error = "notfound"
  /\ \A r \in {Failed, NoReply, NotFound} : DOMAIN r = {"error", "page", "items", "pod"} /\ r.pod = NoPod
  /\ DOMAIN NoPod = {"who", "sym", "at"} /\ NoPod.who = None
BY DEF Failed, NoReply, NotFound, NoPod

\* A list of a sweep that is not a page of more holds every event.
LEMMA ListsAreWhole ==
  ASSUME NEW n \in EventReads, NEW via, NEW r \in Replies(n, via)
  PROVE  ListWhole(r)
<1>1. r = Failed \/ r \in ListReplies(via)
  BY DEF Replies
<1>2. CASE r = Failed
  BY <1>2, RepliesAre DEF ListWhole
<1>3. CASE r = [NoReply EXCEPT !.items = world.events] \/ r = [NoReply EXCEPT !.page = "bare", !.items = world.events]
  BY <1>3, RepliesAre DEF ListWhole
<1>4. CASE \E S \in SUBSET world.events : r = [NoReply EXCEPT !.page = "more", !.items = S]
  BY <1>4, RepliesAre DEF ListWhole
<1>5. QED
  BY <1>1, <1>2, <1>3, <1>4 DEF ListReplies

\* The pod a sweep found is there, is another one, or none.
LEMMA PodsAreSeen ==
  ASSUME ClusterOK, NEW via, NEW r \in Replies("pod", via), r.error = "none"
  PROVE  r.pod = world.pod \/ r.pod.who = "stranger"
<1>1. r \in PodReplies(via)
  BY RepliesAre DEF Replies, EventReads
<1>2. \/ world.pod.who # None /\ r = [NoReply EXCEPT !.pod = world.pod]
      \/ r = NotFound
      \/ r = [NoReply EXCEPT !.pod = [world.pod EXCEPT !.who = "stranger"]]
  BY <1>1 DEF PodReplies
<1>3. [world.pod EXCEPT !.who = "stranger"].who = "stranger"
  BY RepliesAre DEF ClusterOK
<1>4. QED
  BY <1>2, <1>3, RepliesAre

LEMMA NodesHaveNames ==
  ASSUME NEW via, NEW r \in Replies("node", via), r.error = "none"
  PROVE  r.pod.who # None
<1>1. r \in NodeReplies(via)
  BY RepliesAre DEF Replies, EventReads
<1>2. r = [NoReply EXCEPT !.pod.who = "node"] \/ r = [NoReply EXCEPT !.pod.who = "othernode"]
  BY <1>1 DEF NodeReplies
<1>3. r.pod.who \in {"node", "othernode"}
  BY <1>2, RepliesAre
<1>4. QED
  BY <1>3 DEF None

\* A sweep leaves the collector with whole lists, named nodes and a seen pod.
LEMMA SweepKeeps ==
  ASSUME KubernetesInv, NEW via, NEW f \in Swept(via), AfterSweep(via, f), UNCHANGED alert, UNCHANGED world
  PROVE  pc' \in {"logs", "describe"} /\ KubernetesInv'
<1> DEFINE choices == [n \in SweepNames |-> Replies(n, via)]
<1>1. DOMAIN f = SweepNames /\ \A n \in DOMAIN f : f[n] \in Replies(n, via)
  <2>1. f \in OneEach(choices)
    BY DEF Swept
  <2>2. DOMAIN f = DOMAIN choices /\ \A n \in DOMAIN f : f[n] \in choices[n]
    <3> HIDE DEF choices
    <3>1. QED
      BY <2>1, OneEachAnswers
  <2>3. QED
    BY <2>2
<1>2. /\ got' = [got EXCEPT !.via = via, !.sweep = f, !.pod = IF LogsAllowed(f) THEN SweptPod(f) ELSE NoPod]
      /\ pc' = IF alert.pod # None /\ InScope /\ LogsAllowed(f) THEN "logs" ELSE "describe"
  BY DEF AfterSweep
<1>3. /\ DOMAIN got' = DOMAIN got /\ got'.sweep = f /\ got'.anchor = got.anchor /\ got'.logs = got.logs
      /\ got'.pod \in {SweptPod(f), NoPod}
  BY <1>2 DEF KubernetesInv
<1>4. SweptPod(f) = world.pod \/ SweptPod(f).who \in {None, "stranger"}
  BY <1>1, PodsAreSeen, RepliesAre DEF SweptPod, KubernetesInv
<1>5. Was(got'.pod)
  BY <1>3, <1>4, RepliesAre DEF Was
<1>6. \A n \in DOMAIN f \intersect EventReads : ListWhole(f[n])
  BY <1>1, ListsAreWhole
<1>7. "node" \in DOMAIN f /\ f["node"].error = "none" => f["node"].pod.who # None
  BY <1>1, NodesHaveNames
<1>8. InScope => /\ alert.pod # None => "pod_events" \in DOMAIN f
                 /\ alert.workload # None => "workload_events" \in DOMAIN f
  BY <1>1 DEF SweepNames
<1>9. pc' = "logs" => StillThere
  <2> SUFFICES ASSUME LogsAllowed(f), alert.uid # None PROVE world.pod.who = "pod"
    BY <1>2 DEF StillThere
  <2>1. SweptPod(f).who = "pod"
    BY DEF LogsAllowed
  <2>2. QED
    BY <1>4, <2>1 DEF None
<1>10. ClusterOK' /\ AnchorOK' /\ Of("kubernetes")' /\ IsTarget(alert)'
  BY <1>3 DEF KubernetesInv, ClusterOK, AnchorOK, InScope, Standing, Of
<1>11. SweepOK'
  BY <1>3, <1>6, <1>7, <1>8 DEF SweepOK, ListWhole, NodeRead, NodeName, InScope
<1>12. PodSeen'
  BY <1>3, <1>5 DEF PodSeen, Was
<1>13. LogsOK'
  BY <1>3, <1>9 DEF KubernetesInv, LogsOK, StillThere
<1>14. QED
  BY <1>2, <1>3, <1>10, <1>11, <1>12, <1>13 DEF KubernetesInv

\* The pod that stands for a controller is owned by it, or is the only one of
\* its selector.
LEMMA AnchorsAreProven ==
  ASSUME ClusterOK, NEW selector \in BOOLEAN, NEW uidKnown \in BOOLEAN, NEW readable \in BOOLEAN,
         NEW an \in Anchors(selector, uidKnown, readable)
  PROVE  /\ an.pod \in {None, "child", "sibling"}
         /\ an.verified => an.pod \in Standing
<1> DEFINE ps == Candidates(selector)
           owned == OwnedPods(ps, uidKnown, readable)
           from == IF owned # {} THEN Diagnostic(owned) ELSE Diagnostic(ps)
<1>1. \/ an = NoAnchor
      \/ \E p \in from : an = [pod |-> p.who, verified |-> (uidKnown /\ p \in owned) \/ (selector /\ Cardinality(ps) = 1)]
  BY DEF Anchors
<1>2. CASE an = NoAnchor
  BY <1>2 DEF NoAnchor
<1>3. CASE \E p \in from : an = [pod |-> p.who, verified |-> (uidKnown /\ p \in owned) \/ (selector /\ Cardinality(ps) = 1)]
  <2>1. PICK p \in from : an = [pod |-> p.who, verified |-> (uidKnown /\ p \in owned) \/ (selector /\ Cardinality(ps) = 1)]
    BY <1>3
  <2>2. /\ an.pod = p.who
        /\ an.verified => (uidKnown /\ p \in owned) \/ (selector /\ Cardinality(ps) = 1)
    <3> DEFINE proven == (uidKnown /\ p \in owned) \/ (selector /\ Cardinality(ps) = 1)
    <3>1. an = [pod |-> p.who, verified |-> proven]
      BY <2>1
    <3> HIDE DEF proven
    <3>2. an.pod = p.who /\ an.verified = proven
      BY <3>1
    <3>3. an.verified => proven
      BY <3>2, Zenon
    <3>4. QED
      BY <3>2, <3>3 DEF proven
  <2>3. ps \subseteq world.pods
    BY DEF Candidates
  <2>4. owned \subseteq ps /\ (uidKnown => \A o \in owned : o.who = "child")
    BY DEF OwnedPods
  <2>5. p \in ps
    <3>1. \A R : Diagnostic(R) \subseteq R
      BY DEF Diagnostic
    <3>2. QED
      BY <2>4, <3>1
  <2>6. an.pod \in {"child", "sibling"}
    BY <2>2, <2>3, <2>5 DEF ClusterOK
  <2>7. CASE uidKnown /\ p \in owned
    BY <2>2, <2>4, <2>6, <2>7 DEF Standing
  <2>8. CASE selector /\ Cardinality(ps) = 1
    <3>1. ps = {o \in world.pods : o.labelled}
      BY <2>8 DEF Candidates
    <3>2. p.who \in Standing
      <4> HIDE DEF ps
      <4>1. QED
        BY <2>5, <2>8, <3>1 DEF Standing
    <3>3. QED
      BY <2>2, <2>6, <3>2
  <2>9. QED
    BY <2>2, <2>6, <2>7, <2>8
<1>4. QED
  BY <1>1, <1>2, <1>3

----------------------------------------------------------------------------
(* Kubernetes: the steps. *)

KubernetesPhase == {"resolve", "sweep", "direct", "logs", "describe", "interpret"}

\* The invariant while nothing happens outside, by what a step changes of got.
LEMMA KubernetesKeeps ==
  ASSUME KubernetesInv, UNCHANGED alert, UNCHANGED world, DOMAIN got' = DOMAIN got,
         got'.anchor = got.anchor, got'.sweep = got.sweep \/ DOMAIN got'.sweep = {},
         pc' # "logs",
         pc' \in {"describe", "interpret"} => pc \in {"logs", "describe"} /\ got'.sweep = got.sweep,
         Was(got'.pod),
         \A l \in got'.logs : /\ l.of = None => l.error
                              /\ l.of = "twin" /\ alert.uid # None => world.churn /\ world.pod.who = "twin"
  PROVE  KubernetesInv'
<1>1. ClusterOK' /\ Of("kubernetes")' /\ IsTarget(alert)'
  BY DEF KubernetesInv, ClusterOK, Of
<1>2. AnchorOK'
  BY DEF KubernetesInv, AnchorOK, InScope, Standing
<1>3. SweepOK'
  BY DEF KubernetesInv, SweepOK, ListWhole, NodeRead, NodeName, InScope
<1>4. PodSeen' /\ LogsOK'
  BY DEF PodSeen, Was, LogsOK
<1>5. QED
  BY <1>1, <1>2, <1>3, <1>4 DEF KubernetesInv

\* A log is of the pod it was asked of, or an error where there is none.
LEMMA LogsAreOf ==
  ASSUME NEW of, NEW l \in LogReplies(of)
  PROVE  l.of = of /\ (of = None => l.error)
<1> DEFINE reply(error, source, timed) ==
             [of |-> of, error |-> error \/ of = None, source |-> source, timed |-> timed]
<1>1. PICK error, source, timed : l = reply(error, source, timed)
  BY DEF LogReplies
<1> DEFINE failed == error \/ of = None
<1>2. l = [of |-> of, error |-> failed, source |-> source, timed |-> timed]
  BY <1>1
<1> HIDE DEF failed
<1>3. l.of = of /\ l.error = failed
  BY <1>2
<1>4. failed => l.error
  BY <1>3, Zenon
<1>5. of = None => failed
  BY DEF failed
<1>6. QED
  BY <1>3, <1>4, <1>5

LEMMA InterpretSound ==
  ASSUME KubernetesInv, Interpret
  PROVE  pc' = "done" /\ UNCHANGED <<alert, world>> /\ \A c \in cards' : SoundCard(c)
<1>1. pc = "interpret" /\ pc' = "done" /\ UNCHANGED <<alert, world>>
  BY DEF Interpret
<1>2. PICK found, r, status :
        cards' = {LifecycleCard, ContainerCard, EventCard(status)}
                 \union SchedulingCards \union QueueCards \union ClaimCards \union LogCards
                 \union ConditionCards \union CordonCards
                 \union GpuCards(CausalEvents, r) \union CrdCards(found)
  BY DEF Interpret
<1>3. SoundCard(LifecycleCard) /\ SoundCard(ContainerCard) /\ SoundCard(EventCard(status))
  BY <1>1, LifecycleCardSound, ContainerCardSound, EventCardSound
<1>4. \A c \in SchedulingCards \union QueueCards \union ClaimCards : SoundCard(c)
  BY PodStateCardsSound
<1>5. \A c \in LogCards : SoundCard(c)
  BY LogCardsSound
<1>6. \A c \in ConditionCards \union CordonCards : SoundCard(c)
  BY NodeCardsSound
<1>7. \A c \in GpuCards(CausalEvents, r) \union CrdCards(found) : SoundCard(c)
  BY ClusterCardsSound
<1>8. \A c \in cards' : SoundCard(c)
  BY <1>2, <1>3, <1>4, <1>5, <1>6, <1>7
<1>9. QED
  BY <1>1, <1>8

\* A replacement leaves the pod that was seen among those that are gone.
LEMMA ReplacedKeeps == ASSUME KubernetesInv, Replaced PROVE pc' = pc /\ cards' = cards /\ KubernetesInv'
<1>1. /\ world' = [world EXCEPT !.pod.who = "twin", !.pod.sym = "healthy", !.gone = @ \union {world.pod}]
      /\ world.pod.who = "pod" /\ world.churn
      /\ UNCHANGED alert /\ UNCHANGED got /\ UNCHANGED pc /\ UNCHANGED cards
  BY DEF Replaced
<1>2. /\ DOMAIN world' = DOMAIN world /\ world'.gone = world.gone \union {world.pod}
      /\ world'.pod = [world.pod EXCEPT !.who = "twin", !.sym = "healthy"]
      /\ world'.collector = world.collector /\ world'.allowed = world.allowed /\ world'.churn = world.churn
      /\ world'.pods = world.pods /\ world'.node = world.node
      /\ world'.events = world.events /\ world'.lines = world.lines
  BY <1>1 DEF KubernetesInv, ClusterOK
<1>3. DOMAIN world'.pod = DOMAIN world.pod /\ world'.pod.who = "twin" /\ world'.pod.at = world.pod.at
  BY <1>2, RepliesAre DEF KubernetesInv, ClusterOK
<1>4. ClusterOK' /\ Of("kubernetes")'
  <2>1. \A p \in {world'.pod} \union world'.pods \union world'.gone : p.at \in Nat
    <3>1. \A p \in {world.pod} \union world.pods \union world.gone : p.at \in Nat
      BY DEF KubernetesInv, ClusterOK
    <3>2. world'.pods = world.pods /\ world'.gone = world.gone \union {world.pod} /\ world'.pod.at = world.pod.at
      BY <1>2, <1>3
    <3>3. world'.pod.at \in Nat
      BY <3>1, <3>2
    <3>4. \A p \in world'.pods \union world'.gone : p.at \in Nat
      BY <3>1, <3>2
    <3>5. QED
      BY <3>3, <3>4
  <2>2. Of("kubernetes")'
    BY <1>2 DEF KubernetesInv, Of
  <2>3. DOMAIN world'.pod = DOMAIN NoPod' /\ world'.pod.who \in {"pod", "twin", None}
    BY <1>3 DEF KubernetesInv, ClusterOK, NoPod
  <2>4. ClusterOK'
    BY <1>1, <1>2, <2>1, <2>3 DEF KubernetesInv, ClusterOK
  <2>5. QED
    BY <2>2, <2>4
<1>5. AnchorOK'
  BY <1>1, <1>2 DEF KubernetesInv, AnchorOK, InScope, Standing
<1>6. SweepOK'
  BY <1>1, <1>2 DEF KubernetesInv, SweepOK, ListWhole, NodeRead, NodeName, InScope
<1>7. PodSeen'
  BY <1>1, <1>2 DEF KubernetesInv, PodSeen, Was
<1>8. LogsOK'
  BY <1>1, <1>2, <1>3 DEF KubernetesInv, LogsOK, StillThere
<1>9. QED
  BY <1>1, <1>4, <1>5, <1>6, <1>7, <1>8 DEF KubernetesInv

LEMMA KubernetesStep ==
  ASSUME KubernetesInv, pc \in KubernetesPhase, cards = {}, KubernetesNext
  PROVE  \/ pc' \in KubernetesPhase /\ cards' = {} /\ KubernetesInv'
         \/ pc' = "done" /\ UNCHANGED <<alert, world>> /\ \A c \in cards' : SoundCard(c)
<1> USE DEF KubernetesPhase
<1>1. CASE Replaced
  BY <1>1, ReplacedKeeps
<1>2. CASE ResolvePod
  <2>1. UNCHANGED alert /\ UNCHANGED world /\ cards' = {} /\ pc' = "sweep"
    BY <1>2 DEF ResolvePod
  <2>2. CASE UNCHANGED got
    <3>1. KubernetesInv'
      BY <2>1, <2>2, KubernetesKeeps DEF KubernetesInv, PodSeen, LogsOK
    <3>2. QED
      BY <2>1, <3>1
  <2>3. CASE ~UNCHANGED got
    <3>1. PICK selector \in BOOLEAN, uidKnown \in BOOLEAN, readable \in BOOLEAN :
            \E an \in Anchors(selector, uidKnown, readable) : got' = [got EXCEPT !.anchor = an]
      BY <1>2, <2>3 DEF ResolvePod
    <3>2. PICK an \in Anchors(selector, uidKnown, readable) : got' = [got EXCEPT !.anchor = an]
      BY <3>1
    <3>3. alert.pod = None /\ InScope /\ alert.workload # None
      BY <1>2, <2>3 DEF ResolvePod
    <3>4. /\ an.pod \in {None, "child", "sibling"}
          /\ an.verified => an.pod \in Standing
      BY AnchorsAreProven DEF KubernetesInv
    <3>5. /\ DOMAIN got' = DOMAIN got /\ got'.anchor = an /\ got'.sweep = got.sweep /\ got'.logs = got.logs
          /\ got'.pod = got.pod
      BY <3>2 DEF KubernetesInv
    <3>6. AnchorOK'
      BY <2>1, <3>3, <3>4, <3>5 DEF AnchorOK, InScope, Standing
    <3>7. ClusterOK' /\ Of("kubernetes")' /\ IsTarget(alert)'
      BY <2>1 DEF KubernetesInv, ClusterOK, Of
    <3>8. SweepOK' /\ PodSeen' /\ LogsOK'
      BY <2>1, <3>5 DEF KubernetesInv, SweepOK, ListWhole, NodeRead, NodeName, InScope, PodSeen, Was, LogsOK
    <3>9. QED
      BY <2>1, <3>5, <3>6, <3>7, <3>8 DEF KubernetesInv
  <2>4. QED
    BY <2>2, <2>3
<1>3. CASE SweepMcp \/ SweepDirect
  <2>1. UNCHANGED alert /\ UNCHANGED world /\ cards' = {}
    BY <1>3 DEF SweepMcp, SweepDirect
  <2>2. PICK via \in {"mcp", "direct"} : \E f \in Swept(via) : AfterSweep(via, f)
    BY <1>3 DEF SweepMcp, SweepDirect
  <2>3. QED
    BY <2>1, <2>2, SweepKeeps
<1>4. CASE McpFails
  <2>1. UNCHANGED alert /\ UNCHANGED world /\ cards' = {} /\ pc' = "direct" /\ got' = [NothingRead EXCEPT !.anchor = got.anchor]
    BY <1>4 DEF McpFails
  <2>2. /\ DOMAIN got' = DOMAIN got /\ got'.anchor = got.anchor /\ DOMAIN got'.sweep = {} /\ got'.logs = {}
        /\ got'.pod = NoPod
    BY <2>1 DEF NothingRead, KubernetesInv
  <2>3. Was(got'.pod)
    BY <2>2, RepliesAre DEF Was
  <2>4. KubernetesInv'
    BY <2>1, <2>2, <2>3, KubernetesKeeps
  <2>5. QED
    BY <2>1, <2>4
<1>5. CASE NoToken
  BY <1>5 DEF NoToken
<1>6. CASE ReadLogs
  <2>1. UNCHANGED alert /\ UNCHANGED world /\ cards' = {} /\ pc = "logs" /\ pc' = "describe"
    BY <1>6 DEF ReadLogs
  <2>2. PICK l \in LogReplies(world.pod.who) : got' = [got EXCEPT !.logs = {l}]
    BY <1>6 DEF ReadLogs
  <2>3. DOMAIN got' = DOMAIN got /\ got'.anchor = got.anchor /\ got'.sweep = got.sweep /\ got'.pod = got.pod /\ got'.logs = {l}
    BY <2>2 DEF KubernetesInv
  <2>4. /\ l.of = None => l.error
        /\ l.of = "twin" /\ alert.uid # None => world.churn /\ world.pod.who = "twin"
    BY <2>1, LogsAreOf DEF KubernetesInv, LogsOK, StillThere
  <2>5. KubernetesInv'
    BY <2>1, <2>3, <2>4, KubernetesKeeps DEF KubernetesInv, PodSeen
  <2>6. QED
    BY <2>1, <2>5
<1>7. CASE Describe
  <2>1. UNCHANGED alert /\ UNCHANGED world /\ cards' = {} /\ pc = "describe" /\ pc' = "interpret"
    BY <1>7 DEF Describe
  <2>2. UNCHANGED got \/ \E evs : got' = [got EXCEPT !.pod = world.pod, !.described = evs]
    BY <1>7 DEF Describe
  <2>3. /\ DOMAIN got' = DOMAIN got /\ got'.anchor = got.anchor /\ got'.sweep = got.sweep /\ got'.logs = got.logs
        /\ got'.pod \in {got.pod, world.pod}
    BY <2>2 DEF KubernetesInv
  <2>4. Was(got'.pod)
    BY <2>3 DEF KubernetesInv, PodSeen, Was
  <2>5. KubernetesInv'
    BY <2>1, <2>3, <2>4, KubernetesKeeps DEF KubernetesInv, LogsOK
  <2>6. QED
    BY <2>1, <2>5
<1>8. CASE DescribeAnchor
  <2>1. UNCHANGED alert /\ UNCHANGED world /\ cards' = {} /\ pc = "describe" /\ pc' = "interpret"
    BY <1>8 DEF DescribeAnchor
  <2>2. CASE UNCHANGED got
    <3>1. KubernetesInv'
      BY <2>1, <2>2, KubernetesKeeps DEF KubernetesInv, PodSeen, LogsOK
    <3>2. QED
      BY <2>1, <3>1
  <2>3. CASE ~UNCHANGED got
    <3> DEFINE Seen(p) == [who |-> p.who, sym |-> p.sym, at |-> p.at]
               Ends(p, l, pod, evs) == /\ l \in LogReplies(p.who)
                                       /\ pod \in {Seen(p), NoPod}
                                       /\ got' = [got EXCEPT !.pod = pod, !.described = evs, !.logs = {l}]
    <3>1. \E p \in world.pods : \E l, pod, evs : Ends(p, l, pod, evs)
      <4>1. PICK p \in world.pods : \E read \in BOOLEAN : \E l \in LogReplies(p.who) :
              got' = [got EXCEPT !.pod = IF read THEN Seen(p) ELSE NoPod,
                                 !.described = IF read THEN DescribedEvents(p) ELSE {},
                                 !.logs = {l}]
        BY <1>8, <2>3 DEF DescribeAnchor
      <4>2. PICK read \in BOOLEAN, l \in LogReplies(p.who) :
              got' = [got EXCEPT !.pod = IF read THEN Seen(p) ELSE NoPod,
                                 !.described = IF read THEN DescribedEvents(p) ELSE {},
                                 !.logs = {l}]
        BY <4>1
      <4>3. CASE read
        <5>1. Ends(p, l, Seen(p), DescribedEvents(p))
          BY <4>2, <4>3
        <5> HIDE DEF Ends
        <5>2. QED
          BY <5>1, Zenon
      <4>4. CASE ~read
        <5>1. Ends(p, l, NoPod, {})
          BY <4>2, <4>4
        <5> HIDE DEF Ends
        <5>2. QED
          BY <5>1, Zenon
      <4>5. QED
        BY <4>3, <4>4
    <3>2. PICK p \in world.pods : \E l, pod, evs : Ends(p, l, pod, evs)
      BY <3>1
    <3>3. PICK l, pod, evs : Ends(p, l, pod, evs)
      BY <3>2
    <3>4. /\ DOMAIN got' = DOMAIN got /\ got'.anchor = got.anchor /\ got'.sweep = got.sweep
          /\ got'.pod = pod /\ got'.logs = {l}
      BY <3>2, <3>3 DEF KubernetesInv
    <3>5. Was(pod)
      BY <3>2, <3>3, RepliesAre DEF Was
    <3>6. l.of = p.who /\ p.who \in {"child", "sibling"}
      BY <3>2, <3>3, LogsAreOf DEF KubernetesInv, ClusterOK
    <3>7. KubernetesInv'
      BY <2>1, <3>4, <3>5, <3>6, KubernetesKeeps DEF None
    <3>8. QED
      BY <2>1, <3>7
  <2>4. QED
    BY <2>2, <2>3
<1>9. CASE Interpret
  BY <1>9, InterpretSound
<1>10. QED
  BY <1>1, <1>2, <1>3, <1>4, <1>5, <1>6, <1>7, <1>8, <1>9 DEF KubernetesNext

----------------------------------------------------------------------------
(* All collectors. *)

LokiPhase == {"ask_loki", "direct_loki"}
PrometheusPhase == {"ask_prometheus", "direct_prometheus"}
ChangePhase == {"ask_change", "sweep_change"}
RunaiPhase == {"begin_runai", "mcp", "direct_runai", "queue", "retry", "again"}
PostgresPhase == {"begin_postgres", "direct_postgres"}
ResolvingPhase == Resolving \union {"planned"}

ResolvingInv == world.collector \notin SixCollectors /\ NodeWorld(world) /\ Dated /\ DOMAIN alert = TargetFields

CardsSound == \A c \in cards : SoundCard(c)

\* Every collector works by its own facts, and has published nothing before it ends.
CollectInv ==
  /\ CardsSound
  /\ pc \in KubernetesPhase => cards = {} /\ KubernetesInv
  /\ pc \in LokiPhase => cards = {} /\ LokiInv
  /\ pc \in PrometheusPhase => cards = {} /\ PrometheusInv
  /\ pc \in ChangePhase => cards = {} /\ ChangeInv
  /\ pc \in RunaiPhase => cards = {} /\ RunaiInv
  /\ pc \in PostgresPhase => cards = {} /\ PostgresInv
  /\ pc \in {"find", "scan"} => NodeInv
  /\ pc \in ResolvingPhase => cards = {} /\ ResolvingInv

\* A step is one of the collector, or of the resolution, that pc is at.
LEMMA StepsInPhase ==
  ASSUME EvidenceNext
  PROVE  \/ pc \in KubernetesPhase /\ KubernetesNext
         \/ pc \in LokiPhase /\ LokiNext
         \/ pc \in PrometheusPhase /\ PrometheusNext
         \/ pc \in ChangePhase /\ ChangeNext
         \/ pc \in RunaiPhase /\ RunaiNext
         \/ pc \in PostgresPhase /\ PostgresNext
         \/ pc = "raised" /\ CollectSafely
         \/ pc \in ResolvingPhase /\ (ResolutionNext \/ StartCollecting)
         \/ pc \in {"find", "scan"} /\ NodeNext
<1>1. KubernetesNext => pc \in KubernetesPhase
  BY DEF KubernetesPhase, KubernetesNext, Replaced, ResolvePod, SweepMcp, McpFails, SweepDirect, NoToken,
         ReadLogs, Describe, DescribeAnchor, Interpret
<1>2. LokiNext => pc \in LokiPhase
  BY DEF LokiPhase, LokiNext, AskLokiMcp, LokiMcpFails, AskLoki, NoLoki
<1>3. PrometheusNext => pc \in PrometheusPhase
  BY DEF PrometheusPhase, PrometheusNext, AskPrometheusMcp, PrometheusMcpFails, AskPrometheus, NoPrometheus
<1>4. ChangeNext => pc \in ChangePhase
  BY DEF ChangePhase, ChangeNext, BeginSweep, NoSweep, BeginQuery, ReadSource, ConcludeSweep, Repeats
<1>5. RunaiNext => pc \in RunaiPhase
  BY DEF RunaiPhase, RunaiNext, RunaiUnconfigured, RunaiUnauthorized, RunaiToken, RunaiMcp, RunaiDirect,
         RunaiQueue, RunaiRetry, RunaiAgain, RunaiConclude, WorkloadDeleted
<1>6. PostgresNext => pc \in PostgresPhase
  BY DEF PostgresPhase, PostgresNext, PostgresMcp, PostgresMcpFails, PostgresDirect, PostgresUnavailable,
         PostgresRaises, Direct
<1>7. CollectSafely => pc = "raised"
  BY DEF CollectSafely
<1>8. ResolutionNext \/ StartCollecting => pc \in ResolvingPhase
  BY DEF ResolvingPhase, Resolving, ResolutionNext, Pin, ReadProse, DeriveNode, Skip, GetPod, ListPods, ChooseExact,
         ChooseReplacement, ChooseEvents, Apply, PodMoves, Proceed, StartCollecting
<1>9. NodeNext => pc \in {"find", "scan"}
  BY DEF NodeNext, NodeUnconfigured, NodeNamed, NodeFromPod, ScanAll, NoNode, ScanNode, ScansConclude,
         NodeQuery, Unnamed
<1>10. QED
  BY <1>1, <1>2, <1>3, <1>4, <1>5, <1>6, <1>7, <1>8, <1>9 DEF EvidenceNext

\* What a card proves depends on the alert and the world alone.
LEMMA SoundStays ==
  ASSUME UNCHANGED alert, UNCHANGED world, \A c \in cards' : SoundCard(c)
  PROVE  CardsSound'
<1>1. ASSUME NEW c, SoundCard(c) PROVE SoundCard(c)'
  <2>1. \A r : Of(r)' = Of(r)
    BY DEF Of
  <2>2. IncidentRange(alert)' = IncidentRange(alert) /\ CausalRange(alert)' = CausalRange(alert)
        /\ Ended(alert)' = Ended(alert) /\ Firing(alert)' = Firing(alert) /\ InScope' = InScope
    BY DEF IncidentRange, CausalRange, Ended, Firing, InScope
  <2>3. Owned(c)' = Owned(c)
    <3>1. \A n : NamesakesOf(n)' = NamesakesOf(n) /\ SpokenFor(n)' = SpokenFor(n)
      BY <2>1 DEF NamesakesOf, SpokenFor, Standing
    <3>2. ReplacedSinceRead(c)' = ReplacedSinceRead(c) /\ \A t : BeyondRange(t)' = BeyondRange(t)
      BY <2>1, <2>2 DEF ReplacedSinceRead, BeyondRange, Within
    <3>3. QED
      BY <3>1, <3>2 DEF Owned, Supports
  <2>4. Timely(c)' = Timely(c)
    BY <2>1, <2>2 DEF Timely, Supports, StoppedForGood, LatestSupport
  <2>5. Contradicted(c)' = Contradicted(c)
    <3>1. MissedEvents' = MissedEvents
      BY <2>2 DEF MissedEvents, NewerWarnings, IsNamedPod, IsWorkload, Overlaps, Within
    <3>2. MissedLines' = MissedLines
      BY <2>2 DEF MissedLines, OfTarget, Within
    <3>3. \A q : MissedSamples(q)' = MissedSamples(q)
      BY <2>2 DEF MissedSamples, Within
    <3>4. \A a : MissedChanges(a)' = MissedChanges(a)
      BY <2>2 DEF MissedChanges, SourcesOf, NamespaceSources, NodeSources, DependencySources, IsChange,
                  ChangedRecently, InWindow, ChangeRange, Historical, ExactPod, ExactNode, ExactController, Within
    <3>5. \A tb : TargetRows(tb)' = TargetRows(tb)
      BY <2>2 DEF TargetRows, IdentityColumns, Strong, Matches, InScopeRow, Within
    <3>6. ById' = ById
      BY DEF ById
    <3>7. QED
      BY <2>1, <2>2, <3>1, <3>2, <3>3, <3>4, <3>5, <3>6 DEF Contradicted
  <2>6. Whole(c)' = Whole(c)
    BY <2>5 DEF Whole, Refutes
  <2>7. QED
    BY <1>1, <2>2, <2>3, <2>4, <2>6 DEF SoundCard
<1>2. QED
  BY <1>1 DEF CardsSound

LEMMA LokiStep ==
  ASSUME LokiInv, cards = {}, LokiNext
  PROVE  \/ pc' = "direct_loki" /\ cards' = {} /\ LokiInv'
         \/ pc' = "done" /\ UNCHANGED <<alert, world>> /\ \A c \in cards' : SoundCard(c)
<1>1. CASE AskLokiMcp \/ AskLoki
  <2>1. PICK via \in {"mcp", "direct"} : \E f \in LokiReplies(via) : LogsConclude(f)
    BY <1>1 DEF AskLokiMcp, AskLoki
  <2>2. PICK f \in LokiReplies(via) : LogsConclude(f)
    BY <2>1
  <2>3. \A q \in DOMAIN f : SoundCard(LogCard(q, f[q], Covered(f)))
    BY LogCardSound
  <2>4. QED
    BY <2>2, <2>3 DEF LogsConclude
<1>2. CASE LokiMcpFails
  BY <1>2 DEF LokiMcpFails, LokiInv, Of
<1>3. CASE NoLoki
  BY <1>3 DEF NoLoki
<1>4. QED
  BY <1>1, <1>2, <1>3 DEF LokiNext

LEMMA PrometheusStep ==
  ASSUME PrometheusInv, cards = {}, PrometheusNext
  PROVE  \/ pc' = "direct_prometheus" /\ cards' = {} /\ PrometheusInv'
         \/ pc' = "done" /\ UNCHANGED <<alert, world>> /\ \A c \in cards' : SoundCard(c)
<1>1. CASE AskPrometheusMcp \/ AskPrometheus
  <2>1. PICK via \in {"mcp", "direct"} : \E f \in MetricReplies(via) : MetricsConclude(f)
    BY <1>1 DEF AskPrometheusMcp, AskPrometheus
  <2>2. PICK f \in MetricReplies(via) : MetricsConclude(f)
    BY <2>1
  <2>3. \A q \in DOMAIN f : SoundCard(MetricCard(q, f))
    BY MetricCardSound
  <2>4. QED
    BY <2>2, <2>3 DEF MetricsConclude
<1>2. CASE PrometheusMcpFails
  BY <1>2 DEF PrometheusMcpFails, PrometheusInv, Of
<1>3. CASE NoPrometheus
  BY <1>3 DEF NoPrometheus
<1>4. QED
  BY <1>1, <1>2, <1>3 DEF PrometheusNext

\* The target is settled without a card, and leaves the alert's time stamps.
LEMMA ResolvingStep ==
  ASSUME pc \in ResolvingPhase, cards = {}, ResolvingInv, ResolutionNext \/ StartCollecting
  PROVE  \/ pc' \in ResolvingPhase /\ cards' = {} /\ ResolvingInv'
         \/ pc' = "find" /\ cards' = {} /\ NodeInv'
<1>1. CASE StartCollecting
  <2>1. UNCHANGED alert /\ UNCHANGED world /\ cards' = {} /\ pc' = "find" /\ got' = NoScan
    BY <1>1 DEF StartCollecting
  <2>2. QED
    BY <2>1 DEF NodeInv, ResolvingInv, Dated, NoScan
<1>2. CASE Apply
  <2>1. UNCHANGED world /\ cards' = {} /\ pc' = "planned"
    BY <1>2 DEF Apply
  <2>2. DOMAIN alert' = DOMAIN alert /\ alert'.fired = alert.fired /\ alert'.resolved = alert.resolved
    BY <1>2 DEF Apply, ResolvingInv, TargetFields, Target
  <2>3. QED
    BY <2>1, <2>2 DEF ResolvingInv, ResolvingPhase, Resolving, Dated
<1>3. CASE PodMoves
  <2>1. PICK live, ran : world' = [world EXCEPT !.live = live, !.ran = ran, !.churn = FALSE]
    BY <1>3 DEF PodMoves
  <2>2. UNCHANGED alert /\ cards' = {} /\ pc' = pc
    BY <1>3 DEF PodMoves
  <2>3. /\ DOMAIN world' = DOMAIN world /\ world'.collector = world.collector
        /\ world'.machines = world.machines /\ world'.placements = world.placements
    BY <2>1 DEF ResolvingInv, NodeWorld
  <2>4. QED
    BY <2>2, <2>3 DEF ResolvingInv, NodeWorld, Dated
<1>4. CASE Pin \/ ReadProse \/ DeriveNode \/ Skip \/ GetPod \/ ListPods \/ ChooseExact \/ ChooseReplacement \/ ChooseEvents
  <2>1. PICK from, to \in ResolvingPhase : Proceed(from, to)
    BY <1>4 DEF Pin, ReadProse, DeriveNode, Skip, GetPod, ListPods, ChooseExact, ChooseReplacement,
                ChooseEvents, ResolvingPhase, Resolving
  <2>2. UNCHANGED alert /\ UNCHANGED world /\ cards' = {} /\ pc' \in ResolvingPhase
    BY <2>1 DEF Proceed
  <2>3. QED
    BY <2>2 DEF ResolvingInv, Dated
<1>5. QED
  BY <1>1, <1>2, <1>3, <1>4 DEF ResolutionNext

LEMMA CollectInvInit == EvidenceStart => CollectInv
<1> SUFFICES ASSUME EvidenceStart PROVE CollectInv
  OBVIOUS
<1> USE DEF KubernetesPhase, LokiPhase, PrometheusPhase, ChangePhase, RunaiPhase, PostgresPhase, ResolvingPhase, Resolving
<1>1. IsTarget(alert) /\ Dated /\ Observable(alert, world) /\ EvidenceInit(alert, world)
  BY TargetsAreDated DEF EvidenceStart
<1>2. cards = {}
  BY <1>1 DEF EvidenceInit, KubernetesInit, LokiInit, PrometheusInit, ChangeInit, RunaiInit, PostgresInit,
              NodeInit, ResolutionInit
<1>3. CASE Of("kubernetes")
  <2>1. pc = "resolve" /\ got = NothingRead /\ KubernetesWorld(alert, world)
    BY <1>1, <1>3 DEF EvidenceInit, Observable, KubernetesInit, Of
  <2>2. ClusterOK
    BY <2>1 DEF KubernetesWorld, ClusterOK
  <2>3. KubernetesInv
    BY <1>1, <1>3, <2>1, <2>2, RepliesAre
       DEF KubernetesInv, NothingRead, NoAnchor, AnchorOK, SweepOK, NodeRead, PodSeen, Was, LogsOK
  <2>4. QED
    BY <1>2, <2>1, <2>3 DEF CollectInv, CardsSound
<1>4. CASE Of("loki")
  <2>1. pc = "ask_loki" /\ LokiWorld(world)
    BY <1>1, <1>4 DEF EvidenceInit, Observable, LokiInit, Of
  <2>2. QED
    BY <1>1, <1>2, <1>4, <2>1 DEF CollectInv, CardsSound, LokiInv
<1>5. CASE Of("prometheus")
  <2>1. pc = "ask_prometheus"
    BY <1>1, <1>5 DEF EvidenceInit, PrometheusInit, Of
  <2>2. QED
    BY <1>1, <1>2, <1>5, <2>1 DEF CollectInv, CardsSound, PrometheusInv
<1>6. CASE Of("change")
  <2>1. pc = "ask_change" /\ got = NoChanges /\ ChangeWorld(world)
    BY <1>1, <1>6 DEF EvidenceInit, Observable, ChangeInit, Of
  <2>2. ChangeInv
    BY <1>1, <1>6, <2>1 DEF ChangeInv, NoChanges
  <2>3. QED
    BY <1>2, <2>1, <2>2 DEF CollectInv, CardsSound
<1>7. CASE Of("runai")
  <2>1. pc = "begin_runai" /\ got = NoAnswers /\ RunaiWorld(world)
    BY <1>1, <1>7 DEF EvidenceInit, Observable, RunaiInit, Of
  <2>2. RunaiInv
    BY <1>1, <1>7, <2>1 DEF RunaiInv, NoAnswers
  <2>3. QED
    BY <1>2, <2>1, <2>2 DEF CollectInv, CardsSound
<1>8. CASE Of("postgres")
  <2>1. pc = "begin_postgres" /\ PostgresWorld(world)
    BY <1>1, <1>8 DEF EvidenceInit, Observable, PostgresInit, Of
  <2>2. QED
    BY <1>1, <1>2, <1>8, <2>1 DEF CollectInv, CardsSound, PostgresInv
<1>9. CASE world.collector \notin SixCollectors
  <2>1. NodeWorld(world)
    BY <1>1, <1>9 DEF Observable, SixCollectors
  <2>2. CASE pc = "find"
    <3>1. got = NoScan
      BY <1>1, <1>9, <2>2 DEF EvidenceInit, SixCollectors, NodeInit, ResolutionInit
    <3>2. NodeInv
      BY <1>1, <1>9, <2>1, <3>1 DEF NodeInv, NoScan
    <3>3. QED
      BY <1>2, <2>2, <3>2 DEF CollectInv, CardsSound
  <2>3. CASE pc = "pin"
    <3>1. ResolvingInv
      BY <1>1, <1>9, <2>1 DEF ResolvingInv, IsTarget
    <3>2. QED
      BY <1>2, <2>3, <3>1 DEF CollectInv, CardsSound
  <2>4. QED
    BY <1>1, <1>9, <2>2, <2>3 DEF EvidenceInit, SixCollectors, NodeInit, ResolutionInit
<1>10. QED
  BY <1>3, <1>4, <1>5, <1>6, <1>7, <1>8, <1>9 DEF Of, SixCollectors

LEMMA CollectInvNext == CollectInv /\ [EvidenceNext]_vars => CollectInv'
<1> SUFFICES ASSUME CollectInv, [EvidenceNext]_vars PROVE CollectInv'
  OBVIOUS
<1> USE DEF KubernetesPhase, LokiPhase, PrometheusPhase, ChangePhase, RunaiPhase, PostgresPhase, ResolvingPhase, Resolving
\* What ends, ends with sound cards.
<1>1. ASSUME pc' \in {"done", "raised"}, UNCHANGED <<alert, world>>, \A c \in cards' : SoundCard(c)
      PROVE  CollectInv'
  BY <1>1, SoundStays DEF CollectInv
<1>2. ASSUME cards' = {} PROVE CardsSound'
  BY <1>2 DEF CardsSound
<1>3. CASE pc \in KubernetesPhase /\ KubernetesNext
  BY <1>1, <1>2, <1>3, KubernetesStep DEF CollectInv
<1>4. CASE pc \in LokiPhase /\ LokiNext
  BY <1>1, <1>2, <1>4, LokiStep DEF CollectInv
<1>5. CASE pc \in PrometheusPhase /\ PrometheusNext
  BY <1>1, <1>2, <1>5, PrometheusStep DEF CollectInv
<1>6. CASE pc \in ChangePhase /\ ChangeNext
  BY <1>1, <1>2, <1>6, ChangeStep DEF CollectInv
<1>7. CASE pc \in RunaiPhase /\ RunaiNext
  BY <1>1, <1>2, <1>7, RunaiStep DEF CollectInv
<1>8. CASE pc \in PostgresPhase /\ PostgresNext
  BY <1>1, <1>2, <1>8, PostgresStep DEF CollectInv
<1>9. CASE pc = "raised" /\ CollectSafely
  BY <1>1, <1>9 DEF CollectSafely, CollectInv, CardsSound
<1>10. CASE pc \in ResolvingPhase /\ (ResolutionNext \/ StartCollecting)
  BY <1>2, <1>10, ResolvingStep DEF CollectInv
<1>11. CASE pc \in {"find", "scan"} /\ NodeNext
  <2>1. /\ UNCHANGED <<alert, world>> /\ \A c \in cards' : SoundCard(c)
        /\ pc' = "done" \/ (pc' = "scan" /\ NodeInv')
    BY <1>11, NodeStep DEF CollectInv, CardsSound
  <2>2. CASE pc' = "done"
    BY <1>1, <2>1, <2>2
  <2>3. CASE pc' = "scan" /\ NodeInv'
    BY <2>1, <2>3, SoundStays DEF CollectInv
  <2>4. QED
    BY <2>1, <2>2, <2>3
<1>12. CASE UNCHANGED vars
  <2>1. UNCHANGED alert /\ UNCHANGED world /\ UNCHANGED pc /\ UNCHANGED got /\ UNCHANGED cards
    BY <1>12 DEF vars
  <2>2. CardsSound'
    BY <2>1, SoundStays DEF CollectInv, CardsSound
  <2>3. KubernetesInv => KubernetesInv'
    <3>1. ClusterOK' = ClusterOK /\ Of("kubernetes")' = Of("kubernetes")
      BY <2>1 DEF ClusterOK, Of
    <3>2. AnchorOK' = AnchorOK /\ LogsOK' = LogsOK /\ PodSeen' = PodSeen
      BY <2>1 DEF AnchorOK, InScope, Standing, LogsOK, StillThere, PodSeen, Was
    <3>3. SweepOK' = SweepOK
      BY <2>1 DEF SweepOK, ListWhole, NodeRead, NodeName, InScope
    <3>4. QED
      BY <2>1, <3>1, <3>2, <3>3 DEF KubernetesInv
  <2>4. (LokiInv => LokiInv') /\ (PrometheusInv => PrometheusInv') /\ (PostgresInv => PostgresInv')
    BY <2>1 DEF LokiInv, PrometheusInv, PostgresInv, Of
  <2>5. (ChangeInv => ChangeInv') /\ (RunaiInv => RunaiInv')
    BY <2>1 DEF ChangeInv, RunaiInv, RightAnswer, ById, Of
  <2>6. (NodeInv => NodeInv') /\ (ResolvingInv => ResolvingInv')
    BY <2>1 DEF NodeInv, ResolvingInv, Dated
  <2>7. QED
    BY <2>1, <2>2, <2>3, <2>4, <2>5, <2>6 DEF CollectInv
<1>13. QED
  BY <1>3, <1>4, <1>5, <1>6, <1>7, <1>8, <1>9, <1>10, <1>11, <1>12, StepsInPhase

LEMMA CollectInvHolds == EvidenceSpec => []CollectInv
<1>1. QED
  BY CollectInvInit, CollectInvNext, PTL DEF EvidenceSpec

\* Servers answer with other objects than they were asked for, and pods are
\* replaced while they are read (every collector of app/collectors): whatever
\* they answer, no card supports a cause on facts of another entity.
THEOREM SupportIsOfItsEntityHolds == EvidenceSpec => []SupportIsOfItsEntity
<1>1. CollectInv => SupportIsOfItsEntity
  BY DEF CollectInv, CardsSound, SoundCard, SupportIsOfItsEntity
<1>2. QED
  BY <1>1, CollectInvHolds, PTL

\* The reads of a resolved alert go on through an epilogue, and all of them
\* happen later: what supports a cause had happened when it resolved.
THEOREM SupportPredatesResolutionHolds == EvidenceSpec => []SupportPredatesResolution
<1>1. CollectInv => SupportPredatesResolution
  BY DEF CollectInv, CardsSound, SoundCard, SupportPredatesResolution
<1>2. QED
  BY <1>1, CollectInvHolds, PTL

\* However lists are cut, reads fail or sweeps stay unfinished, an absence is
\* claimed only where nothing to the contrary was there to be read.
THEOREM AbsenceIsCompleteHolds == EvidenceSpec => []AbsenceIsComplete
<1>1. CollectInv => AbsenceIsComplete
  BY DEF CollectInv, CardsSound, SoundCard, AbsenceIsComplete
<1>2. QED
  BY <1>1, CollectInvHolds, PTL
=============================================================================
