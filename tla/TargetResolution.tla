--------------------------- MODULE TargetResolution ---------------------------
(***************************************************************************)
(* What an alert does not say and the pipeline may complete before any     *)
(* collector reads: the workload an operator's sentence names, the node    *)
(* of a GPU deficit, the pod that runs today in place of the alert's and   *)
(* the node it runs on.  A wrong target is worse than none, so each answer *)
(* is adopted only when it is the only one.                                *)
(*                                                                         *)
(* Pods are [name, on, sick]: the alert's "pod", another "occurrence" of   *)
(* the alert, a "generated" name of the same controller, a "prefixed" name *)
(* that begins with the workload's, or an "other" one.                     *)
(***************************************************************************)
EXTENDS Evidence

Unresolved == [declared |-> NoLabels, pod |-> None, node |-> None, workload |-> None,
               namespace |-> None, seen |-> None, seenOn |-> None, listed |-> {}, complete |-> FALSE]

ResolutionInit(a, w) ==
  /\ alert = a /\ world = w
  /\ pc = "pin" /\ cards = {} /\ verdict = NoVerdict
  /\ got = [Unresolved EXCEPT !.declared = a, !.pod = a.pod, !.node = a.node, !.workload = a.workload,
                              !.namespace = a.namespace]

\* Where the alert's workload runs: the pods of today have run, and a name is
\* one of finitely many occurrences of the alert.
Clustered(w) ==
  /\ {"churn", "live", "ran", "placements", "occurrences"} \subseteq DOMAIN w
  /\ w.live \subseteq w.ran
  /\ IsFiniteSet(w.occurrences)

Proceed(from, to) == pc = from /\ pc' = to /\ UNCHANGED <<alert, world, cards, verdict>>

----------------------------------------------------------------------------
(* A resolved alert keeps the names it had. *)

\* One occurrence stands for an alert row that lost its pod label; several are
\* a set, and no member of it is the pod.
HistoricalPod ==
  IF alert.pod # None THEN alert.pod
  ELSE IF Cardinality(world.occurrences) = 1 THEN CHOOSE o \in world.occurrences : TRUE ELSE None

Pin ==
  /\ Proceed("pin", "prose")
  /\ got' = IF Firing(alert) THEN [got EXCEPT !.workload = world.guess]
            ELSE [got EXCEPT !.pod = HistoricalPod]

----------------------------------------------------------------------------
(* A request that is only prose. *)

\* Workloads of the cluster that carry a name of the sentence, by how much of
\* it they carry; a kind that cannot be listed lists nothing.
NamedBy(phrase, listed) == {x \in listed : phrase \in x.phrases}
OnlyNamed(listed) ==
  {x \in listed : \/ NamedBy("long", listed) = {x}
                  \/ NamedBy("short", listed) = {x} /\ Cardinality(NamedBy("long", listed)) # 1}

ReadProse ==
  /\ Proceed("prose", "quantity")
  /\ IF {alert.namespace, alert.pod, alert.workload} # {None}
     THEN UNCHANGED got
     ELSE \E listed \in SUBSET world.workloads :
            IF OnlyNamed(listed) = {} THEN UNCHANGED got
            ELSE \E x \in OnlyNamed(listed) :
                   got' = [got EXCEPT !.workload = x.name, !.namespace = x.namespace]

----------------------------------------------------------------------------
(* A GPU count without a place: nominate the one node that is short. *)

QuantityAlert == world.quantity /\ {alert.node, alert.pod, alert.namespace} = {None}

ShortBy(n) == world.capacity[n] - world.allocatable[n]

\* Run:ai's health list answers, or else Kubernetes' nodes do; a list that is
\* not complete, or cannot be read, names nobody.
HealthNominee(deficit) ==
  LET rows == {n \in world.unhealthy : world.capacity[n] > 0} IN
  {n \in rows : rows = {n} /\ world.capacity[n] = deficit}
NodeListNominee(deficit) ==
  LET short == {n \in DOMAIN world.capacity : ShortBy(n) > 0} IN
  {n \in short : short = {n} /\ ShortBy(n) = deficit}
Nominees ==
  LET deficit == world.inventory IN
  {{}} \union (IF deficit <= 0 THEN {}
               ELSE {HealthNominee(deficit)}
                    \union (IF world.unhealthy = {} \/ world.healthFails THEN {NodeListNominee(deficit)} ELSE {}))

DeriveNode ==
  /\ Proceed("quantity", "look")
  /\ IF ~QuantityAlert \/ ~Firing(alert) THEN UNCHANGED got
     ELSE \E S \in Nominees :
            got' = IF S = {} THEN got ELSE [got EXCEPT !.node = CHOOSE n \in S : TRUE, !.seen = "deficit"]

----------------------------------------------------------------------------
(* The pod that runs now: read by name, then by listing the namespace, and   *)
(* last by the events of the pods that are gone.                             *)

\* The lookup is not gated on the alert still firing.
SeeksWhenResolved == alert.namespace # None /\ got.pod # None

Seeks == Firing(alert) /\ alert.namespace # None /\ got.pod # None

Skip == Proceed("look", "apply") /\ ~Seeks /\ UNCHANGED got

Named(S) == {p \in S : p.name = got.pod}

\* The read by name may fail or find the pod, on a node or not scheduled yet.
GetPod ==
  /\ Proceed("look", "list") /\ Seeks
  /\ \/ UNCHANGED got
     \/ \E p \in Named(world.live) : got' = [got EXCEPT !.seen = p.name, !.seenOn = p.on]

\* The list may fail, stop early or not say whether it is complete.
ListPods ==
  /\ Proceed("list", "choose")
  /\ \E S \in SUBSET world.live, complete \in BOOLEAN :
       /\ complete => S = world.live
       /\ got' = [got EXCEPT !.listed = S, !.complete = complete]

\* Prefer the sick ones; then it takes one pod, or one node they all run on.
Pool(S) == IF \E p \in S : p.sick THEN {p \in S : p.sick} ELSE S
Unambiguous(S) == Pool(S) # {} /\ \A p, o \in Pool(S) : p.on = o.on

\* Names of the alert, then names its controller generates, then the workload's.
Tier(i) ==
  {p \in got.listed : \/ p.name \in {got.pod} \union world.occurrences
                      \/ i >= 2 /\ p.name = "generated"
                      \/ i = 3 /\ {alert.workload, got.workload} # {None} /\ p.name = "prefixed"}
Replacements ==
  UNION {Pool(Tier(i)) : i \in {k \in 1..3 : Unambiguous(Tier(k)) /\ \A j \in 1..(k - 1) : ~Unambiguous(Tier(j))}}

Adopt(name, on) ==
  got' = [got EXCEPT !.pod = name, !.node = IF alert.node # None THEN alert.node
                                            ELSE IF on # None THEN on ELSE @]

\* The row of the list wins, then the read by name; a pod that exists without
\* a node has none, whatever its siblings have.
ChooseExact ==
  /\ Proceed("choose", "apply")
  /\ IF Named(got.listed) # {} THEN \E p \in Named(got.listed) : Adopt(p.name, p.on)
     ELSE got.seen = got.pod /\ Adopt(got.seen, got.seenOn)

NoExact == Named(got.listed) = {} /\ got.seen # got.pod

ChooseReplacement ==
  /\ Proceed("choose", "apply")
  /\ NoExact /\ got.complete /\ Replacements # {}
  /\ \E p \in Replacements : Adopt(p.name, p.on)

\* The events of the alert's own pods, of which the first that has one counts.
ChooseEvents ==
  /\ Proceed("choose", "apply")
  /\ NoExact /\ ~(got.complete /\ Replacements # {})
  /\ \/ UNCHANGED got
     \/ \E e \in world.placements : e.of \in {got.pod} \union world.occurrences /\ Adopt(e.of, e.on)

----------------------------------------------------------------------------
(* The target every collector works for from here on. *)

\* The plan narrows; it never moves an alert out of the namespace it named,
\* and a pod adopted in place of another does not inherit its uid.
Apply ==
  /\ pc = "apply" /\ pc' = "planned"
  /\ alert' = [alert EXCEPT !.pod = got.pod,
                            !.uid = IF got.pod = alert.pod THEN @ ELSE None,
                            !.workload = IF got.workload # None THEN got.workload ELSE @,
                            !.namespace = IF @ # None THEN @ ELSE got.namespace,
                            !.node = IF got.node # None THEN got.node ELSE @,
                            !.nodeSource = IF got.node \in {None, alert.node} THEN @
                                           ELSE IF got.seen = "deficit" THEN "inventory" ELSE "plan"]
  /\ UNCHANGED <<world, got, cards, verdict>>

\* The controller replaces the pod while it is being looked up.
PodMoves ==
  /\ pc \in {"look", "list", "choose"} /\ world.churn
  /\ \E p \in world.live, on \in {"other", None} :
       LET new == [name |-> "generated", on |-> on, sick |-> FALSE] IN
       world' = [world EXCEPT !.live = (@ \ {p}) \union {new}, !.ran = @ \union {new}, !.churn = FALSE]
  /\ UNCHANGED <<alert, pc, got, cards, verdict>>

ResolutionNext ==
  \/ Pin \/ ReadProse \/ DeriveNode \/ Skip \/ GetPod \/ ListPods
  \/ ChooseExact \/ ChooseReplacement \/ ChooseEvents \/ Apply \/ PodMoves
=============================================================================
