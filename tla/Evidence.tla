------------------------------ MODULE Evidence ------------------------------
(***************************************************************************)
(* What every collector of the agent shares: the alert it works for, the   *)
(* two time ranges computed from the alert's own time stamps, the typed    *)
(* cards it answers with and its status.  A collector module adds its      *)
(* reads and the way it turns their replies into cards.                    *)
(***************************************************************************)
EXTENDS Integers, FiniteSets
LOCAL INSTANCE FiniteSetsExt
LOCAL INSTANCE TLC

CONSTANTS
  Prelude,     \* minutes before the alert fired that may hold its trigger
  Epilogue,    \* minutes after it resolved that are still collected
  FiringSpan,  \* how long an alert without a resolution is collected for
  Now          \* the time the analysis runs at

ASSUME EvidenceAssumption ==
  /\ Prelude \in Nat /\ Epilogue \in Nat /\ FiringSpan \in Nat /\ Now \in Nat

VARIABLES
  alert,    \* the target the analysis works for
  world,    \* what is true outside the agent
  pc,       \* the step the collector is at
  got,      \* the replies it holds
  cards,    \* the typed artifacts it published
  verdict   \* its status, and what it could not read

vars == <<alert, world, pc, got, cards, verdict>>

----------------------------------------------------------------------------
(* The target of an alert, from its labels. *)

\* An alert label that is not there, and a time stamp that cannot be read (a
\* stamp without a zone is one of these).
None == "none"
NoTime == 0

(* A container-state metric names its exporter in the pod label and the     *)
(* object in a controller label: such a pod is not the subject.  A workload *)
(* label wins over a controller label, which wins over the pod's own stem.  *)
TargetPod(l) == IF l.controller # None /\ l.exporter THEN None ELSE l.pod
TargetWorkload(l) == CASE l.workload # None -> l.workload
                       [] l.workload = None /\ l.controller # None -> l.controller
                       [] OTHER -> IF l.pod = None THEN None ELSE "stem"
TargetKind(l) == CASE l.kind # None -> l.kind
                   [] l.kind = None /\ l.workload = None /\ l.controller # None -> l.controllerKind
                   [] OTHER -> None
Target(l) ==
  [namespace |-> l.namespace, pod |-> TargetPod(l), uid |-> l.uid,
   workload |-> TargetWorkload(l), kind |-> TargetKind(l),
   node |-> l.node, nodeSource |-> IF l.node # None THEN "alert" ELSE None,
   project |-> l.project, queue |-> l.queue, workloadId |-> l.workloadId,
   fired |-> l.fired, resolved |-> l.resolved]

\* A label set with nothing in it; alerts are written as exceptions to it.
NoLabels ==
  [namespace |-> None, pod |-> None, uid |-> None, exporter |-> FALSE, controller |-> None,
   controllerKind |-> None, workload |-> None, kind |-> None, node |-> None,
   project |-> None, queue |-> None, workloadId |-> None,
   fired |-> NoTime, resolved |-> NoTime]

\* What Target gives: a node is the alert's own from the start, or there is none.
TargetFields == DOMAIN Target(NoLabels)
IsTarget(a) ==
  /\ DOMAIN a = TargetFields
  /\ a.nodeSource = IF a.node # None THEN "alert" ELSE None
  /\ a.fired \in Nat /\ a.resolved \in Nat

----------------------------------------------------------------------------
(* The two ranges. *)

NoRange == [start |-> 1, end |-> 0]
Within(t, r) == t # NoTime /\ r.start <= t /\ t <= r.end
Overlaps(ts, r) == \E t \in ts : Within(t, r)
Firing(a) == a.resolved = NoTime
\* A resolution before the alert fired is no resolution.
Ended(a) == a.resolved # NoTime /\ a.resolved >= a.fired

\* What is read: the prelude, the incident and a recovery epilogue.
IncidentRange(a) ==
  IF a.fired = NoTime THEN NoRange
  ELSE [start |-> a.fired - Prelude,
        end |-> Epilogue + (IF Ended(a) THEN a.resolved ELSE a.fired + FiringSpan)]

\* The epilogue counts as cause.
EpilogueCauses(a) == IncidentRange(a)

\* What may explain the alert: nothing that was first seen after it resolved.
CausalRange(a) ==
  IF a.fired = NoTime THEN NoRange
  ELSE [start |-> IncidentRange(a).start, end |-> IF Ended(a) THEN a.resolved ELSE Now]

----------------------------------------------------------------------------
(* Cards. *)

\* about: the entity the card says was observed.  basis: the facts of the
\* world it rests on, each of them [of |-> whose fact it is, at |-> when].
Card(kind, polarity, coverage, about, basis) ==
  [kind |-> kind, polarity |-> polarity, coverage |-> coverage, about |-> about, basis |-> basis]

Supports(c) == c.polarity = "present" /\ c.coverage = "scoped"
Refutes(c) == c.polarity = "absent" /\ c.coverage = "scoped"

\* Every way to answer each read of choices with one of its replies: what folding
\* over the reads builds, and what such an answer is.
Answering(choices) ==
  FoldSet(LAMBDA s, F : {g @@ (s :> r) : g \in F, r \in choices[s]}, {<<>>}, DOMAIN choices)
OneEach(choices) ==
  {f \in Answering(choices) : DOMAIN f = DOMAIN choices /\ \A s \in DOMAIN choices : f[s] \in choices[s]}

NoVerdict == [status |-> None, confidence |-> None, missing |-> {}]
=============================================================================
