----------------------------- MODULE ChangeReads -----------------------------
(***************************************************************************)
(* The change collector: what was created, rolled out, cordoned or         *)
(* announced around the alert.  collect sweeps every source for the alert; *)
(* change_query is the same sweep narrowed by a model to one source and    *)
(* one component.                                                          *)
(*                                                                         *)
(* The API server holds objects as they are now, so a change is            *)
(* [of, src, first, last, bad, pending]: whose it is, the source it shows  *)
(* in, its first and its last time stamp, whether a node condition is in   *)
(* its bad state, and whether a controller has a rollout under way.  A     *)
(* repeating event keeps only its last time stamp.                         *)
(***************************************************************************)
EXTENDS Evidence

CONSTANTS
  Lookback,     \* minutes before the alert fired that are swept
  ChangeCap     \* events kept of one source

ASSUME ChangeAssumption == Lookback \in Nat /\ ChangeCap \in Nat

NoChanges == [reads |-> <<>>, ask |-> "collect", component |-> None]

\* ask: "collect", or the source a query was narrowed to.
ChangeInit(a, w) ==
  /\ alert = a /\ world = w
  /\ pc = "ask_change" /\ got = NoChanges /\ cards = {} /\ verdict = NoVerdict

ChangeWorld(w) ==
  /\ {"collector", "changes", "churn"} \subseteq DOMAIN w
  /\ \A c \in w.changes : {"of", "src", "first", "last", "bad", "pending"} = DOMAIN c

Historical == IncidentRange(alert) # NoRange
ChangeRange ==
  IF Historical THEN [start |-> alert.fired - Lookback, end |-> IncidentRange(alert).end]
  ELSE [start |-> Now - Lookback, end |-> Now]

----------------------------------------------------------------------------
(* The sources. *)

NamespaceSources == {"controller", "pod", "event"} \union (IF world.helm THEN {"helm"} ELSE {})
NodeSources == IF alert.node # None /\ world.nodes THEN {"condition", "node_event"} ELSE {}
\* The namespaces the alert's component depends on are swept for rollouts.
DependencySources == IF world.depends THEN {"dependency"} ELSE {}

SourcesOf(ask) ==
  CASE ask = "collect" -> (IF alert.namespace # None THEN NamespaceSources ELSE {})
                          \union NodeSources \union DependencySources
    [] ask = "all" -> NamespaceSources \union (NodeSources \intersect {"condition"})
    [] OTHER -> {ask} \intersect (NamespaceSources \union NodeSources)

\* A list failed, is a page of more, or is complete; the first two warn.
SourceReplies(src) ==
  LET S == {c \in world.changes : c.src = src} IN
  {[warned |-> TRUE, items |-> T] : T \in SUBSET S} \union {[warned |-> FALSE, items |-> S]}

Warned(f) == \E src \in DOMAIN f : f[src].warned

----------------------------------------------------------------------------
(* Which objects count as changes. *)

InWindow(t) == Within(t, ChangeRange)
ChangedRecently(c) == InWindow(c.first) \/ InWindow(c.last)

\* A rollout under way is reported however old it is.
IsChange(c) ==
  CASE c.src \in {"controller", "dependency"} -> c.pending \/ ChangedRecently(c)
    [] c.src = "condition" -> c.bad /\ InWindow(c.last)
    [] OTHER -> InWindow(c.last)

NewestChanges(S) == {c \in S : Cardinality({o \in S : o.last > c.last}) < ChangeCap}
ReportedOf(r, src) ==
  LET S == {c \in r.items : IsChange(c)} IN
  IF src \in {"event", "node_event"} THEN NewestChanges(S) ELSE S
Reported(f) == UNION {ReportedOf(f[src], src) : src \in DOMAIN f}

(* Near matches stay with the alert to be shown: a pod whose name starts with *)
(* the workload's, and every rollout of a dependency.  The rest is context,   *)
(* and so is a rollout that only is still under way.                          *)
StaleRollout(c) ==
  Historical /\ c.src \in {"controller", "dependency"} /\ ~ChangedRecently(c)
NamesTarget(c) ==
  \/ alert.pod # None /\ c.of \in {"pod", "twin"}
  \/ alert.workload # None /\ c.of \in {"workload", "child", "sibling"}
OnNode(c) == c.src \in {"condition", "node_event"} /\ c.of = "node" /\ alert.node # None
CorrelatedChanges(S) ==
  {c \in S : ~StaleRollout(c) /\ (c.src = "dependency" \/ OnNode(c) \/ NamesTarget(c))}

----------------------------------------------------------------------------
(* What the sweep proves. *)

ExactPod(c) == alert.namespace # None /\ alert.pod # None /\ c.of \in {"pod", "twin"} /\ c.src \in {"pod", "event"}
ExactNode(c) == alert.node # None /\ c.src = "condition" /\ c.of = "node"
ExactController(c) ==
  /\ alert.namespace # None /\ alert.workload # None
  /\ c.of = "workload" /\ c.src \in {"controller", "helm", "event"}

\* The entity every correlated change names; an empty sweep speaks for the
\* first name the alert has.
SweepEntity(S) ==
  LET pod == IF alert.pod # None THEN "podname" ELSE None IN
  IF S = {}
  THEN CASE alert.pod # None -> pod
         [] alert.pod = None /\ alert.node # None -> "node"
         [] OTHER -> IF alert.workload # None THEN "workload" ELSE None
  ELSE CASE \A c \in S : ExactPod(c) -> pod
         [] (\A c \in S : ExactNode(c)) /\ ~(\A c \in S : ExactPod(c)) -> "node"
         [] OTHER -> IF \A c \in S : ExactController(c) \/ ExactPod(c) THEN "workload" ELSE None

CausalWindow == IF CausalRange(alert) = NoRange THEN ChangeRange ELSE CausalRange(alert)
TimedChanges(S) == {c \in S : Within(c.last, CausalWindow)}
ChangeBasis(S) == {[of |-> c.of, at |-> c.last] : c \in TimedChanges(S)}

\* A supporting sweep needs a bounded range, every source, one exact entity
\* and one change timed inside the causal range.
SweepCard(f) ==
  LET S == CorrelatedChanges(Reported(f))
      context == Reported(f) \ S
      entity == SweepEntity(S)
      is(polarity, coverage) ==
        Card("changes", polarity, coverage, entity, IF polarity = "present" THEN ChangeBasis(S) ELSE {})
  IN  CASE ~Historical \/ Warned(f) -> is(IF S # {} THEN "present" ELSE "unknown", "partial")
        [] Historical /\ ~Warned(f) /\ entity = None -> is("unknown", "partial")
        [] Historical /\ ~Warned(f) /\ entity # None /\ S # {} ->
             IF TimedChanges(S) # {} THEN is("present", "scoped") ELSE is("unknown", "partial")
        [] OTHER -> IF context # {} THEN is("unknown", "partial") ELSE is("absent", "scoped")

SweepVerdict(f) ==
  LET S == CorrelatedChanges(Reported(f)) IN
  IF S = {} THEN [status |-> "partial", confidence |-> "low", missing |-> {}]
  ELSE [status |-> "ok",
        confidence |-> IF Cardinality(S) >= 2 THEN "high" ELSE "medium",
        missing |-> (IF alert.node # None /\ ~world.nodes THEN {"node_condition_scope"} ELSE {})
                    \union (IF alert.namespace = None THEN {"namespace_scope"} ELSE {})]

----------------------------------------------------------------------------
(* A query of a model: the alert's own scope, in a range of its own. *)

\* Outside the scope of the alert, unknown, disabled or without a token.
QueryRefused(ask) ==
  \/ ~world.token
  \/ alert.namespace = None /\ ~(ask = "condition" /\ alert.node # None)
  \/ alert.namespace # None /\ ~world.allowed
  \/ ask = "helm" /\ ~world.helm

QueryCard(f, ask, component) ==
  LET S == {c \in Reported(f) : InWindow(c.last) /\ (component # None => c.of = component)}
      mine == CorrelatedChanges(S)
      loose == Warned(f) \/ ~Historical \/ S # mine \/ (mine # {} /\ Historical /\ TimedChanges(mine) = {})
      shown == mine # {} /\ (~Historical \/ TimedChanges(mine) # {})
      about == IF component # None THEN component ELSE "namespace"
  IN  IF QueryRefused(ask) THEN Card("change_query", "unavailable", "unknown", "namespace", {})
      ELSE Card("change_query",
                CASE shown -> "present" [] ~shown /\ loose -> "unknown" [] OTHER -> "absent",
                IF loose THEN "partial" ELSE "scoped", about,
                IF shown THEN ChangeBasis(mine) ELSE {})

----------------------------------------------------------------------------
(* The steps: one source after the other, then the conclusion. *)

NoScope ==
  \/ ~world.token
  \/ alert.namespace = None /\ alert.node = None
  \/ alert.namespace # None /\ ~world.allowed

BeginSweep ==
  /\ pc = "ask_change" /\ ~NoScope
  /\ pc' = "sweep_change"
  /\ UNCHANGED <<alert, world, got, cards, verdict>>

NoSweep ==
  /\ pc = "ask_change" /\ NoScope
  /\ cards' = {Card("changes", "unavailable", "unknown", None, {})}
  /\ verdict' = [status |-> "unavailable", confidence |-> "low", missing |-> {"unconfigured"}]
  /\ pc' = "done"
  /\ UNCHANGED <<alert, world, got>>

BeginQuery ==
  /\ pc = "ask_change" /\ world.asks
  /\ \E ask \in NamespaceSources \union NodeSources \union {"all"}, component \in {None, "workload"} :
       got' = [got EXCEPT !.ask = ask, !.component = component]
  /\ pc' = "sweep_change"
  /\ UNCHANGED <<alert, world, cards, verdict>>

ReadSource ==
  /\ pc = "sweep_change"
  /\ got.ask # "collect" => ~QueryRefused(got.ask)
  /\ \E src \in SourcesOf(got.ask) \ DOMAIN got.reads : \E r \in SourceReplies(src) :
       got' = [got EXCEPT !.reads = [s \in DOMAIN @ \union {src} |-> IF s = src THEN r ELSE @[s]]]
  /\ UNCHANGED <<alert, world, pc, cards, verdict>>

ConcludeSweep ==
  /\ pc = "sweep_change"
  /\ IF got.ask = "collect"
     THEN /\ DOMAIN got.reads = SourcesOf("collect")
          /\ cards' = {SweepCard(got.reads)} /\ verdict' = SweepVerdict(got.reads)
     ELSE /\ QueryRefused(got.ask) \/ DOMAIN got.reads = SourcesOf(got.ask)
          /\ cards' = {QueryCard(got.reads, got.ask, got.component)} /\ UNCHANGED verdict
  /\ pc' = "done"
  /\ UNCHANGED <<alert, world, got>>

\* While the sweep is under way an event repeats: its old time stamp is gone.
Repeats ==
  /\ pc = "sweep_change" /\ world.churn
  /\ \E c \in world.changes :
       /\ c.src \in {"event", "node_event"} /\ c.last < Now
       /\ world' = [world EXCEPT !.changes = (@ \ {c}) \union {[c EXCEPT !.last = Now]}, !.churn = FALSE]
  /\ UNCHANGED <<alert, pc, got, cards, verdict>>

ChangeNext == BeginSweep \/ NoSweep \/ BeginQuery \/ ReadSource \/ ConcludeSweep \/ Repeats
=============================================================================
