------------------------------ MODULE LogReads ------------------------------
(***************************************************************************)
(* The Loki collector: up to five queries, asked through the Grafana MCP   *)
(* server and, when that fails, of Loki itself.  A query is only a wish: a *)
(* proxy may ignore its selector or its range, and drop the labels or the  *)
(* time stamps, so what a line proves is read off the line itself.         *)
(*                                                                         *)
(* A line is [of, at, fails, affirms, named]: whose it is, when it was     *)
(* written, whether a failure word is in it, whether it says so (and does  *)
(* not deny or report a recovery), and whether it names the alert's id.    *)
(***************************************************************************)
EXTENDS Evidence

CONSTANT LineCap   \* lines a query returns, newest first

ASSUME LineAssumption == LineCap \in Nat \ {0}

LokiWorld(w) == "collector" \in DOMAIN w /\ IsFiniteSet(w.lines) /\ \A l \in w.lines : l.at \in 1..Now

LokiInit(a, w) ==
  /\ alert = a /\ world = w
  /\ pc = "ask_loki" /\ got = {} /\ cards = {} /\ verdict = NoVerdict

----------------------------------------------------------------------------
(* What is asked. *)

Primary == {"error_logs", "recent_logs"}
Correlated == {"workload_history", "control_for_workload"}

\* Loki refuses an empty selector, so an alert without names asks nothing.
HasSelector == {alert.namespace, alert.pod, alert.workload} # {None}
LogQueries ==
  (IF HasSelector THEN Primary ELSE {})
  \union (IF HasSelector /\ alert.namespace # None /\ {alert.workloadId, alert.workload} # {None}
          THEN {"workload_history"} ELSE {})
  \union (IF world.control THEN {"control_errors"} ELSE {})
  \union (IF world.control /\ {alert.workloadId, alert.workload, alert.project} # {None}
          THEN {"control_for_workload"} ELSE {})

\* The label of a workload is matched by any value that contains its name.
OfTarget(l) ==
  CASE alert.pod # None -> l.of \in {"pod", "twin"}
    [] alert.pod = None /\ alert.workload # None -> l.of \in {"pod", "twin", "child", "sibling"}
    [] OTHER -> l.of # "control"

Asked(q) ==
  {l \in world.lines :
     /\ Within(l.at, IncidentRange(alert)) \/ IncidentRange(alert) = NoRange
     /\ CASE q = "recent_logs" -> OfTarget(l)
          [] q = "error_logs" -> OfTarget(l) /\ l.fails
          [] q = "workload_history" -> l.of # "control" /\ l.named /\ (alert.workloadId # None => l.fails)
          [] q = "control_errors" -> l.of = "control" /\ l.fails
          [] OTHER -> l.of = "control" /\ l.named /\ (alert.workloadId # None => l.fails)}

NewestLines(S) == {l \in S : Cardinality({o \in S : o.at > l.at}) < LineCap}

\* labels: every stream, only the single entries, or no labels at all.
LogReply(q, S, via, labels, timed) ==
  [query |-> q, error |-> FALSE, lines |-> NewestLines(S), via |-> via, labels |-> labels, timed |-> timed]
LogError(q, via) == [LogReply(q, {}, via, "none", TRUE) EXCEPT !.error = TRUE]

\* Loki itself keeps to the query; the server in between may send anything it
\* holds.  A body without a known list of lines is an error, not an empty one.
DirectLogReplies(q) == {LogError(q, "direct"), LogReply(q, Asked(q), "direct", "streams", TRUE)}
McpLogReplies(q) ==
  {LogError(q, "mcp")}
  \union {LogReply(q, S, "mcp", labels, timed) :
            S \in {Asked(q), world.lines}, labels \in {"streams", "entries", "none"}, timed \in BOOLEAN}

LokiReplies(via) ==
  OneEach([q \in LogQueries |-> IF via = "mcp" THEN McpLogReplies(q) ELSE DirectLogReplies(q)])

----------------------------------------------------------------------------
(* What the lines prove. *)

LogTime(r, l) == IF r.timed THEN l.at ELSE NoTime

\* Does a kept line lie in the range that was asked for.
WindowVerified(r) == \E l \in r.lines : Within(LogTime(r, l), IncidentRange(alert))
\* Lines of the causal range that say something failed.
Affirming(r) == {l \in r.lines : l.fails /\ l.affirms /\ Within(LogTime(r, l), CausalRange(alert))}

\* An empty answer of Loki itself counts once the tail of the same target
\* showed lines of that time: without them the logs may simply be gone.
DirectEmpty(r, covered) == r.lines = {} /\ r.via = "direct" /\ covered

Labelled(r) ==
  IF r.labels = "streams" THEN r.lines
  ELSE {l \in r.lines : l.fails /\ l.affirms /\ Within(LogTime(r, l), IncidentRange(alert))}

PrimaryScope(r, covered) ==
  /\ alert.namespace # None
  /\ \/ DirectEmpty(r, covered)
     \/ r.labels # "none" /\ Labelled(r) # {} /\ \A l \in Labelled(r) : OfTarget(l)

\* A row of another query stands for the alert only by an id in the line: the
\* workload's own, or else the pod's name; and by the namespace it came from.
CorrelatedScope(q, r) ==
  LET rows == {l \in r.lines : l.fails /\ l.affirms /\ Within(LogTime(r, l), IncidentRange(alert))} IN
  /\ alert.workloadId # None \/ alert.pod # None
  /\ r.labels # "none" /\ rows # {}
  /\ \A l \in rows : l.named /\ ((l.of = "control") <=> (q = "control_for_workload"))

LogScope(q, r, covered) ==
  CASE q \in Correlated -> CorrelatedScope(q, r)
    [] q \in Primary -> PrimaryScope(r, covered)
    [] OTHER -> alert.namespace = "platform"

Covered(f) ==
  LET r == f["recent_logs"] IN
  /\ "recent_logs" \in DOMAIN f /\ ~r.error /\ r.lines # {}
  /\ WindowVerified(r) /\ PrimaryScope(r, FALSE)

LogPolarity(q, r) ==
  LET ranged == IncidentRange(alert) # NoRange IN
  CASE r.error -> "unavailable"
    [] ~r.error /\ q = "control_errors" ->
         IF alert.namespace = "platform" /\ WindowVerified(r) /\ Affirming(r) # {} THEN "present" ELSE "unknown"
    [] ~r.error /\ (q = "recent_logs" \/ (q # "control_errors" /\ ~ranged)) -> "unknown"
    [] ~r.error /\ q \in Correlated /\ ranged -> IF Affirming(r) # {} THEN "present" ELSE "unknown"
    [] OTHER -> IF r.lines = {} THEN "absent"
                ELSE IF WindowVerified(r) /\ Affirming(r) # {} THEN "present" ELSE "unknown"

LogEntity(q) ==
  CASE q = "control_errors" -> "namespace"
    [] q \in Correlated -> "id"
    [] OTHER -> IF alert.pod # None THEN "podname" ELSE IF alert.workload # None THEN "app" ELSE "namespace"

\* A query whose target is not proven proves nothing.
LogCard(q, r, covered) ==
  LET polarity == LogPolarity(q, r)
      proven == LogScope(q, r, covered)
  IN  CASE polarity = "unavailable" -> Card(q, polarity, "unknown", None, {})
        [] polarity \in {"present", "absent"} /\ proven ->
             Card(q, polarity, "scoped", LogEntity(q),
                  IF polarity = "present" THEN {[of |-> l.of, at |-> l.at] : l \in Affirming(r)} ELSE {})
        [] OTHER -> Card(q, "unknown", "partial", None, {})

----------------------------------------------------------------------------
(* The verdict. *)

LogVerdict(f) ==
  LET answered == {q \in DOMAIN f : ~f[q].error}
      failed == {q \in DOMAIN f \intersect Primary : f[q].error}
      populated == {q \in answered \intersect Primary : WindowVerified(f[q])}
  IN  [status |-> CASE populated # {} /\ failed = {} -> "ok"
                    [] (populated = {} \/ failed # {}) /\ answered # {} -> "partial"
                    [] OTHER -> IF DOMAIN f = {} THEN "ok" ELSE "unavailable",
       confidence |-> CASE populated # {} /\ failed = {} -> "high"
                        [] (populated = {} \/ failed # {}) /\ answered # {} -> "medium"
                        [] OTHER -> "low",
       missing |-> (IF DOMAIN f # {} /\ (answered = {} \/ failed # {}) THEN {"query"} ELSE {})
                   \union (IF DOMAIN f \intersect Primary = {} THEN {"target"} ELSE {})]

LogsConclude(f) ==
  /\ cards' = {LogCard(q, f[q], Covered(f)) : q \in DOMAIN f}
  /\ verdict' = LogVerdict(f)
  /\ pc' = "done"
  /\ UNCHANGED <<alert, world, got>>

AskLokiMcp ==
  /\ pc = "ask_loki" /\ world.mcp
  /\ \E f \in LokiReplies("mcp") : LogsConclude(f)

\* No datasource, the shared deadline, or an answer that blames the datasource.
LokiMcpFails ==
  /\ pc = "ask_loki" /\ world.mcp
  /\ pc' = "direct_loki"
  /\ UNCHANGED <<alert, world, got, cards, verdict>>

AskLoki ==
  /\ pc = "direct_loki" \/ (pc = "ask_loki" /\ ~world.mcp)
  /\ world.url
  /\ \E f \in LokiReplies("direct") : LogsConclude(f)

NoLoki ==
  /\ pc = "direct_loki" \/ (pc = "ask_loki" /\ ~world.mcp)
  /\ ~world.url
  /\ verdict' = [status |-> "unavailable", confidence |-> "low", missing |-> {"url"}]
  /\ pc' = "done"
  /\ UNCHANGED <<alert, world, got, cards>>

LokiNext == AskLokiMcp \/ LokiMcpFails \/ AskLoki \/ NoLoki
=============================================================================
