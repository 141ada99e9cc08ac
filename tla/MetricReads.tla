----------------------------- MODULE MetricReads -----------------------------
(***************************************************************************)
(* The Prometheus collector: a fixed list of queries chosen from the       *)
(* alert's names, asked through the Grafana MCP server or of Prometheus    *)
(* itself, and the reading each of them gets: a counter speaks by its      *)
(* change, a gauge by being positive, a comparison by returning anything,  *)
(* and a value without a threshold by nothing.                             *)
(*                                                                         *)
(* A series is [of, at, hot]: the entity its labels name, the times of its *)
(* samples, and those of them at which it was positive or had grown.       *)
(***************************************************************************)
EXTENDS Evidence

CONSTANTS
  Scrapes,   \* the times metrics were scraped at
  Step       \* the resolution a range is asked for with

ASSUME ScrapeAssumption == Scrapes \subseteq 1..Now /\ Step \in Nat

PrometheusInit(a, w) ==
  /\ alert = a /\ world = w
  /\ pc = "ask_prometheus" /\ got = {} /\ cards = {} /\ verdict = NoVerdict

----------------------------------------------------------------------------
(* The queries. *)

Control == {"control_restarts", "control_pending"}

MetricQueries ==
  {"up"}
  \union (IF alert.namespace # None /\ alert.pod # None THEN {"memory", "container_restarts"} ELSE {})
  \union (IF alert.namespace # None /\ alert.pod = None THEN {"namespace_pending", "namespace_restarts"} ELSE {})
  \union (IF alert.project # None THEN {"capacity_gap", "requested", "allocated"} ELSE {})
  \union (IF world.control THEN Control ELSE {})

ContextOnly == {"memory", "requested", "allocated"}
Counters == {"container_restarts", "namespace_restarts", "control_restarts"}

\* The entity every returned series must name before it counts.
MetricEntity(q) ==
  CASE q \in {"memory", "container_restarts"} -> "podname"
    [] q \in {"namespace_pending", "namespace_restarts"} -> "namespace"
    [] q \in {"capacity_gap", "requested", "allocated"} -> "project"
    [] q \in Control -> "control"
    [] OTHER -> None

AskedRange == IF IncidentRange(alert) = NoRange THEN [start |-> Now, end |-> Now] ELSE IncidentRange(alert)

\* What Prometheus holds for a query over a range: a comparison keeps only the
\* samples at which it is true.
Series(q, range) ==
  LET at == {t \in Scrapes : Within(t, range)}
      hot == at \intersect world.hot[q]
  IN  IF q \in world.unscraped \/ at = {} \/ (q = "capacity_gap" /\ hot = {}) THEN {}
      ELSE {[of |-> MetricEntity(q), at |-> IF q = "capacity_gap" THEN hot ELSE at, hot |-> hot]}

MetricReply(q, S, timed) == [query |-> q, error |-> FALSE, series |-> S, timed |-> timed]
MetricError(q) == [MetricReply(q, {}, TRUE) EXCEPT !.error = TRUE]

(* A server in between may drop the range, rename what it returns or lose its *)
(* time stamps; an empty body that does not say it succeeded is an error.     *)
DirectMetricReplies(q) == {MetricError(q), MetricReply(q, Series(q, AskedRange), TRUE)}
McpMetricReplies(q) ==
  DirectMetricReplies(q)
  \union {MetricReply(q, S, timed) :
            S \in {Series(q, [start |-> 1, end |-> Now]),
                   {[s EXCEPT !.of = "other"] : s \in Series(q, AskedRange)}},
            timed \in BOOLEAN}

MetricReplies(via) ==
  OneEach([q \in MetricQueries |->
             IF via = "mcp" THEN McpMetricReplies(q) ELSE DirectMetricReplies(q)])

----------------------------------------------------------------------------
(* What a reply proves. *)

\* One sample outside the range spoils the answer: the verdict is about all of
\* them.  The first may lie a step early, which is how ranges are aligned.
SamplesInRange(r) ==
  /\ r.timed /\ r.series # {} /\ IncidentRange(alert) # NoRange
  /\ \A s \in r.series : \A t \in s.at :
       Within(t, [IncidentRange(alert) EXCEPT !.start = @ - Step])

MetricScope(q, r) == \A s \in r.series : s.of = MetricEntity(q)

\* The gap is really closed only if both of its operands were seen in range.
Sampled(r) == ~r.error /\ SamplesInRange(r) /\ MetricScope(r.query, r)
SourcesSeen(f) ==
  {"requested", "allocated"} \subseteq DOMAIN f /\ Sampled(f["requested"]) /\ Sampled(f["allocated"])

Hot(r) == UNION {s.hot : s \in r.series}

GapPolarity(f, r) ==
  CASE r.series # {} -> "present"
    [] OTHER -> IF SourcesSeen(f) THEN "absent" ELSE "unknown"

CounterPolarity(r) ==
  CASE \A s \in r.series : Cardinality(s.at) < 2 -> "unknown"
    [] OTHER -> IF Hot(r) # {} THEN "present" ELSE "absent"

MetricPolarity(q, f, r) ==
  CASE r.error -> "unavailable"
    [] ~r.error /\ (IncidentRange(alert) = NoRange \/ q \in ContextOnly \union {"up"}) -> "unknown"
    [] ~r.error /\ IncidentRange(alert) # NoRange /\ q = "capacity_gap" -> GapPolarity(f, r)
    [] OTHER -> IF r.series = {} THEN "absent"
                ELSE IF ~SamplesInRange(r) THEN "unknown"
                ELSE IF q \in Counters THEN CounterPolarity(r)
                ELSE IF Hot(r) # {} THEN "present" ELSE "absent"

MetricCard(q, f) ==
  LET r == f[q]
      polarity == MetricPolarity(q, f, r)
  IN  CASE polarity = "unavailable" -> Card(q, polarity, "unknown", None, {})
        [] polarity \in {"present", "absent"} /\ MetricScope(q, r) ->
             Card(q, polarity, "scoped", MetricEntity(q),
                  IF polarity = "present" THEN UNION {{[of |-> s.of, at |-> t] : t \in s.hot} : s \in r.series}
                  ELSE {})
        [] OTHER -> Card(q, "unknown", "partial", None, {})

MetricVerdict(f) ==
  LET required == DOMAIN f \ ({"up"} \union Control)
      answered == {q \in DOMAIN f : ~f[q].error}
      failed == {q \in required : f[q].error}
      populated == {q \in required \intersect answered : f[q].series # {}}
      full == populated # {} /\ failed = {}
  IN  [status |-> IF full THEN "ok" ELSE IF answered # {} THEN "partial" ELSE "unavailable",
       confidence |-> IF full THEN "high" ELSE IF answered # {} THEN "medium" ELSE "low",
       missing |-> (IF answered = {} \/ failed # {} THEN {"query"} ELSE {})
                   \union (IF required = {} THEN {"target"}
                           ELSE IF populated = {} THEN {"workload_metrics"} ELSE {})]

MetricsConclude(f) ==
  /\ cards' = {MetricCard(q, f) : q \in DOMAIN f}
  /\ verdict' = MetricVerdict(f)
  /\ pc' = "done"
  /\ UNCHANGED <<alert, world, got>>

AskPrometheusMcp ==
  /\ pc = "ask_prometheus" /\ world.mcp
  /\ \E f \in MetricReplies("mcp") : MetricsConclude(f)

PrometheusMcpFails ==
  /\ pc = "ask_prometheus" /\ world.mcp
  /\ pc' = "direct_prometheus"
  /\ UNCHANGED <<alert, world, got, cards, verdict>>

AskPrometheus ==
  /\ pc = "direct_prometheus" \/ (pc = "ask_prometheus" /\ ~world.mcp)
  /\ world.url
  /\ \E f \in MetricReplies("direct") : MetricsConclude(f)

NoPrometheus ==
  /\ pc = "direct_prometheus" \/ (pc = "ask_prometheus" /\ ~world.mcp)
  /\ ~world.url
  /\ verdict' = [status |-> "unavailable", confidence |-> "low", missing |-> {"url"}]
  /\ pc' = "done"
  /\ UNCHANGED <<alert, world, got, cards>>

PrometheusNext == AskPrometheusMcp \/ PrometheusMcpFails \/ AskPrometheus \/ NoPrometheus
=============================================================================
