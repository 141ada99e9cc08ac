---------------------------- MODULE PlatformReads ----------------------------
(***************************************************************************)
(* The Run:ai collector: the alert's workload, project and queue as the    *)
(* control plane knows them, read through NVIDIA's MCP server, completed   *)
(* by the HTTP API where a tool failed or answered nothing, and asked once *)
(* more with a fresh token after a 401.                                    *)
(*                                                                         *)
(* The API answers with objects as they are now; a time stamp in the       *)
(* object is all that ties it to the incident.  A name is not an identity: *)
(* a "namesake" is a workload of that name in another project.             *)
(***************************************************************************)
EXTENDS Evidence

NoAnswers == [token |-> FALSE, results |-> {}, mcp |-> FALSE, asked |-> {}, refreshed |-> FALSE, gaps |-> {}]

RunaiInit(a, w) ==
  /\ alert = a /\ world = w
  /\ pc = "begin_runai" /\ got = NoAnswers /\ cards = {} /\ verdict = NoVerdict

----------------------------------------------------------------------------
(* What is asked, and what may come back. *)

RunaiWorld(w) == {"collector", "objects", "churn"} \subseteq DOMAIN w

NamesWorkload == alert.workload # None \/ alert.workloadId # None

MissingNames ==
  (IF alert.project = None THEN {"project"} ELSE {})
  \union (IF alert.queue = None THEN {"queue"} ELSE {})
  \union (IF ~NamesWorkload THEN {"workload"} ELSE {})

DirectQueries ==
  {IF alert.workloadId # None THEN "workload_by_id" ELSE "workloads"}
  \union (IF alert.project # None THEN {"project"} ELSE {})
  \union (IF alert.queue # None THEN {"queue"} ELSE {})

\* The official tools take a workload by its UUID only.
McpSupported == ~NamesWorkload \/ (alert.workloadId # None /\ world.uuid)
McpQueries ==
  {"workloads", "cluster"}
  \union (IF alert.workloadId # None /\ world.uuid THEN {"workload_status"} ELSE {})
  \union (IF alert.project # None THEN {"project_resources"} ELSE {})

WorkloadQueries == {"workloads", "workload_by_id", "workload_status"}

\* items: the objects that came back.  A list may be unfiltered; a body that
\* is no JSON at all is an error.
Answer(q, via, items) == [query |-> q, via |-> via, error |-> "none", items |-> items]
Refusal(q, via, why) == [Answer(q, via, {}) EXCEPT !.error = why]

Scope(q) == [of |-> q, stamps |-> world.scopeStamps]
ById == {o \in world.objects : o.of = "workload"}

RunaiReplies(q, via) ==
  {Refusal(q, via, "failed")}
  \union (IF via = "direct" THEN {Refusal(q, via, "401")} ELSE {})
  \union (CASE q = "workload_by_id" ->
                 IF ById # {} THEN {Answer(q, via, ById)} ELSE {Refusal(q, via, "404")}
            [] q \in {"workloads", "workload_status"} ->
                 {Answer(q, via, world.objects), Answer(q, via, {})}
            [] q \in {"project", "queue"} ->
                 {IF world.byName THEN Answer(q, via, {Scope(q)}) ELSE Refusal(q, via, "404")}
            [] OTHER -> {Answer(q, via, {Scope(q)})})

AllAnswers(queries, via) == OneEach([q \in queries |-> RunaiReplies(q, via)])
Values(f) == {f[q] : q \in DOMAIN f}

Usable(S) == {r \in S : r.error = "none"}
\* A tool that failed, or came back empty, is asked again of the API.
Hollow(r) == r.error # "none" \/ r.items = {}

\* Which answers of the server one answer of the API stands for.
Equivalents(q) ==
  CASE q \in {"workloads", "workload_by_id"} -> {"workloads", "workload_status"}
    [] q = "project" -> {"project_resources"}
    [] OTHER -> {"queue"}

----------------------------------------------------------------------------
(* What an answer proves. *)

\* Every time stamp anywhere in the object that lies in the collected range.
Stamped(o) == {[of |-> o.of, at |-> t] : t \in {u \in o.stamps : Within(u, IncidentRange(alert))}}

\* The immutable id is the identity; a name is, unless the object declares
\* another project or queue than the alert.
Identified(r) ==
  IF r.query \notin WorkloadQueries THEN r.items
  ELSE {i \in r.items :
          \/ i.of = "workload"
          \/ i.of = "namesake" /\ alert.workloadId = None
             /\ ~(world.declares /\ {alert.project, alert.queue} # {None})}

HasIdentity(q) ==
  CASE q \in WorkloadQueries -> NamesWorkload
    [] q = "project" -> alert.project # None
    [] q = "queue" -> alert.queue # None
    [] OTHER -> FALSE

RunaiEntity(q) ==
  CASE q \in WorkloadQueries /\ alert.workloadId # None -> "workload"
    [] q \in WorkloadQueries /\ alert.workloadId = None -> "workloadname"
    [] OTHER -> q

(* Only the workload's own id can be absent, and only while the alert fires: *)
(* afterwards a missing object is recovery.  An object that is there counts  *)
(* when one of its time stamps lies in the collected range.                  *)
RunaiCard(r) ==
  LET ranged == IncidentRange(alert) # NoRange
      mine == Identified(r)
      basis == UNION {Stamped(i) : i \in mine}
      is(polarity, coverage) ==
        Card(r.query, polarity, coverage, RunaiEntity(r.query), IF polarity = "present" THEN basis ELSE {})
  IN  CASE r.error = "404" /\ r.query = "workload_by_id" ->
             IF ranged /\ Ended(alert) THEN is("unknown", "partial") ELSE is("absent", "scoped")
        [] r.error = "404" /\ r.query # "workload_by_id" -> is("unknown", "partial")
        [] r.error \in {"failed", "401"} -> is("unavailable", "unknown")
        [] OTHER -> IF HasIdentity(r.query) /\ mine # {} /\ (~ranged \/ basis # {})
                    THEN is("present", "scoped") ELSE is("unknown", "partial")

RunaiVerdict(S, gaps) ==
  LET failed == S \ Usable(S)
      missing == MissingNames \union gaps
                 \union (IF failed # {} THEN {"query"} ELSE {})
                 \union (IF \E r \in S : r.error = "401" THEN {"auth"} ELSE {})
  IN  CASE Usable(S) # {} /\ missing = {} -> [status |-> "ok", confidence |-> "high", missing |-> missing]
        [] Usable(S) # {} /\ missing # {} -> [status |-> "partial", confidence |-> "medium", missing |-> missing]
        [] OTHER -> [status |-> "unavailable", confidence |-> "low", missing |-> missing \union {"query"}]

----------------------------------------------------------------------------
(* The steps, each of them one wait for the platform. *)

\* Without an API the alert's labels are all there is.
RunaiUnconfigured ==
  /\ pc = "begin_runai" /\ ~world.api
  /\ verdict' = [status |-> IF Cardinality(MissingNames) < 3 THEN "partial" ELSE "unavailable",
                 confidence |-> "low",
                 missing |-> MissingNames \union (IF alert.queue # None THEN {"queue_scope"} ELSE {})]
  /\ pc' = "done"
  /\ UNCHANGED <<alert, world, got, cards>>

\* A token exchange that fails leaves nothing to ask with.
RunaiUnauthorized ==
  /\ pc = "begin_runai" /\ world.api
  /\ world.creds \in {"none", "oauth"}
  /\ verdict' = [status |-> "unavailable", confidence |-> "low",
                 missing |-> MissingNames \union {"auth", "query"}
                             \union (IF alert.queue # None THEN {"queue_scope"} ELSE {})]
  /\ pc' = "done"
  /\ UNCHANGED <<alert, world, got, cards>>

RunaiToken ==
  /\ pc = "begin_runai" /\ world.api /\ world.creds # "none"
  /\ got' = [got EXCEPT !.token = TRUE]
  /\ pc' = IF world.mcp /\ McpSupported THEN "mcp" ELSE "direct_runai"
  /\ UNCHANGED <<alert, world, cards, verdict>>

\* Any usable tool keeps the server's answers; none, or a session that could
\* not be opened, leaves only the API.
RunaiMcp ==
  /\ pc = "mcp"
  /\ \E f \in AllAnswers(McpQueries, "mcp") :
       LET used == Usable(Values(f)) # {} IN
       /\ got' = [got EXCEPT !.results = IF used THEN Values(f) ELSE {}, !.mcp = used]
       /\ pc' = IF \E r \in Values(f) : Hollow(r) THEN "direct_runai" ELSE "queue"
  /\ UNCHANGED <<alert, world, cards, verdict>>

\* The API's answers fill the gaps of the server's, or are all there is.
Merged(S) ==
  LET gap == {r.query : r \in {a \in got.results : Hollow(a)}}
      fills == {r \in S : Equivalents(r.query) \intersect gap # {}}
      replaced == UNION {Equivalents(r.query) : r \in Usable(fills)} \intersect gap
  IN  IF ~got.mcp THEN S
      ELSE {r \in got.results : ~(r.error # "none" /\ r.query \in replaced)} \union fills

RunaiDirect ==
  /\ pc = "direct_runai"
  /\ \E f \in AllAnswers(DirectQueries, "direct") : got' = [got EXCEPT !.results = Merged(Values(f))]
  /\ pc' = "queue"
  /\ UNCHANGED <<alert, world, cards, verdict>>

\* The server has no queue tool.
RunaiQueue ==
  /\ pc = "queue"
  /\ IF got.mcp /\ alert.queue # None
     THEN \E r \in RunaiReplies("queue", "direct") :
            got' = IF r.error = "none" THEN [got EXCEPT !.results = @ \union {r}]
                   ELSE [got EXCEPT !.gaps = {"queue_scope"}]
     ELSE UNCHANGED got
  /\ pc' = "retry"
  /\ UNCHANGED <<alert, world, cards, verdict>>

\* A 401 of the API is answered once, with a token exchanged anew.
Unauthenticated == \E r \in got.results : r.error = "401"
RunaiRetry ==
  /\ pc = "retry" /\ Unauthenticated /\ ~got.mcp /\ world.creds = "oauth" /\ ~got.refreshed
  /\ got' = [got EXCEPT !.refreshed = TRUE]
  /\ pc' = "again"
  /\ UNCHANGED <<alert, world, cards, verdict>>

RunaiAgain ==
  /\ pc = "again"
  /\ \E f \in AllAnswers(DirectQueries, "direct") : got' = [got EXCEPT !.results = Values(f)]
  /\ pc' = "retry"
  /\ UNCHANGED <<alert, world, cards, verdict>>

RunaiConclude ==
  /\ pc = "retry"
  /\ cards' = {RunaiCard(r) : r \in got.results}
  /\ verdict' = RunaiVerdict(got.results, got.gaps)
  /\ pc' = "done"
  /\ UNCHANGED <<alert, world, got>>

\* The workload is deleted, or submitted again under its name, meanwhile.
WorkloadDeleted ==
  /\ pc \in {"mcp", "direct_runai", "queue", "again"} /\ world.churn
  /\ world' = [world EXCEPT !.objects = {o \in @ : o.of # "workload"}, !.churn = FALSE]
  /\ UNCHANGED <<alert, pc, got, cards, verdict>>

RunaiNext ==
  \/ RunaiUnconfigured \/ RunaiUnauthorized \/ RunaiToken \/ RunaiMcp \/ RunaiDirect
  \/ RunaiQueue \/ RunaiRetry \/ RunaiAgain \/ RunaiConclude \/ WorkloadDeleted
=============================================================================
