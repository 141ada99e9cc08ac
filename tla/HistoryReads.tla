---------------------------- MODULE HistoryReads ----------------------------
(***************************************************************************)
(* The Postgres collector: a health check of a database and, when it is    *)
(* the platform's own, the rows its audit tables hold about the alert.     *)
(*                                                                         *)
(* A table is [columns, rows]: the identity columns it has and its rows    *)
(* [pod, workload, project, at], named by whose they are ("twin" is the    *)
(* alert's pod name under another uid, "namesake" its workload's name in   *)
(* another project).  A count finds the rows; only the newest of them are  *)
(* fetched, and each has to prove again whose it is and when it happened.  *)
(***************************************************************************)
EXTENDS Evidence
LOCAL INSTANCE FiniteSetsExt

CONSTANTS
  RowCap,     \* rows fetched of one table
  TableCap    \* tables searched

ASSUME HistoryAssumption == RowCap \in Nat \ {0} /\ TableCap \in Nat

PostgresInit(a, w) ==
  /\ alert = a /\ world = w
  /\ pc = "begin_postgres" /\ got = {} /\ cards = {} /\ verdict = NoVerdict

----------------------------------------------------------------------------
(* The rows of a table about the alert. *)

PostgresWorld(w) == "collector" \in DOMAIN w /\ \A tb \in w.tables : IsFiniteSet(tb.rows)

\* A pod or a workload is named; otherwise a project has to do.
Strong == {alert.pod, alert.workload} # {None}
IdentityColumns(tb) ==
  tb.columns \intersect
    ((IF alert.pod # None THEN {"pod"} ELSE {}) \union (IF alert.workload # None THEN {"workload"} ELSE {})
     \union (IF ~Strong /\ alert.project # None THEN {"project"} ELSE {}))

\* A name in a column is compared as text, so a twin and a namesake match.
Matches(column, row) ==
  CASE column = "pod" -> row.pod \in {"pod", "twin"}
    [] column = "workload" -> row.workload \in {"workload", "namesake"}
    [] OTHER -> row.project = alert.project
\* A declared project has to agree wherever the table records one.
InScopeRow(tb, row) ==
  "project" \in tb.columns /\ alert.project # None => row.project = alert.project

TargetRows(tb) ==
  {r \in tb.rows : /\ Within(r.at, IncidentRange(alert))
                   /\ \E c \in IdentityColumns(tb) : Matches(c, r)
                   /\ InScopeRow(tb, r)}
NewestRows(S) == {r \in S : Cardinality({o \in S : o.at > r.at}) < RowCap}

\* What comes back of a table; a server may count one set and send another,
\* or lose the time stamps of the aggregate.
TableReply(tb, n, rows, timed) ==
  [table |-> tb, error |-> FALSE, count |-> n, rows |-> rows, timed |-> timed]
TableReplies(tb, via) ==
  LET S == TargetRows(tb)
      honest == TableReply(tb, Cardinality(S), NewestRows(S), TRUE)
  IN  {honest, [honest EXCEPT !.error = TRUE]}
      \union (IF via = "mcp"
              THEN {[honest EXCEPT !.timed = FALSE], [honest EXCEPT !.rows = {}],
                    [honest EXCEPT !.rows = NewestRows(tb.rows)]} ELSE {})

----------------------------------------------------------------------------
(* What the rows prove. *)

\* Who a row is about, by the columns the query could use.
RowEntity(tb, r) ==
  LET c == IdentityColumns(tb) IN
  CASE "pod" \in c /\ Matches("pod", r) -> "podname"
    [] "workload" \in c /\ Matches("workload", r) /\ ~("pod" \in c /\ Matches("pod", r)) -> "workloadname"
    [] OTHER -> IF "project" \in c /\ Matches("project", r) THEN "project" ELSE None
RowOf(tb, r) ==
  CASE RowEntity(tb, r) = "podname" -> r.pod [] RowEntity(tb, r) = "workloadname" -> r.workload [] OTHER -> "project"

\* Rows after the resolution are passed over; each of the others must be in
\* the range and about the alert.
Counting(r) == {row \in r.rows : row.at <= CausalRange(alert).end}
RowsProve(r) ==
  /\ Counting(r) # {} /\ \A row \in r.rows : row.at # NoTime
  /\ \A row \in Counting(r) :
       /\ row.at >= IncidentRange(alert).start
       /\ RowEntity(r.table, row) # None /\ InScopeRow(r.table, row)

HistoryEntity(r) ==
  IF r.count = 0
  THEN CASE alert.pod # None -> "podname"
         [] alert.pod = None /\ alert.workload # None -> "workloadname"
         [] OTHER -> IF alert.project # None THEN "project" ELSE "namespace"
  ELSE LET kinds == {RowEntity(r.table, row) : row \in Counting(r)} IN
       IF "podname" \in kinds THEN "podname" ELSE CHOOSE k \in kinds : TRUE

HistoryCard(r) ==
  LET proven == IdentityColumns(r.table) # {} /\ (r.count > 0 => r.timed /\ RowsProve(r))
      is(polarity) ==
        Card("history", polarity, "scoped", HistoryEntity(r),
             IF polarity = "present" THEN {[of |-> RowOf(r.table, row), at |-> row.at] : row \in Counting(r)} ELSE {})
  IN  IF ~proven THEN Card("history", "unknown", "partial", None, {})
      ELSE is(IF r.count > 0 THEN "present" ELSE "absent")

----------------------------------------------------------------------------
(* The verdict. *)

\* A passing health check is no evidence; a table that failed, or one more
\* than are searched, is a gap.
HistoryVerdict(replies, skipped) ==
  LET failed == {r \in replies : r.error}
      present == {r \in replies \ failed : HistoryCard(r).polarity = "present"}
      partial == failed # {} \/ skipped \/ world.longTransaction \/ (~world.platform /\ world.tablesMissing)
  IN  [status |-> IF partial THEN "partial" ELSE "ok",
       confidence |-> IF partial \/ present # {} THEN "medium" ELSE "low",
       missing |-> IF failed # {} \/ skipped THEN {"audit_table"} ELSE {}]

\* Audit tables are searched in the platform's database and for an incident
\* with a range.
Searched == IF world.platform /\ IncidentRange(alert) # NoRange THEN world.tables ELSE {}

PostgresConcludes(via) ==
  \E S \in {T \in SUBSET Searched : Cardinality(T) = Min({TableCap, Cardinality(Searched)})} :
    \E f \in OneEach([tb \in S |-> TableReplies(tb, via)]) :
      /\ LET replies == {f[tb] : tb \in S} IN
         /\ cards' = {HistoryCard(r) : r \in {q \in replies : ~q.error}}
         /\ verdict' = HistoryVerdict(replies, S # Searched)
      /\ pc' = "done"
      /\ UNCHANGED <<alert, world, got>>

PostgresMcp ==
  /\ pc = "begin_postgres" /\ world.mcp
  /\ PostgresConcludes("mcp")

\* One failing check, or the deadline they share, gives the server up.
PostgresMcpFails ==
  /\ pc = "begin_postgres" /\ world.mcp
  /\ pc' = "direct_postgres"
  /\ UNCHANGED <<alert, world, got, cards, verdict>>

Direct == pc = "direct_postgres" \/ (pc = "begin_postgres" /\ ~world.mcp)

PostgresDirect ==
  /\ Direct /\ world.dsn
  /\ PostgresConcludes("direct")

\* No database to ask, or none that answers.
PostgresUnavailable ==
  /\ Direct
  /\ verdict' = [status |-> "unavailable", confidence |-> "low",
                 missing |-> IF world.dsn THEN {} ELSE {"dsn"}]
  /\ pc' = "done"
  /\ UNCHANGED <<alert, world, got, cards>>

(* A check that fails on the open connection is not caught: the collector    *)
(* raises, and its caller turns that into an unavailable answer.             *)
PostgresRaises ==
  /\ Direct /\ world.dsn
  /\ pc' = "raised"
  /\ UNCHANGED <<alert, world, got, cards, verdict>>

PostgresNext == PostgresMcp \/ PostgresMcpFails \/ PostgresDirect \/ PostgresUnavailable \/ PostgresRaises
=============================================================================
