--------------------------- MODULE MCAnalysisRuns ---------------------------
EXTENDS AnalysisRuns, TLC

CONSTANTS a1, a2, inc

OneAlert  == {a1}
TwoAlerts == {a1, a2}
OneInc    == {inc}
AllOfInc  == [a \in Alerts |-> inc]

Req(src, t)   == [source |-> src, target |-> t]
RequestsSmall == {Req("auto", a) : a \in Alerts} \cup {Req("manual", inc)}
RequestsAll   == RequestsSmall \cup {Req("comment", a) : a \in Alerts}

\* Only the order of the UpdatedAt stamps matters, never their value.
Rank(r)  == Cardinality({row[o].updated : o \in {q \in Rows : row[q].updated < row[r].updated}})
Ordinal  == [r \in Attempts |-> IF r \in Rows THEN [row[r] EXCEPT !.updated = Rank(r)] ELSE NoRow]
RankView == <<Ordinal, task, attempts, alertFlag, incFlag, deleted, backlog, slots, faults>>

=============================================================================
