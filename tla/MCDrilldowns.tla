------------------------------ MODULE MCDrilldowns ------------------------------
EXTENDS Drilldowns, TLC

MCNames == {"kubernetes", "loki"}
MCScopes == {"whole", "own", "other"}
MCEffective == "whole" :> "own" @@ "own" :> "own" @@ "other" :> "other"
Describe == <<"k8s_describe", "pod">>
Logs == <<"logql_query", "pod">>
MCQueries == {Describe, Logs}
MCCovers == [p \in MCNames \X MCScopes |->
    IF p = <<"kubernetes", "whole">> THEN {Describe} ELSE {}]

\* h1 is planned, h2 can only come from the model.
MCHypotheses == {"h1", "h2"}
MCFacts == {"oom", "log", "calm"}
MCPlane == "oom" :> "cluster" @@ "log" :> "logs" @@ "calm" :> "logs"
MCFor == "oom" :> {"h1"} @@ "log" :> {"h1"} @@ "calm" :> {}
MCAgainst == "oom" :> {} @@ "log" :> {} @@ "calm" :> {"h1"}
MCEligible == {"oom", "log", "calm"}
Fails == <<"unavailable", {}>>
MCResults == [r \in (MCNames \X MCScopes) \cup MCQueries |->
    CASE r[1] = "kubernetes" /\ r[2] # "other" -> {<<"ok", {"oom"}>>, <<"partial", {}>>, Fails}
      [] r = <<"loki", "whole">> -> {<<"ok", {"log"}>>, <<"ok", {"calm"}>>, Fails}
      [] r = Logs -> {<<"ok", {"calm"}>>, Fails}
      [] OTHER -> {<<"ok", {}>>, Fails}]

Claim == {[id |-> "h1", status |-> "supported", cites |-> {"oom", "log"}]}
Novel == {[id |-> "h2", status |-> "supported", cites |-> {"oom", "log"}]}
Turn(ups, new, action, ps, qs) == [ups |-> ups, new |-> new, action |-> action, invalid |-> FALSE,
                                   probes |-> ps, queries |-> qs]
ProbeOther == Turn(Claim, {}, "probe", {<<"kubernetes", "other">>}, {Describe})
ProbeBoth  == Turn({}, {}, "probe", {<<"kubernetes", "whole">>, <<"loki", "whole">>}, {})
Conclude   == Turn(Claim, {}, "conclude", {}, {})
Misnamed   == [Turn({}, {}, "probe", {}, {}) EXCEPT !.invalid = TRUE]
MCAnswers == <<{ProbeOther, ProbeBoth, Conclude, Misnamed}, {ProbeBoth}>>
MCReflections == <<{[ups |-> Claim, new |-> {}], [ups |-> {}, new |-> Novel]},
                   {}>>
MCRounds == <<2, 1>>

MCDeclared == "kubernetes" :> {Describe} @@ "loki" :> {Describe}
MCAbout == Describe :> {"h1"} @@ Logs :> {"h1"}
MCOptional == "kubernetes" :> {} @@ "loki" :> {Logs}
================================================================================
