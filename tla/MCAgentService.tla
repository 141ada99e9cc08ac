--------------------------- MODULE MCAgentService ---------------------------
(* Two analyses: of one run or of two, of one target or of two; with the     *)
(* engine, with follow-ups, or with the knowledge registry at work.          *)
EXTENDS AgentService, TLC

MCRequests == {"r1", "r2"}
MCTargets == {"t1", "t2"}
MCRunIds == {"a"}

Same(x) == [r \in MCRequests |-> x]
Pair(x, y) == "r1" :> x @@ "r2" :> y
Conf(features, runs, targets) ==
    [engine |-> "engine" \in features, change |-> "change" \in features,
     follow |-> "follow" \in features, sync |-> "sync" \in features,
     runOf |-> runs, target |-> targets]

MCConfs ==
    {Conf({"engine"}, runs, Same("t1")) : runs \in {Same("a"), Pair("a", "")}}
    \cup {Conf({"change"}, Same("a"), Same("t1")),
          Conf({"change", "follow"}, Same(""), Same("t1")),
          Conf({"change"}, Same(""), Pair("t1", "t2")),
          Conf({"sync"}, Same(""), Same("t1"))}

\* The second revision has nothing usable; the third withdraws a package.
MCContent ==
    << "p" :> "active" @@ "q" :> "shadow",
       "p" :> "unusable" @@ "q" :> "absent",
       "p" :> "active" @@ "q" :> "absent" >>
=============================================================================
