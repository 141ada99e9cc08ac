--------------------------- MODULE MCAgentPipeline --------------------------
EXTENDS AgentPipeline

ImagePull == "image_pull_error"

MCCatalog == <<NodePressure, Quota, ControlPlane, Startup, ImagePull, GpuFault, Lifecycle>>

Reads(canonical, agents) == [canonical |-> canonical, agents |-> agents]
MCRule ==
    [f \in Families |->
       CASE f = NodePressure -> Reads("kubernetes", {"kubernetes", "prometheus"})
         [] f = Quota        -> Reads("prometheus", {"prometheus", "kubernetes", "runai"})
         [] f = ControlPlane -> Reads("loki", {"loki", "kubernetes"})
         [] f = Startup      -> Reads("kubernetes", {"kubernetes", "loki"})
         [] f = ImagePull    -> Reads("kubernetes", {"kubernetes", "loki"})
         [] f = GpuFault     -> Reads("system", {"system", "loki", "kubernetes"})
         [] f = Lifecycle    -> Reads("change", {"change"})]

MCGroup == [a \in {"kubernetes", "loki", "prometheus", "runai", "system", "change",
                   "alert", "signature"} |->
              IF a = "change" THEN "kubernetes" ELSE a]

Card(id, agent, f, role) ==
    [id |-> id, agent |-> agent, group |-> MCGroup[agent], about |-> {f}, role |-> role,
     ok |-> TRUE, own |-> agent = "kubernetes", typed |-> "", xid |-> FALSE,
     marks |-> {}, shortage |-> FALSE]

pull      == [Card(1, "kubernetes", ImagePull, "support") EXCEPT !.marks = {"pull denied"}]
pullLog   == Card(2, "loki", ImagePull, "support")
pulled    == Card(3, "kubernetes", ImagePull, "contradict")
xidLine   == [Card(4, "system", GpuFault, "support") EXCEPT !.xid = TRUE]
gpuFine   == Card(5, "system", GpuFault, "contradict")
pressure  == Card(6, "kubernetes", NodePressure, "support")
elsewhere == [Card(7, "prometheus", NodePressure, "support") EXCEPT !.ok = FALSE, !.own = FALSE]
oom       == [Card(8, "kubernetes", Startup, "support") EXCEPT !.typed = Startup]
syncLog   == [Card(9, "loki", ControlPlane, "support") EXCEPT !.marks = {"cluster sync"}]
pending   == [Card(10, "kubernetes", Quota, "support") EXCEPT !.shortage = TRUE]
startLog  == Card(11, "loki", Startup, "support")
started   == Card(12, "kubernetes", Startup, "contradict")
pulls     == {Card(i, "kubernetes", ImagePull, "support") : i \in {1, 13, 14}}
cached    == Card(15, "prometheus", ImagePull, "contradict")
crash     == Card(16, "kubernetes", Startup, "support")

Entry4(name, f, strong, alert) == [name |-> name, fam |-> f, strong |-> strong, alert |-> alert]
MCIssues   == <<Entry4("cluster sync", ControlPlane, TRUE, FALSE)>>
MCSymptoms == <<Entry4("pull denied", ImagePull, TRUE, FALSE)>>

Calm == [blast |-> 0, blastAgents |-> {}, component |-> "", rollout |-> FALSE,
         ownRollout |-> FALSE, nodeCondition |-> FALSE, flapping |-> FALSE,
         resolved |-> FALSE, prior |-> "", graphFamily |-> ""]
Base == [llm |-> TRUE, loop |-> TRUE, deadline |-> FALSE, harness |-> TRUE, mode |-> "shadow",
         generic |-> FALSE, alert |-> [xid |-> FALSE], down |-> {}, ctx |-> Calm,
         plan |-> <<Startup>>, gaps |-> TRUE, rounds |-> 3, passScore |-> 70]

MCSettings ==
    {Base,
     [Base EXCEPT !.deadline = TRUE, !.rounds = 2],
     [Base EXCEPT !.loop = FALSE, !.llm = FALSE],
     [Base EXCEPT !.loop = FALSE, !.generic = TRUE, !.alert = [xid |-> TRUE]],
     [Base EXCEPT !.mode = "authoritative", !.rounds = 1],
     [Base EXCEPT !.mode = "authoritative", !.rounds = 2],
     [Base EXCEPT !.rounds = 1, !.down = {"kubernetes"}, !.harness = FALSE],
     [Base EXCEPT !.loop = FALSE, !.llm = FALSE,
                  !.ctx = [Calm EXCEPT !.blast = 2, !.blastAgents = {"kubernetes"},
                                       !.nodeCondition = TRUE, !.flapping = TRUE]],
     [Base EXCEPT !.loop = FALSE, !.llm = FALSE,
                  !.ctx = [Calm EXCEPT !.component = ControlPlane, !.resolved = TRUE,
                                       !.prior = ImagePull, !.graphFamily = ControlPlane]],
     [Base EXCEPT !.loop = FALSE, !.llm = FALSE,
                  !.ctx = [Calm EXCEPT !.rollout = TRUE, !.ownRollout = TRUE]]}

MCShortOfTime == {[Base EXCEPT !.deadline = TRUE, !.rounds = 2]}
MCOpenWorld   == {[Base EXCEPT !.mode = "authoritative", !.rounds = 2]}

MCBoards == {{}, {pull}, {pull, pullLog}, {pull, pulled}, {xidLine, gpuFine}, {pressure, elsewhere},
             {oom, syncLog}, {pull, syncLog, pending}, {startLog, started, pull, pulled}, pulls \cup {cached}}
MCFinds  == {{}, {pulled}, {syncLog}, {started}, {startLog, crash}}

MCHypotheses == {[fam |-> "novel_registry_proxy", status |-> "supported", supp |-> {1, 11},
                  contra |-> {}]}

MCOpinions ==
    {[answered |-> FALSE, supported |-> TRUE, conf |-> High, asks |-> FALSE],
     [answered |-> TRUE, supported |-> TRUE, conf |-> High, asks |-> FALSE],
     [answered |-> TRUE, supported |-> FALSE, conf |-> Low, asks |-> TRUE]}
=============================================================================
