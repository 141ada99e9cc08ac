----------------------------- MODULE RcaRanking -----------------------------
(***************************************************************************)
(* The deterministic reasoning of the analysis agent: how the families of  *)
(* the catalog are ranked from the evidence cards of one run, how an exact *)
(* signature takes the headline over, how a self-check weighs the leader   *)
(* and which hard gates its publication has to pass.                       *)
(*                                                                         *)
(* A card is one typed observation: what it is about, whether it asserts   *)
(* (support) or excludes (contradict), whether the blackboard found it     *)
(* eligible for this target and window (ok), whether it names the target   *)
(* itself (own).  Points are counted in eighths so that the priors and the *)
(* half-point bonuses stay integers.                                       *)
(***************************************************************************)
EXTENDS Integers, Sequences, FiniteSets, FiniteSetsExt, SequencesExt

CONSTANTS
    Catalog,      \* the closed vocabulary of families, in the order of the file
    Rule,         \* Rule[f]: the agents whose cards count for f, one of them canonical
    Group,        \* Group[a]: the telemetry plane agent a reads
    Issues,       \* the known issues, in order: [name, fam, strong, alert]
    Symptoms      \* the curated symptoms, in order: same fields

Insufficient == "insufficient_evidence"
GpuFault     == "gpu_hardware_error"
NodePressure == "node_kubelet_pressure"
Startup      == "workload_startup_error"
ControlPlane == "runai_control_plane_error"
Quota        == "runai_scheduling_quota"
Lifecycle    == "platform_lifecycle_change"

Families  == ToSet(Catalog)
Synthetic == {"topology", "knowledge-graph", "typedb"}

Low == 0  Medium == 1  High == 2
Floor == 16  HighScore == 40

Cause(f, conf, score) ==
    [fam |-> f, conf |-> conf, score |-> score, agents |-> {}, supp |-> {},
     contra |-> {}, groups |-> {}, sigs |-> {}, novel |-> FALSE]
NoCause == Cause(Insufficient, Low, 0)

Lower(conf) == IF conf = Low THEN Low ELSE conf - 1
LeastOf(m, n) == IF m < n THEN m ELSE n
MostOf(m, n)  == IF m < n THEN n ELSE m

\* The members of S in the order Less; the entries of a list at the places I.
Ordered(S, Less(_, _)) ==
    [i \in 1..Cardinality(S) |-> CHOOSE c \in S : Cardinality({d \in S : Less(d, c)}) = i - 1]
Picked(list, I) ==
    LET at == Ordered(I, LAMBDA i, j : i < j)
    IN  [k \in 1..Cardinality(I) |-> list[at[k]]]

-----------------------------------------------------------------------------
(* What the cards say of a family *)

Permits(c, role) == c.ok /\ c.role = role

SupportsFamily(f, c) ==
    /\ c.role = "support"
    /\ f \in c.about
    /\ c.agent \in Rule[f].agents \cup {"alert"}

ContradictsFamily(f, c) == c.role = "contradict" /\ f \in c.about

Backing(f, cards)  == {c \in cards : Permits(c, "support") /\ SupportsFamily(f, c)}
Against(f, cards)  == {c \in cards : Permits(c, "contradict") /\ ContradictsFamily(f, c)}

\* A card weighs by the source, never by the number of synonyms in its text;
\* an agent contributes at most three cards.
FirstThree(S) == {c \in S : Cardinality({d \in S : d.id < c.id}) < 3}

Weight(f, c) ==
    IF f = Quota /\ c.agent = "kubernetes" /\ c.shortage THEN 24
    ELSE IF c.agent = Rule[f].canonical THEN 16 ELSE 8

Counted(f, cards) ==
    UNION {FirstThree({c \in Backing(f, cards) : c.agent = a}) :
             a \in Rule[f].agents \cup {"alert"}}

\* What the counted cards S and the contradicting cards T make of a family.
Tally(f, S, T) ==
    LET at(w)  == w * Cardinality({c \in S : Weight(f, c) = w})
        points == at(8) + at(16) + at(24)
    IN  [points |-> points, evidence |-> points, force |-> FALSE,
         agents |-> {c.agent : c \in S}, supp |-> {c.id : c \in S},
         groups |-> {c.group : c \in S}, contra |-> {c.id : c \in T}]

Evidence(f, cards) ==
    Tally(f, Counted(f, cards),
          {c \in Against(f, cards) : c.agent \in Rule[f].agents \cup {"alert"}})

Observers(s) == {Group[a] : a \in s.agents \ Synthetic}
Corroboration(s) == Cardinality(IF s.groups # {} THEN s.groups ELSE Observers(s))

-----------------------------------------------------------------------------
(* The score of every family *)

Plus(s, n) == [s EXCEPT !.points = @ + n]

Bonuses(S, ctx) ==
    LET blasted == /\ S[NodePressure].points > 0
                   /\ ctx.blast >= 2
                   /\ ctx.component \in {"", NodePressure}
                   /\ ~ctx.rollout
                   /\ ctx.nodeCondition
        node == IF blasted
                THEN [Plus(S[NodePressure], 24) EXCEPT !.force = TRUE,
                                                          !.agents = @ \cup ctx.blastAgents]
                ELSE S[NodePressure]
        quiet == S[Startup].points > 0 /\ S[ControlPlane].points = 0
        metered == S[Quota].points > 0 /\ S[Quota].agents \cap {"prometheus", "runai"} # {}
        flap(s) == IF ctx.flapping /\ s.points > 0 THEN 4 ELSE 0
    IN  [S EXCEPT ![NodePressure] = Plus(node, flap(node)),
                  ![Startup] = Plus(@, (IF quiet THEN 8 ELSE 0) + flap(@)),
                  ![Quota] = Plus(@, IF metered THEN 4 ELSE 0)]

\* The component the alert is about, and a rollout of it, are facts of the
\* topology: they lead every family that one telemetry plane alone supports.
Led(S, f, agent) ==
    LET weak  == {g \in Families \ {f} : Cardinality(Observers(S[g])) < 2}
        rival == IF weak = {} THEN 0 ELSE Max({S[g].points : g \in weak})
    IN  [S EXCEPT ![f].points = MostOf(@ + 32, rival + 8),
                  ![f].agents = @ \cup {agent}]

WithContext(S, ctx) ==
    LET named  == IF ctx.component \in Families THEN Led(S, ctx.component, "topology") ELSE S
        rolled == Led(named, Lifecycle, "change")
    IN  IF ctx.rollout
        THEN [rolled EXCEPT ![Lifecycle].force = @ \/ ctx.ownRollout]
        ELSE named

\* A prior of earlier incidents moves a family only if this incident, inside
\* its own interval, observed the target for it.
OwnObservation(s, cards, ctx) ==
    /\ ctx.resolved
    /\ \E c \in cards : c.own /\ Permits(c, "support") /\ c.agent \in s.agents

WithPriors(S, cards, ctx) ==
    [f \in Families |->
       LET s == S[f]
           nudged == IF f = ctx.prior /\ s.evidence > 0 /\ OwnObservation(s, cards, ctx)
                     THEN Plus(s, (s.evidence * 3) \div 4) ELSE s
       IN  IF f = ctx.graphFamily /\ nudged.points > 0 THEN Plus(nudged, 8) ELSE nudged]

Scores(cards, ctx) ==
    WithPriors(WithContext(Bonuses([f \in Families |-> Evidence(f, cards)], ctx), ctx),
               cards, ctx)

Confidence(f, s, down) ==
    LET level == IF s.contra # {} THEN Low
                 ELSE IF s.force \/ (s.points >= HighScore /\ Corroboration(s) >= 2) THEN High
                 ELSE IF s.points >= Floor THEN Medium ELSE Low
    IN  IF Rule[f].canonical \in down THEN Lower(level) ELSE level

-----------------------------------------------------------------------------
(* The ranked list *)

\* Uncontradicted first, then confidence, then independent planes, then score;
\* the order of the catalog where all of them agree.
Key(c) == <<IF c.contra = {} THEN 1 ELSE 0, c.conf, Cardinality(c.groups), c.score>>
KeyLess(k, l) ==
    \E i \in 1..4 : k[i] < l[i] /\ \A j \in 1..(i - 1) : k[j] = l[j]
Place(f) == IF f \in Families THEN CHOOSE i \in DOMAIN Catalog : Catalog[i] = f
            ELSE Len(Catalog) + 1
Before(c, d) ==
    KeyLess(Key(d), Key(c)) \/ (Key(c) = Key(d) /\ Place(c.fam) < Place(d.fam))

Candidate(f, s, down) ==
    [Cause(f, Confidence(f, s, down), s.points) EXCEPT
       !.agents = s.agents, !.supp = s.supp, !.contra = s.contra,
       !.groups = IF s.groups # {} THEN s.groups ELSE Observers(s)]

Observed(c) == c.agents \ Synthetic # {}

Live(c) == c.score >= Floor /\ (c.conf >= Medium \/ c.contra # {}) /\ Observed(c)

\* A family only the topology or the graph speaks for, ahead of every observed
\* one, takes the headline from a leader one telemetry plane supports.
Blocked(live, context) ==
    /\ live # <<>> /\ context # <<>>
    /\ context[1].score > live[1].score
    /\ live[1].conf # High
    /\ Cardinality(live[1].groups) < 2

Headed(live, other, ranked) ==
    IF \/ live = <<>>
       \/ Blocked(live, Picked(other, {i \in DOMAIN other :
                                         other[i].agents # {} /\ ~Observed(other[i])}))
    THEN <<NoCause>> \o ranked ELSE live \o other

Headlined(ranked) ==
    LET live == {i \in DOMAIN ranked : Live(ranked[i])}
    IN  Headed(Picked(ranked, live), Picked(ranked, DOMAIN ranked \ live), ranked)

Candidates(S, down) ==
    Ordered({Candidate(f, S[f], down) : f \in {g \in Families : S[g].points > 0}}, Before)

First(seq, n) == SubSeq(seq, 1, LeastOf(n, Len(seq)))
Rank(cards, down, ctx, n) ==
    First(Headlined(Candidates(Scores(cards, ctx), down)), n)
=============================================================================
