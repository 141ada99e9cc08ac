------------------------- MODULE Drilldowns_proofs -------------------------
(***************************************************************************)
(* What holds of the evidence stage for any collectors, scopes, queries,    *)
(* answers of the models and the servers, and rounds.                       *)
(***************************************************************************)
EXTENDS Drilldowns, FiniteSetTheorems, SequenceTheorems, TLAPS

-----------------------------------------------------------------------------
(* Every declared probe gets one verdict *)

AgentState == [at : {"none", "probes", "ask", "read", "done", "cancelled"},
               todo : SUBSET Queries, mine : SUBSET Queries, done : SUBSET Queries,
               round : Nat, repaired : BOOLEAN]

Verdicts(n, q) == {a \in assessed : a.by = n /\ a.probe = q}

\* A declared probe waits, is being read, or has its verdict.
Waits(n, q) ==
    /\ q \in agent[n].todo
    /\ agent[n].at = "probes" => q \notin agent[n].mine
    /\ Verdicts(n, q) = {}
IsRead(n, q) ==
    /\ agent[n].at = "probes"
    /\ q \in agent[n].mine \ agent[n].todo
    /\ Verdicts(n, q) = {}
IsAssessed(n, q) ==
    /\ q \notin agent[n].todo
    /\ agent[n].at = "probes" => q \notin agent[n].mine
    /\ \E a \in Verdicts(n, q) : Verdicts(n, q) = {a}

Probing(n) ==
    agent[n].at = "probes" =>
        /\ agent[n].todo \cup agent[n].mine \subseteq Declared[n]
        /\ \A p, q \in agent[n].mine : p = q
Partitioned(n) ==
    agent[n].at \in {"probes", "ask", "read", "done"} =>
        \A q \in Declared[n] : Waits(n, q) \/ IsRead(n, q) \/ IsAssessed(n, q)

\* Nothing is assessed before the agents of the first pass start.
AInv ==
    /\ agent \in [Names -> AgentState]
    /\ pass = 1 /\ phase \notin {"drill", "settled", "over"} => assessed = {}
    /\ \A n \in Names : Probing(n) /\ Partitioned(n)

LEMMA AgentFields ==
    ASSUME AInv, NEW n \in Names
    PROVE  /\ agent[n] \in AgentState
           /\ agent[n].at \in {"none", "probes", "ask", "read", "done", "cancelled"}
           /\ agent[n].todo \subseteq Queries /\ agent[n].mine \subseteq Queries
           /\ agent[n].done \subseteq Queries
           /\ agent[n].round \in Nat /\ agent[n].repaired \in BOOLEAN
BY DEF AInv, AgentState

\* An assessment is one of one agent and one probe.
LEMMA OneAssessment ==
    ASSUME NEW n, NEW q, NEW v, NEW b,
           assessed' = assessed \cup {Assessment(n, q, v, b)}
    PROVE  /\ Verdicts(n, q)' = Verdicts(n, q) \cup {Assessment(n, q, v, b)}
           /\ \A m, p : m # n \/ p # q =>
                {a \in assessed' : a.by = m /\ a.probe = p} = {a \in assessed : a.by = m /\ a.probe = p}
<1>1. Assessment(n, q, v, b).by = n /\ Assessment(n, q, v, b).probe = q
  BY DEF Assessment
<1> QED
  BY <1>1 DEF Verdicts

\* A step of one agent leaves the probes of the others as they were.
LEMMA OneAgent ==
    ASSUME AInv, phase = "drill", UNCHANGED <<phase, pass>>,
           NEW n \in Names, NEW e \in AgentState, Set(n, e),
           \A m \in Names, p \in Queries : m # n => Verdicts(m, p)' = Verdicts(m, p),
           e.at = "probes" => /\ e.todo \cup e.mine \subseteq Declared[n]
                              /\ \A p, q \in e.mine : p = q,
           e.at \in {"probes", "ask", "read", "done"} =>
               \A q \in Declared[n] :
                   \/ q \in e.todo /\ (e.at = "probes" => q \notin e.mine) /\ Verdicts(n, q)' = {}
                   \/ e.at = "probes" /\ q \in e.mine \ e.todo /\ Verdicts(n, q)' = {}
                   \/ q \notin e.todo /\ (e.at = "probes" => q \notin e.mine)
                      /\ \E a : Verdicts(n, q)' = {a}
    PROVE  AInv'
<1>1. agent \in [Names -> AgentState] /\ agent' = [agent EXCEPT ![n] = e]
  BY DEF AInv, Set
<1>2. agent' \in [Names -> AgentState] /\ agent'[n] = e
  BY <1>1
<1>3. \A m \in Names : m # n => agent'[m] = agent[m]
  BY <1>1
<1>4. ASSUME NEW m \in Names PROVE Probing(m)' /\ Partitioned(m)'
  <2>1. CASE m = n
    BY <2>1, <1>2 DEF Probing, Partitioned, Waits, IsRead, IsAssessed
  <2>2. CASE m # n
    <3>1. agent'[m] = agent[m] /\ Probing(m) /\ Partitioned(m)
      BY <2>2, <1>3 DEF AInv
    <3>2. \A q \in Declared[m] : Verdicts(m, q)' = Verdicts(m, q)
      BY <2>2, DrillAssumption
    <3> QED
      BY <3>1, <3>2 DEF Probing, Partitioned, Waits, IsRead, IsAssessed
  <2> QED
    BY <2>1, <2>2
<1> QED
  BY <1>2, <1>4 DEF AInv

LEMMA KeptVerdicts ==
    ASSUME assessed' = assessed
    PROVE  \A m, p : Verdicts(m, p)' = Verdicts(m, p)
BY DEF Verdicts

LEMMA KeptAgents ==
    ASSUME AInv, UNCHANGED <<agent, assessed>>,
           pass' = 1 /\ phase' \notin {"drill", "settled", "over"} =>
               pass = 1 /\ phase \notin {"drill", "settled", "over"}
    PROVE  AInv'
<1>1. \A m, p : Verdicts(m, p)' = Verdicts(m, p)
  BY KeptVerdicts
<1>2. ASSUME NEW m \in Names PROVE Probing(m)' /\ Partitioned(m)'
  <2>1. agent'[m] = agent[m] /\ Probing(m) /\ Partitioned(m)
    BY DEF AInv
  <2>2. \A q \in Declared[m] : Verdicts(m, q)' = Verdicts(m, q)
    BY <1>1
  <2> QED
    BY <2>1, <2>2 DEF Probing, Partitioned, Waits, IsRead, IsAssessed
<1>3. agent' \in [Names -> AgentState]
  BY DEF AInv
<1>4. pass' = 1 /\ phase' \notin {"drill", "settled", "over"} => assessed' = {}
  BY DEF AInv
<1> QED
  BY <1>2, <1>3, <1>4 DEF AInv

\* The investigator assesses nothing, and has handed over when the agents run.
LEMMA InvestigatorAside ==
    ASSUME InvestigationNext
    PROVE  /\ assessed' = assessed /\ pass' = pass
           /\ phase \in {"drill", "settled", "over"} => phase' = phase
<1>1. CASE Control
  <2>1. CASE WideProbes
    BY <2>1 DEF WideProbes
  <2>2. CASE LeaveDecisions \/ LeaveVerification \/ SkipReflection
    BY <2>2 DEF LeaveDecisions, LeaveVerification, SkipReflection, NoReflection
  <2>3. CASE ProbesCut \/ QueriesCut \/ ProbesDone \/ QueriesDone
    BY <2>3 DEF ProbesCut, QueriesCut, ProbesDone, QueriesDone
  <2>4. CASE TurnEnds \/ FinalGather \/ GatherEnds
    BY <2>4 DEF TurnEnds, FinalGather, GatherEnds
  <2>5. CASE Floor \/ FloorTimesOut \/ Finish
    BY <2>5 DEF Floor, FloorTimesOut, Finish
  <2> QED
    BY <1>1, <2>1, <2>2, <2>3, <2>4, <2>5 DEF Control
<1>2. CASE Replies
  <2>1. CASE NoDecision \/ NoReflection
    BY <2>1 DEF NoDecision, NoReflection
  <2>2. ASSUME NEW a \in Answers[pass], Decide(a)
        PROVE  phase = "decide" /\ assessed' = assessed /\ pass' = pass
    BY <2>2 DEF Decide
  <2>3. ASSUME NEW a \in Answers[pass], Verify(a)
        PROVE  phase = "verify" /\ assessed' = assessed /\ pass' = pass
    BY <2>3 DEF Verify
  <2>4. ASSUME NEW a \in Reflections[pass], Reflect(a)
        PROVE  phase = "reflect" /\ assessed' = assessed /\ pass' = pass
    BY <2>4 DEF Reflect
  <2>5. CASE ProbeDone \/ QueryDone \/ GatherDone \/ FloorDone
    BY <2>5 DEF ProbeDone, QueryDone, GatherDone, FloorDone
  <2> QED
    BY <1>2, <2>1, <2>2, <2>3, <2>4, <2>5 DEF Replies
<1>3. CASE Deadline
  BY <1>3 DEF Deadline
<1> QED
  BY <1>1, <1>2, <1>3 DEF InvestigationNext

LEMMA DeclaredProbeStep ==
    ASSUME AInv, NEW n \in Names, DeclaredProbe(n)
    PROVE  AInv'
<1>1. phase = "drill" /\ UNCHANGED <<phase, pass>> /\ agent[n].at = "probes" /\ agent[n].mine = {}
  BY DEF DeclaredProbe, KeepInvestigator
<1>2. PICK q \in agent[n].todo :
         \/ /\ Set(n, [agent[n] EXCEPT !.todo = @ \ {q}, !.mine = {q}, !.done = @ \cup {q}])
            /\ assessed' = assessed
         \/ /\ Set(n, [agent[n] EXCEPT !.todo = @ \ {q}])
            /\ assessed' = assessed \cup {Assessment(n, q, Verdict(q, cards[n]), TRUE)}
  BY DEF DeclaredProbe
<1>3. agent[n] \in AgentState /\ agent[n].todo \subseteq Declared[n] /\ q \in Queries
      /\ q \in Declared[n] /\ Partitioned(n)
  BY <1>1, AgentFields DEF AInv, Probing
<1>4. CASE /\ Set(n, [agent[n] EXCEPT !.todo = @ \ {q}, !.mine = {q}, !.done = @ \cup {q}])
           /\ assessed' = assessed
  <2> DEFINE e == [agent[n] EXCEPT !.todo = @ \ {q}, !.mine = {q}, !.done = @ \cup {q}]
  <2>1. e \in AgentState
    BY <1>3 DEF AgentState
  <2>2. e.at = "probes" /\ e.todo = agent[n].todo \ {q} /\ e.mine = {q}
    BY <1>1, <1>3 DEF AgentState
  <2>3. \A m, p : Verdicts(m, p)' = Verdicts(m, p)
    BY <1>4, KeptVerdicts
  <2>4. Verdicts(n, q) = {}
    BY <1>1, <1>2, <1>3 DEF Partitioned, Waits, IsRead, IsAssessed
  <2>5. ASSUME NEW p \in Declared[n]
        PROVE  \/ p \in e.todo /\ p \notin e.mine /\ Verdicts(n, p)' = {}
               \/ p \in e.mine \ e.todo /\ Verdicts(n, p)' = {}
               \/ p \notin e.todo /\ p \notin e.mine /\ \E a : Verdicts(n, p)' = {a}
    BY <1>1, <1>3, <2>2, <2>3, <2>4 DEF Partitioned, Waits, IsRead, IsAssessed
  <2>6. e.todo \cup e.mine \subseteq Declared[n] /\ \A x, y \in e.mine : x = y
    BY <1>3, <2>2
  <2> HIDE DEF e
  <2> QED
    BY <1>1, <1>4, <2>1, <2>2, <2>3, <2>5, <2>6, OneAgent DEF e
<1>5. CASE /\ Set(n, [agent[n] EXCEPT !.todo = @ \ {q}])
           /\ assessed' = assessed \cup {Assessment(n, q, Verdict(q, cards[n]), TRUE)}
  <2> DEFINE e == [agent[n] EXCEPT !.todo = @ \ {q}]
             x == Assessment(n, q, Verdict(q, cards[n]), TRUE)
  <2>1. e \in AgentState
    BY <1>3 DEF AgentState
  <2>2. e.at = "probes" /\ e.todo = agent[n].todo \ {q} /\ e.mine = {}
    BY <1>1, <1>3 DEF AgentState
  <2>3. /\ Verdicts(n, q)' = Verdicts(n, q) \cup {x}
        /\ \A m, p : m # n \/ p # q => Verdicts(m, p)' = Verdicts(m, p)
    BY <1>5, OneAssessment DEF Verdicts
  <2>4. Verdicts(n, q) = {}
    BY <1>1, <1>2, <1>3 DEF Partitioned, Waits, IsRead, IsAssessed
  <2>5. \E a : Verdicts(n, q)' = {a}
    BY <2>3, <2>4
  <2>6. ASSUME NEW p \in Declared[n]
        PROVE  \/ p \in e.todo /\ p \notin e.mine /\ Verdicts(n, p)' = {}
               \/ p \notin e.todo /\ p \notin e.mine /\ \E a : Verdicts(n, p)' = {a}
    <3>1. CASE p = q
      BY <3>1, <2>2, <2>5
    <3>2. CASE p # q
      BY <3>2, <1>1, <1>3, <2>2, <2>3 DEF Partitioned, Waits, IsRead, IsAssessed
    <3> QED
      BY <3>1, <3>2
  <2>7. e.todo \cup e.mine \subseteq Declared[n] /\ \A y, z \in e.mine : y = z
    BY <1>3, <2>2
  <2> HIDE DEF e, x
  <2> QED
    BY <1>1, <1>5, <2>1, <2>2, <2>3, <2>6, <2>7, OneAgent DEF e
<1> QED
  BY <1>2, <1>4, <1>5

LEMMA DeclaredProbeDoneStep ==
    ASSUME AInv, NEW n \in Names, DeclaredProbeDone(n)
    PROVE  AInv'
<1>1. phase = "drill" /\ UNCHANGED <<phase, pass>> /\ agent[n].at = "probes"
  BY DEF DeclaredProbeDone, KeepInvestigator
<1>2. PICK q \in agent[n].mine : \E r \in Results[q] :
         /\ Set(n, [agent[n] EXCEPT !.mine = {}])
         /\ assessed' = assessed \cup
              {Assessment(n, q, IF r[1] = "ok" THEN Verdict(q, r[2]) ELSE "unavailable", FALSE)}
  BY DEF DeclaredProbeDone
<1>3. PICK v : /\ Set(n, [agent[n] EXCEPT !.mine = {}])
               /\ assessed' = assessed \cup {Assessment(n, q, v, FALSE)}
  BY <1>2
<1>4. agent[n] \in AgentState /\ agent[n].mine = {q} /\ Partitioned(n)
      /\ agent[n].todo \subseteq Declared[n] /\ q \in Declared[n]
  BY <1>1, <1>2, AgentFields DEF AInv, Probing
<1> DEFINE e == [agent[n] EXCEPT !.mine = {}]
           x == Assessment(n, q, v, FALSE)
<1>5. e \in AgentState
  BY <1>4 DEF AgentState
<1>6. e.at = "probes" /\ e.todo = agent[n].todo /\ e.mine = {}
  BY <1>1, <1>4 DEF AgentState
<1>7. /\ Verdicts(n, q)' = Verdicts(n, q) \cup {x}
      /\ \A m, p : m # n \/ p # q => Verdicts(m, p)' = Verdicts(m, p)
  BY <1>3, OneAssessment DEF Verdicts
<1>8. Verdicts(n, q) = {} /\ q \notin agent[n].todo
  BY <1>1, <1>2, <1>4 DEF Partitioned, Waits, IsRead, IsAssessed
<1>9. \E a : Verdicts(n, q)' = {a}
  BY <1>7, <1>8
<1>10. ASSUME NEW p \in Declared[n]
      PROVE  \/ p \in e.todo /\ p \notin e.mine /\ Verdicts(n, p)' = {}
             \/ p \notin e.todo /\ p \notin e.mine /\ \E a : Verdicts(n, p)' = {a}
  <2>1. CASE p = q
    BY <2>1, <1>6, <1>8, <1>9
  <2>2. CASE p # q
    BY <2>2, <1>1, <1>4, <1>6, <1>7 DEF Partitioned, Waits, IsRead, IsAssessed
  <2> QED
    BY <2>1, <2>2
<1>11. e.todo \cup e.mine \subseteq Declared[n] /\ \A y, z \in e.mine : y = z
  BY <1>4, <1>6
<1> HIDE DEF e, x
<1> QED
  BY <1>1, <1>3, <1>5, <1>6, <1>7, <1>10, <1>11, OneAgent DEF e

\* After its probes an agent has none left to read or, late, may leave some.
LEMMA AfterProbes ==
    ASSUME AInv, phase = "drill", UNCHANGED <<phase, pass, assessed>>,
           NEW n \in Names, NEW e \in AgentState, Set(n, e),
           \/ agent[n].at = "probes" /\ agent[n].mine = {}
           \/ agent[n].at \in {"ask", "read", "done"},
           e.at \in {"ask", "read", "done"}, e.todo = agent[n].todo
    PROVE  AInv'
<1>1. \A m, p : Verdicts(m, p)' = Verdicts(m, p)
  BY KeptVerdicts
<1>2. Partitioned(n)
  BY DEF AInv
<1>3. \A q \in Declared[n] : \/ q \in e.todo /\ Verdicts(n, q)' = {}
                             \/ q \notin e.todo /\ \E a : Verdicts(n, q)' = {a}
  BY <1>1, <1>2 DEF Partitioned, Waits, IsRead, IsAssessed
<1> QED
  BY <1>1, <1>3, OneAgent

LEMMA ProbesOverStep ==
    ASSUME AInv, NEW n \in Names, ProbesOver(n)
    PROVE  AInv'
<1>1. /\ phase = "drill" /\ UNCHANGED <<phase, pass, assessed>>
      /\ agent[n].at = "probes" /\ agent[n].mine = {}
      /\ Set(n, [agent[n] EXCEPT !.at = IF late \/ (suff /\ Settled(n)) THEN "done" ELSE "ask"])
  BY DEF ProbesOver, KeepInvestigator
<1>2. PICK at \in {"done", "ask"} : Set(n, [agent[n] EXCEPT !.at = at])
  BY <1>1
<1> DEFINE e == [agent[n] EXCEPT !.at = at]
<1>3. e \in AgentState /\ e.at = at /\ e.todo = agent[n].todo
  BY AgentFields DEF AgentState
<1> HIDE DEF e
<1> QED
  BY <1>1, <1>2, <1>3, AfterProbes DEF e

LEMMA StopAskingStep ==
    ASSUME AInv, NEW n \in Names, StopAsking(n)
    PROVE  AInv'
<1>1. /\ phase = "drill" /\ UNCHANGED <<phase, pass, assessed>>
      /\ agent[n].at = "ask" /\ Set(n, [agent[n] EXCEPT !.at = "done"])
  BY DEF StopAsking, KeepInvestigator
<1> DEFINE e == [agent[n] EXCEPT !.at = "done"]
<1>2. e \in AgentState /\ e.at = "done" /\ e.todo = agent[n].todo
  BY AgentFields DEF AgentState
<1> HIDE DEF e
<1> QED
  BY <1>1, <1>2, AfterProbes DEF e

LEMMA AgentReadDoneStep ==
    ASSUME AInv, NEW n \in Names, AgentReadDone(n)
    PROVE  AInv'
<1>1. /\ phase = "drill" /\ UNCHANGED <<phase, pass, assessed>> /\ agent[n].at = "read"
  BY DEF AgentReadDone, KeepInvestigator
<1>2. PICK q \in agent[n].mine :
         Set(n, [agent[n] EXCEPT !.mine = @ \ {q},
                                 !.at = IF agent[n].mine = {q} THEN "ask" ELSE "read"])
  BY DEF AgentReadDone
<1> DEFINE e == [agent[n] EXCEPT !.mine = @ \ {q},
                                 !.at = IF agent[n].mine = {q} THEN "ask" ELSE "read"]
<1>3. e \in AgentState /\ e.at \in {"ask", "read"} /\ e.todo = agent[n].todo
  BY AgentFields DEF AgentState
<1> HIDE DEF e
<1> QED
  BY <1>1, <1>2, <1>3, AfterProbes DEF e

LEMMA AskAgentStep ==
    ASSUME AInv, NEW n \in Names, AskAgent(n)
    PROVE  AInv'
<1>1. /\ phase = "drill" /\ UNCHANGED <<phase, pass, assessed>> /\ agent[n].at = "ask"
  BY DEF AskAgent, KeepInvestigator
<1> DEFINE next == [agent[n] EXCEPT !.round = @ + 1]
<1>2. PICK run \in SUBSET Queries :
         \/ Set(n, [next EXCEPT !.at = "read", !.mine = run, !.done = @ \cup run])
         \/ Set(n, [next EXCEPT !.repaired = TRUE])
         \/ Set(n, [next EXCEPT !.at = "done"])
  <2>1. PICK qs \in SUBSET Optional[n], invalid \in BOOLEAN :
           Set(n, IF {q \in qs \ agent[n].done : MayClaim(memory, q)} # {}
                  THEN [next EXCEPT !.at = "read",
                                    !.mine = {q \in qs \ agent[n].done : MayClaim(memory, q)},
                                    !.done = @ \cup {q \in qs \ agent[n].done : MayClaim(memory, q)}]
                  ELSE IF invalid /\ ~agent[n].repaired /\ next.round < DrillLimit
                  THEN [next EXCEPT !.repaired = TRUE]
                  ELSE [next EXCEPT !.at = "done"])
    BY DEF AskAgent
  <2> DEFINE run == {q \in qs \ agent[n].done : MayClaim(memory, q)}
  <2>2. run \in SUBSET Queries
    BY DrillAssumption
  <2> HIDE DEF next
  <2> QED
    BY <2>1, <2>2
<1>3. agent[n] \in AgentState /\ agent[n].round \in Nat
  BY AgentFields
<1>4. next \in AgentState /\ next.at = "ask" /\ next.todo = agent[n].todo
  BY <1>1, <1>3 DEF AgentState
<1> HIDE DEF next
<1> DEFINE e1 == [next EXCEPT !.at = "read", !.mine = run, !.done = @ \cup run]
           e2 == [next EXCEPT !.repaired = TRUE]
           e3 == [next EXCEPT !.at = "done"]
<1>5. e1 \in AgentState /\ e1.at = "read" /\ e1.todo = agent[n].todo
  BY <1>4 DEF AgentState
<1>6. e2 \in AgentState /\ e2.at = "ask" /\ e2.todo = agent[n].todo
  BY <1>4 DEF AgentState
<1>7. e3 \in AgentState /\ e3.at = "done" /\ e3.todo = agent[n].todo
  BY <1>4 DEF AgentState
<1>8. Set(n, e1) \/ Set(n, e2) \/ Set(n, e3)
  BY <1>2
<1> HIDE DEF e1, e2, e3
<1> QED
  BY <1>1, <1>5, <1>6, <1>7, <1>8, AfterProbes

LEMMA StartDrilldownsStep ==
    ASSUME AInv, StartDrilldowns
    PROVE  AInv'
<1>1. /\ phase = "handed" /\ pass = 1 /\ phase' = "drill" /\ assessed' = assessed
      /\ agent' = [n \in Names |-> IF n \in Registry \ Unseen
                     THEN [NoAgent EXCEPT !.at = "probes", !.todo = Declared[n]] ELSE NoAgent]
  BY DEF StartDrilldowns
<1>2. assessed = {}
  BY <1>1 DEF AInv
<1>3. \A m, p : Verdicts(m, p)' = {}
  BY <1>1, <1>2 DEF Verdicts
<1>4. ASSUME NEW n \in Names
      PROVE  agent'[n] \in AgentState /\ Probing(n)' /\ Partitioned(n)'
  <2>1. CASE n \in Registry \ Unseen
    <3>1. agent'[n] = [NoAgent EXCEPT !.at = "probes", !.todo = Declared[n]]
      BY <1>1, <2>1
    <3>2. agent'[n].at = "probes" /\ agent'[n].todo = Declared[n] /\ agent'[n].mine = {}
      BY <3>1 DEF NoAgent
    <3>3. agent'[n] = [at |-> "probes", todo |-> Declared[n], mine |-> {}, done |-> {},
                       round |-> 0, repaired |-> FALSE]
      BY <3>1 DEF NoAgent
    <3>4. agent'[n] \in AgentState
      BY <3>3, DrillAssumption DEF AgentState
    <3> QED
      BY <3>2, <3>4, <1>3 DEF Probing, Partitioned, Waits
  <2>2. CASE n \notin Registry \ Unseen
    <3>1. agent'[n] = NoAgent
      BY <1>1, <2>2
    <3> QED
      BY <3>1 DEF NoAgent, AgentState, Probing, Partitioned
  <2> QED
    BY <2>1, <2>2
<1>5. agent' \in [Names -> AgentState]
  BY <1>1, <1>4
<1> QED
  BY <1>1, <1>4, <1>5 DEF AInv

LEMMA DrilldownsEndStep ==
    ASSUME AInv, DrilldownsEnd
    PROVE  AInv'
<1>1. /\ phase' = "settled" /\ pass' = pass /\ assessed' = assessed
      /\ agent' = [n \in Names |-> [agent[n] EXCEPT !.mine = {},
                     !.at = IF @ \in {"none", "done"} THEN @ ELSE "cancelled"]]
  BY DEF DrilldownsEnd
<1>2. \A m, p : Verdicts(m, p)' = Verdicts(m, p)
  BY <1>1, KeptVerdicts
<1>3. ASSUME NEW n \in Names
      PROVE  agent'[n] \in AgentState /\ Probing(n)' /\ Partitioned(n)'
  <2>1. PICK at \in {"none", "done", "cancelled"} :
           /\ agent'[n] = [agent[n] EXCEPT !.mine = {}, !.at = at]
           /\ at = "done" => agent[n].at = "done"
    BY <1>1, AgentFields
  <2>2. /\ agent'[n] \in AgentState /\ agent'[n].at = at /\ agent'[n].todo = agent[n].todo
    BY <2>1, AgentFields DEF AgentState
  <2>3. Partitioned(n)
    BY DEF AInv
  <2> QED
    BY <2>1, <2>2, <2>3, <1>2 DEF Probing, Partitioned, Waits, IsRead, IsAssessed
<1>4. agent' \in [Names -> AgentState]
  BY <1>1, <1>3
<1> QED
  BY <1>1, <1>3, <1>4 DEF AInv

LEMMA AInvStep ==
    ASSUME AInv, [Next]_allVars
    PROVE  AInv'
<1>1. CASE UNCHANGED allVars
  BY <1>1, KeptAgents DEF allVars, vars, drillVars
<1>2. CASE InvestigationNext /\ UNCHANGED drillVars
  BY <1>2, InvestigatorAside, KeptAgents DEF drillVars
<1>3. CASE Adopt \/ KeepFirst \/ GoOn
  BY <1>3, KeptAgents DEF Adopt, KeepFirst, GoOn, drillVars
<1>4. CASE Reanalyze
  BY <1>4, KeptAgents DEF Reanalyze
<1>5. CASE StartDrilldowns \/ DrilldownsEnd
  BY <1>5, StartDrilldownsStep, DrilldownsEndStep
<1>6. ASSUME NEW n \in Names,
             DeclaredProbe(n) \/ ProbesOver(n) \/ StopAsking(n) \/ DeclaredProbeDone(n)
               \/ AskAgent(n) \/ AgentReadDone(n)
      PROVE  AInv'
  BY <1>6, DeclaredProbeStep, ProbesOverStep, StopAskingStep, DeclaredProbeDoneStep,
     AskAgentStep, AgentReadDoneStep
<1>7. CASE Done
  BY <1>7, KeptAgents DEF Done, allVars, vars, drillVars
<1> QED
  BY <1>1, <1>2, <1>3, <1>4, <1>5, <1>6, <1>7 DEF Next, DrillControl, DrillReplies

LEMMA AInvInit ==
    ASSUME DrillInit
    PROVE  AInv
BY DEF DrillInit, Init, AInv, NoAgent, AgentState, Probing, Partitioned

\* A declared probe that another path has already read, or is reading, gets its
\* one verdict, unless the budget ended, for any collectors, plans and rounds.
THEOREM EveryProbeIsAssessedHolds == Spec => []EveryProbeIsAssessed
<1>1. AInv => EveryProbeIsAssessed
  <2>1. SUFFICES ASSUME AInv, NEW n \in Names, agent[n].at \in {"ask", "read", "done"},
                        agent[n].todo = {}, NEW q \in Declared[n]
                 PROVE  Cardinality(Verdicts(n, q)) = 1
    BY DEF EveryProbeIsAssessed, Verdicts
  <2>2. PICK a : Verdicts(n, q) = {a}
    BY <2>1 DEF AInv, Partitioned, Waits, IsRead, IsAssessed
  <2> QED
    BY <2>2, FS_Singleton
<1> QED
  BY <1>1, AInvInit, AInvStep, PTL DEF Spec

-----------------------------------------------------------------------------
(* The query memory *)

Receipt == [status : {"none", "running", "succeeded", "failed"}, attempts : Nat]

LEMMA ClaimedAt ==
    ASSUME NEW m \in [Reads -> Receipt], NEW S
    PROVE  /\ Claimed(m, S) \in [Reads -> Receipt]
           /\ \A r \in Reads \ S : Claimed(m, S)[r] = m[r]
           /\ \A r \in Reads \cap S : /\ Claimed(m, S)[r].status = "running"
                                      /\ Claimed(m, S)[r].attempts = m[r].attempts + 1
BY DEF Claimed, Receipt

LEMMA RememberedAt ==
    ASSUME NEW m \in [Reads -> Receipt], NEW S
    PROVE  /\ Remembered(m, S) \in [Reads -> Receipt]
           /\ \A r \in Reads \ S : Remembered(m, S)[r] = m[r]
           /\ \A r \in Reads \cap S : /\ Remembered(m, S)[r].status = "succeeded"
                                      /\ Remembered(m, S)[r].attempts = 1
BY DEF Remembered, Receipt

Receives(m, new, p, status) ==
    /\ new \in [Reads -> Receipt]
    /\ \A r \in Reads : r # p => new[r] = m[r]
    /\ new[p].status = status
    /\ new[p].attempts = IF m[p].attempts = 0 THEN 1 ELSE m[p].attempts

LEMMA CompletedAt ==
    ASSUME NEW m \in [Reads -> Receipt], NEW p \in Reads
    PROVE  /\ Receives(m, Completed(m, p, TRUE), p, "succeeded")
           /\ Receives(m, Completed(m, p, FALSE), p, "failed")
<1> DEFINE a == IF m[p].attempts = 0 THEN 1 ELSE m[p].attempts
<1>1. a \in Nat
  BY DEF Receipt
<1> HIDE DEF a
<1>2. ASSUME NEW st \in {"succeeded", "failed"}
      PROVE  Receives(m, [m EXCEPT ![p] = [status |-> st, attempts |-> a]], p, st)
  <2>1. [status |-> st, attempts |-> a] \in Receipt
    BY <1>1 DEF Receipt
  <2> QED
    BY <2>1 DEF Receives, a
<1>3. /\ Completed(m, p, TRUE) = [m EXCEPT ![p] = [status |-> "succeeded", attempts |-> a]]
      /\ Completed(m, p, FALSE) = [m EXCEPT ![p] = [status |-> "failed", attempts |-> a]]
  BY DEF Completed, a
<1> QED
  BY <1>2, <1>3

LEMMA StartsAt ==
    ASSUME NEW S, S \subseteq Reads, tries \in [Reads -> Nat], Starts(S)
    PROVE  /\ running' = running \cup S /\ tries' \in [Reads -> Nat]
           /\ \A r \in Reads : tries'[r] = IF r \in S THEN tries[r] + 1 ELSE tries[r]
<1>1. tries' = [r \in Reads |-> tries[r] + (IF r \in S THEN 1 ELSE 0)]
  BY DEF Starts
<1>2. \A r \in Reads : tries[r] \in Nat
  OBVIOUS
<1>3. \A r \in Reads : tries'[r] = IF r \in S THEN tries[r] + 1 ELSE tries[r]
  BY <1>1, <1>2
<1>4. tries' \in [Reads -> Nat]
  BY <1>1, <1>2
<1> QED
  BY <1>3, <1>4 DEF Starts

W(n) == <<n, Whole>>

LEMMA Kinds ==
    /\ Reads = Probes \cup Queries
    /\ \A n \in Names : W(n) \in Probes /\ W(n) \in Reads /\ W(n) \notin Queries
    /\ \A n, m \in Names : W(n) = W(m) => n = m
    /\ \A p \in Probes : p[1] \in Names /\ p[2] \in Scopes /\ p = <<p[1], p[2]>> /\ p \notin Queries
BY InvestigationAssumption DEF Reads, Probes, W

-----------------------------------------------------------------------------
(* Reads over the whole evidence stage *)

InRounds == {"wide", "decide", "verify", "probe", "query", "turn", "reflect", "final"}
Closing  == {"gather", "floor", "flooring", "finish", "handed"}
Phases   == InRounds \cup Closing \cup {"raised", "drill", "settled", "over"}

Statuses == {Absent, "ok", "partial", "unavailable"}
Record(G) == [scope : Scopes, status : Statuses, gaps : SUBSET G]
Evidenced(G) == [status : Statuses, gaps : SUBSET G, history : Seq(Record(G))]
Gaps == Scopes \cup {"analysis_budget"}

TInv ==
    /\ phase \in Phases /\ pass \in {1, 2} /\ late \in BOOLEAN
    /\ loop \in {"decide", "verify"}
    /\ memory \in [Reads -> Receipt] /\ tries \in [Reads -> Nat]
    /\ wanted \subseteq asked /\ asked \subseteq Queries
    /\ scopeOf \in [Names -> Scopes \cup {Absent}]
    /\ phase # "over" => evidence \in [Names -> Evidenced(Gaps)]

Left(n) == evidence[n].status = Absent

\* What is in flight, and for whom.
PInv ==
    /\ running \subseteq Reads
    /\ phase = "probe" => running \subseteq Probes
    /\ phase = "query" => running \subseteq wanted
    /\ phase = "gather" => \A r \in running : \E n \in Names : r = W(n) /\ Left(n)
    /\ phase = "flooring" => running = {W(Kubernetes)} /\ Kubernetes \in Names /\ late
    /\ phase = "drill" =>
          /\ pass = 1 /\ running \subseteq Queries
          /\ \A n \in Names : agent[n].mine \subseteq running
          /\ \A n, m \in Names : n # m => agent[n].mine \cap agent[m].mine = {}
    /\ phase \notin {"probe", "query", "gather", "flooring", "drill"} => running = {}
    /\ phase \notin {"probe", "query", "turn"} => wanted = {}
    /\ phase # "query" => held = {}
    /\ \A x \in held : x.read \in wanted \ running

InFlight(r) == r \in running \/ (phase \in {"probe", "query"} /\ r \in wanted)
Busy(r) == memory[r].status \in {"running", "succeeded"}

\* A receipt is "running" or "succeeded" for what is in flight and what has
\* succeeded; only the floor reads without one.
Receipted(r) ==
    /\ memory[r].status = "none" => memory[r].attempts = 0
    /\ memory[r].status # "none" => memory[r].attempts >= 1
    /\ InFlight(r) /\ phase # "flooring" => Busy(r)
    /\ r \in got => Busy(r) \/ (late /\ phase \in {"finish", "handed", "drill", "settled", "over"})
    /\ r \in got => r \notin running /\ (phase = "probe" => r \notin wanted)
    /\ r \in got /\ phase = "query" /\ r \in wanted => [read |-> r, ok |-> TRUE] \in held

\* The attempts of a receipt cover the starts of its read, except of a read that
\* can be claimed no more: it succeeded, or was asked for in the re-analysis, or
\* is the one of the floor.
Counted(r) ==
    \/ tries[r] <= memory[r].attempts
    \/ Busy(r) /\ ~InFlight(r)
    \/ pass = 2 /\ r \in Queries /\ (r \in asked \/ phase \in {"handed", "raised", "over"})
    \/ r \in Probes /\ r = W(Kubernetes) /\ late
       /\ phase \in {"flooring", "finish", "handed", "drill", "settled", "over"}

\* What waits for the probes of its round has a start left.
Waiting(r) ==
    /\ pass = 1 /\ phase \notin {"handed", "drill", "settled", "over"} /\ r \in Queries
         /\ (r \notin asked \/ (phase = "probe" /\ r \in wanted)) => tries[r] = 0
    /\ phase = "probe" /\ r \in wanted => tries[r] < MaxAttempts

RInv == \A r \in Reads : Receipted(r) /\ Counted(r) /\ Waiting(r)

\* The whole read of a collector without a result was not started, or is in
\* flight, or was cut by the budget.
Untouched(n) ==
    Left(n) /\ phase # "over" /\ (phase \in InRounds \cup {"gather", "floor"} \/ ~late) =>
        /\ W(n) \notin got
        /\ \/ memory[W(n)].status = "none" /\ tries[W(n)] = 0 /\ W(n) \notin running
           \/ memory[W(n)].status = "running" /\ tries[W(n)] = 1 /\ (W(n) \in running \/ late)

\* After the gather a collector is left out for a reason.
Excused(n) ==
    phase \in Closing /\ Left(n) =>
        \/ suff /\ phase \notin {"gather", "flooring"}
        \/ late /\ memory[W(n)].status = "running"
        \/ phase = "gather" /\ W(n) \in running

UInv == \A n \in Names : Untouched(n) /\ Excused(n)

Clean == \A n \in Names : evidence[n] \in Evidenced(Scopes)

\* The floor is for a collector the budget cut, whose read was started once.
FInv ==
    /\ phase \in {"gather", "flooring"} => ~suff
    /\ suff /\ phase \in {"floor", "finish", "handed"} => Grounded
    /\ phase # "over" => Clean \/ (late /\ phase \notin InRounds \cup {"gather"})
    /\ phase = "floor" /\ NeedsFloor =>
          late /\ tries[W(Kubernetes)] <= 1 /\ W(Kubernetes) \notin got

BInv == TInv /\ PInv /\ RInv /\ UInv /\ FInv

LEMMA BInvInit ==
    ASSUME DrillInit
    PROVE  BInv
<1>1. /\ phase \in {"wide", "decide"} /\ pass = 1 /\ late = FALSE /\ loop = "decide"
      /\ wanted = {} /\ held = {} /\ asked = {} /\ running = {} /\ got = {} /\ suff = FALSE
      /\ memory = [r \in Reads |-> Unread] /\ tries = [r \in Reads |-> 0]
      /\ evidence = [n \in Names |-> NoEvidence] /\ scopeOf = [n \in Names |-> Absent]
  BY DEF DrillInit, Init
<1>2. NoEvidence \in Evidenced(Gaps) /\ NoEvidence \in Evidenced(Scopes)
  <2>1. <<>> \in Seq(Record(Gaps)) /\ <<>> \in Seq(Record(Scopes))
    OBVIOUS
  <2> QED
    BY <2>1 DEF NoEvidence, Evidenced, Statuses
<1>3. Unread \in Receipt /\ Unread.status = "none" /\ Unread.attempts = 0
  BY DEF Unread, Receipt
<1>4. TInv
  BY <1>1, <1>2, <1>3 DEF TInv, Phases, InRounds
<1>5. PInv
  BY <1>1 DEF PInv
<1>6. RInv
  BY <1>1, <1>3 DEF RInv, Receipted, Counted, Waiting, InFlight
<1>7. UInv
  BY <1>1, <1>3, Kinds DEF UInv, Untouched, Excused, Closing
<1>8. FInv
  BY <1>1, <1>2 DEF FInv, Clean
<1> QED
  BY <1>4, <1>5, <1>6, <1>7, <1>8 DEF BInv

\* A round that ends, or is cut, or that never starts a read.
LEMMA RoundRests ==
    ASSUME BInv, phase \in InRounds, phase' \in {"decide", "verify", "reflect", "final"},
           running = {} \/ late, running' = {}, wanted' = {}, held' = {},
           loop' \in {"decide", "verify"},
           UNCHANGED <<pass, late, asked, memory, tries, got, scopeOf, evidence>>
    PROVE  BInv'
<1>1. TInv'
  BY DEF BInv, TInv, Phases, InRounds
<1>2. PInv'
  BY DEF PInv
<1>3. ASSUME NEW r \in Reads PROVE Receipted(r)' /\ Counted(r)' /\ Waiting(r)'
  <2>1. Receipted(r) /\ Counted(r) /\ Waiting(r)
    BY DEF BInv, RInv
  <2>2. Receipted(r)'
    BY <2>1 DEF Receipted, InFlight, Busy, InRounds
  <2>3. Counted(r)'
    BY <2>1 DEF Counted, InFlight, Busy, InRounds
  <2>4. Waiting(r)'
    BY <2>1 DEF Waiting, InRounds
  <2> QED
    BY <2>2, <2>3, <2>4
<1>4. ASSUME NEW n \in Names PROVE Untouched(n)' /\ Excused(n)'
  <2>1. Untouched(n)
    BY DEF BInv, UInv
  <2> QED
    BY <2>1 DEF Untouched, Excused, Left, InRounds, Closing
<1>5. FInv'
  BY DEF BInv, FInv, Clean, InRounds
<1> QED
  BY <1>1, <1>2, <1>3, <1>4, <1>5 DEF BInv, RInv, UInv

LEMMA RoundRestsSteps ==
    ASSUME BInv,
           \/ LeaveDecisions \/ NoDecision \/ LeaveVerification \/ NoReflection
           \/ ProbesCut \/ QueriesCut \/ TurnEnds
           \/ \E a \in Reflections[pass] : Reflect(a)
           \/ \E a \in Answers[pass], next \in {"decide", "verify", "reflect", "final"} :
                 /\ phase \in {"decide", "verify"} /\ Idle(next) /\ loop' \in {"decide", "verify"}
                 /\ UNCHANGED <<pass, late, takenVars, held>>
    PROVE  BInv'
<1>1. /\ phase \in InRounds \ {"probe", "query", "turn"} => running = {} /\ wanted = {}
      /\ phase # "query" => held = {}
      /\ phase = "turn" => running = {}
      /\ loop \in {"decide", "verify"} /\ Thrown \in {"reflect", "final"}
  BY DEF BInv, PInv, TInv, InRounds, Thrown
<1>2. CASE LeaveDecisions \/ NoDecision \/ LeaveVerification \/ NoReflection
  BY <1>1, <1>2, RoundRests DEF LeaveDecisions, NoDecision, LeaveVerification, NoReflection,
     InRounds, readVars, takenVars, roundVars
<1>3. CASE ProbesCut \/ QueriesCut
  BY <1>1, <1>3, RoundRests DEF ProbesCut, QueriesCut, Abandon, InRounds, takenVars
<1>4. CASE TurnEnds
  BY <1>1, <1>4, RoundRests DEF TurnEnds, InRounds, readVars, takenVars
<1>5. ASSUME NEW a \in Reflections[pass], Reflect(a)
      PROVE  BInv'
  <2>1. /\ phase = "reflect" /\ phase' \in {"final", "verify"} /\ loop' = "verify"
        /\ UNCHANGED <<pass, late, wanted, held, asked>> /\ UNCHANGED <<readVars, takenVars>>
    BY <1>5 DEF Reflect
  <2> QED
    BY <1>1, <2>1, RoundRests DEF InRounds, readVars, takenVars
<1>6. ASSUME NEW next \in {"decide", "verify", "reflect", "final"},
             phase \in {"decide", "verify"}, Idle(next), loop' \in {"decide", "verify"},
             UNCHANGED <<pass, late, takenVars, held>>
      PROVE  BInv'
  BY <1>1, <1>6, RoundRests DEF Idle, InRounds, readVars, takenVars
<1> QED
  BY <1>2, <1>3, <1>4, <1>5, <1>6

\* What may be claimed is neither in flight nor got, and has a start left.
LEMMA ClaimFree ==
    ASSUME BInv, NEW r \in Reads, MayClaim(memory, r),
           phase \in InRounds \/ (phase = "drill" /\ ~late),
           r \in Probes \/ r \notin asked \/ pass = 1
    PROVE  /\ r \notin running /\ r \notin got /\ ~InFlight(r)
           /\ tries[r] \in Nat /\ memory[r].attempts \in Nat
           /\ tries[r] <= memory[r].attempts /\ memory[r].attempts < MaxAttempts
<1>1. memory[r] \in Receipt /\ tries[r] \in Nat
  BY DEF BInv, TInv
<1>2. ~Busy(r) /\ Receipted(r) /\ Counted(r)
  BY DEF MayClaim, Busy, BInv, RInv
<1>3. ~InFlight(r) /\ r \notin got
  BY <1>2 DEF Receipted, InRounds
<1>4. tries[r] <= memory[r].attempts
  BY <1>2, Kinds DEF Counted, InRounds
<1>5. memory[r].attempts < MaxAttempts
  BY <1>1, <1>2, InvestigationAssumption DEF MayClaim, Receipted, Receipt
<1> QED
  BY <1>1, <1>3, <1>4, <1>5 DEF InFlight, Receipt

LEMMA LaunchStep ==
    ASSUME BInv, phase \in {"wide", "decide", "verify"},
           NEW ps, ps \subseteq Probes,
           NEW qs, qs \subseteq Queries, \A q \in qs : q \notin asked /\ MayClaim(memory, q),
           Launch(ps, qs), loop' \in {"decide", "verify"},
           UNCHANGED <<pass, late, scopeOf, evidence, held>>
    PROVE  BInv'
<1> DEFINE started == {p \in ps : MayClaim(memory, p)}
<1>1. /\ memory' = Claimed(memory, started \cup qs) /\ Starts(started)
      /\ got' = got /\ asked' = asked \cup qs /\ wanted' = qs /\ phase' = "probe"
  BY DEF Launch
<1>2. started \subseteq Probes /\ started \subseteq Reads /\ \A p \in started : MayClaim(memory, p)
  BY Kinds
<1> HIDE DEF started
<1>3. /\ running = {} /\ held = {} /\ wanted = {}
      /\ memory \in [Reads -> Receipt] /\ tries \in [Reads -> Nat]
  BY DEF BInv, PInv, TInv
<1>4. /\ memory' \in [Reads -> Receipt]
      /\ \A r \in Reads : r \notin started \cup qs => memory'[r] = memory[r]
      /\ \A r \in Reads : r \in started \cup qs => /\ memory'[r].status = "running"
                                                   /\ memory'[r].attempts = memory[r].attempts + 1
  BY <1>1, <1>3, ClaimedAt
<1>5. /\ running' = started /\ tries' \in [Reads -> Nat]
      /\ \A r \in Reads : tries'[r] = IF r \in started THEN tries[r] + 1 ELSE tries[r]
  BY <1>1, <1>2, <1>3, StartsAt
<1>6. TInv'
  BY <1>1, <1>4, <1>5 DEF BInv, TInv, Phases, InRounds
<1>7. PInv'
  BY <1>1, <1>2, <1>3, <1>5 DEF PInv
<1>8. ASSUME NEW r \in Reads PROVE Receipted(r)' /\ Counted(r)' /\ Waiting(r)'
  <2>1. Receipted(r) /\ Counted(r) /\ Waiting(r) /\ memory[r].attempts \in Nat /\ tries[r] \in Nat
    BY <1>3 DEF BInv, RInv, Receipt
  <2>2. CASE r \in started
    <3>1. /\ r \notin running /\ r \notin got /\ tries[r] <= memory[r].attempts /\ r \notin qs
          /\ r \notin Queries
      BY <1>2, <2>2, ClaimFree, Kinds DEF InRounds
    <3>2. /\ memory'[r].status = "running" /\ memory'[r].attempts = memory[r].attempts + 1
          /\ tries'[r] = tries[r] + 1
      BY <1>4, <1>5, <2>2
    <3>3. Receipted(r)'
      BY <1>1, <2>1, <3>1, <3>2 DEF Receipted, InFlight, Busy
    <3>4. Counted(r)' /\ Waiting(r)'
      BY <1>1, <2>1, <3>1, <3>2 DEF Counted, Waiting
    <3> QED
      BY <3>3, <3>4
  <2>3. CASE r \in qs
    <3>1. /\ r \notin got /\ tries[r] <= memory[r].attempts /\ r \notin started
          /\ memory[r].attempts < MaxAttempts /\ r \notin asked
      BY <1>2, <2>3, ClaimFree, Kinds DEF InRounds
    <3>2. /\ memory'[r].status = "running" /\ memory'[r].attempts = memory[r].attempts + 1
          /\ tries'[r] = tries[r]
      BY <1>4, <1>5, <2>3, <3>1
    <3>3. Receipted(r)'
      BY <1>1, <1>5, <2>1, <3>1, <3>2 DEF Receipted, InFlight, Busy
    <3>4. Counted(r)'
      BY <2>1, <3>1, <3>2 DEF Counted
    <3>5. Waiting(r)'
      BY <1>1, <2>1, <3>1, <3>2, InvestigationAssumption DEF Waiting
    <3> QED
      BY <3>3, <3>4, <3>5
  <2>4. CASE r \notin started \cup qs
    <3>1. memory'[r] = memory[r] /\ tries'[r] = tries[r]
      BY <1>4, <1>5, <2>4
    <3>2. Receipted(r)'
      BY <1>1, <1>5, <2>1, <2>4, <3>1 DEF Receipted, InFlight, Busy
    <3>3. Counted(r)'
      BY <1>1, <1>3, <1>5, <2>1, <2>4, <3>1 DEF Counted, InFlight, Busy
    <3>4. Waiting(r)'
      BY <1>1, <2>1, <2>4, <3>1 DEF Waiting
    <3> QED
      BY <3>2, <3>3, <3>4
  <2> QED
    BY <2>2, <2>3, <2>4
<1>9. ASSUME NEW n \in Names PROVE Untouched(n)' /\ Excused(n)'
  <2>1. Untouched(n) /\ W(n) \in Reads /\ W(n) \notin qs
    BY Kinds DEF BInv, UInv
  <2>2. W(n) \in started => memory[W(n)].status # "running"
    BY <1>2 DEF MayClaim
  <2>3. Untouched(n)'
    <3>1. CASE W(n) \in started
      <4>1. /\ memory'[W(n)].status = "running" /\ tries'[W(n)] = tries[W(n)] + 1
            /\ W(n) \in running'
        BY <1>4, <1>5, <2>1, <3>1
      <4> QED
        BY <1>1, <2>1, <2>2, <3>1, <4>1 DEF Untouched, Left, InRounds
    <3>2. CASE W(n) \notin started
      <4>1. memory'[W(n)] = memory[W(n)] /\ tries'[W(n)] = tries[W(n)] /\ W(n) \notin running'
        BY <1>4, <1>5, <2>1, <3>2
      <4> QED
        BY <1>1, <1>3, <2>1, <4>1 DEF Untouched, Left, InRounds
    <3> QED
      BY <3>1, <3>2
  <2> QED
    BY <1>1, <2>3 DEF Excused, Closing
<1>10. FInv'
  BY <1>1 DEF BInv, FInv, Clean, InRounds
<1> QED
  BY <1>6, <1>7, <1>8, <1>9, <1>10 DEF BInv, RInv, UInv

LEMMA LaunchSteps ==
    ASSUME BInv,
           WideProbes \/ \E a \in Answers[pass] : Decide(a) \/ Verify(a)
    PROVE  BInv'
<1>1. CASE WideProbes
  <2>1. /\ phase = "wide" /\ Launch({<<n, Whole>> : n \in Names}, {})
        /\ UNCHANGED <<pass, late, loop, held>> /\ UNCHANGED takenVars
    BY <1>1 DEF WideProbes
  <2>2. {<<n, Whole>> : n \in Names} \subseteq Probes
    BY Kinds DEF W
  <2>3. loop' \in {"decide", "verify"}
    BY <2>1 DEF BInv, TInv
  <2> QED
    BY <2>1, <2>2, <2>3, LaunchStep DEF takenVars
<1>2. ASSUME NEW a \in Answers[pass], Decide(a) \/ Verify(a)
      PROVE  BInv'
  <2> DEFINE ps == Fresh(a.probes)
             qs == Accepted(a.queries)
  <2>1. /\ phase \in {"decide", "verify"} /\ loop' \in {"decide", "verify"}
        /\ UNCHANGED <<pass, late, held>> /\ UNCHANGED takenVars
        /\ \/ Launch(ps, qs)
           \/ \E n \in Unseen : Launch({<<n, Whole>>}, {})
           \/ \E next \in {"decide", "verify", "reflect", "final"} : Idle(next)
    <3>1. CASE Decide(a)
      BY <3>1 DEF Decide
    <3>2. CASE Verify(a)
      BY <3>2 DEF Verify, BInv, TInv
    <3> QED
      BY <1>2, <3>1, <3>2
  <2>2. ps \subseteq Probes /\ qs \subseteq Queries /\ \A q \in qs : q \notin asked /\ MayClaim(memory, q)
    BY InvestigationAssumption DEF Fresh, Accepted, Probes, BInv, TInv
  <2> HIDE DEF ps, qs
  <2>3. CASE Launch(ps, qs)
    BY <2>1, <2>2, <2>3, LaunchStep DEF takenVars
  <2>4. ASSUME NEW n \in Unseen, Launch({<<n, Whole>>}, {})
        PROVE  BInv'
    <3>1. {<<n, Whole>>} \subseteq Probes
      BY <2>4, Kinds DEF W, Unseen
    <3> QED
      BY <2>1, <2>4, <3>1, LaunchStep DEF takenVars
  <2>5. ASSUME NEW next \in {"decide", "verify", "reflect", "final"}, Idle(next)
        PROVE  BInv'
    BY <2>1, <2>5, <1>2, RoundRestsSteps
  <2> QED
    BY <2>1, <2>3, <2>4, <2>5
<1> QED
  BY <1>1, <1>2

-----------------------------------------------------------------------------
(* Answers *)

Answer == {"ok", "partial", "unavailable"}

\* What a merge leaves is a result again, whose gaps are those of its records.
LEMMA MergedTyped ==
    ASSUME NEW G, Scopes \subseteq G, NEW old \in Evidenced(G),
           NEW oldScope \in Scopes \cup {Absent}, NEW status \in Answer, NEW scope \in Scopes
    PROVE  /\ Merged(old, oldScope, status, scope) \in Evidenced(G)
           /\ Merged(old, oldScope, status, scope).status # Absent
<1> DEFINE Of(s, st) == [scope |-> s, status |-> st, gaps |-> IF st = "ok" THEN {} ELSE {s}]
           first == [scope  |-> IF oldScope = Absent THEN Whole ELSE oldScope,
                     status |-> old.status, gaps |-> old.gaps]
           before == IF old.history = <<>> THEN <<first>> ELSE old.history
           all == Append(before, Of(scope, status))
           latest == {all[i] : i \in {i \in DOMAIN all :
                          \A j \in DOMAIN all : all[j].scope = all[i].scope => j <= i}}
           gaps == UNION {r.gaps : r \in latest}
           kept == Max({1, Len(all) - HistoryCap + 1})
<1>1. Of(scope, status) \in Record(G)
  BY DEF Record, Statuses, Answer
<1>2. first \in Record(G) /\ old.history \in Seq(Record(G))
  BY InvestigationAssumption DEF Record, Evidenced, Statuses
<1> HIDE DEF first, Of
<1>3. before \in Seq(Record(G))
  BY <1>2
<1> HIDE DEF before
<1>4. all \in Seq(Record(G)) /\ Len(all) \in Nat /\ Len(all) >= 1
  BY <1>1, <1>3, AppendProperties, LenProperties
<1>5. latest \subseteq Record(G)
  <2>1. \A i \in DOMAIN all : all[i] \in Record(G)
    BY <1>4
  <2> HIDE DEF all
  <2> QED
    BY <2>1
<1> HIDE DEF all
<1>6. gaps \in SUBSET G
  BY <1>5 DEF Record
<1>7. kept \in 1..Len(all)
  <2>1. kept \in {1, Len(all) - HistoryCap + 1} /\ kept >= 1
    <3>1. PICK m \in {1, Len(all) - HistoryCap + 1} : \A y \in {1, Len(all) - HistoryCap + 1} : m >= y
      BY <1>4, InvestigationAssumption
    <3> QED
      BY <3>1, <1>4, InvestigationAssumption DEF Max
  <2> HIDE DEF kept
  <2> QED
    BY <2>1, <1>4, InvestigationAssumption
<1> HIDE DEF kept, latest, gaps
<1>8. SubSeq(all, kept, Len(all)) \in Seq(Record(G))
  BY <1>4, <1>7, SubSeqProperties
<1>9. CASE old.status = Absent
  <2>1. Merged(old, oldScope, status, scope) =
          [status |-> status, gaps |-> IF status = "ok" THEN {} ELSE {scope}, history |-> <<>>]
    BY <1>9 DEF Merged
  <2>2. (IF status = "ok" THEN {} ELSE {scope}) \in SUBSET G /\ <<>> \in Seq(Record(G))
    OBVIOUS
  <2> QED
    BY <2>1, <2>2 DEF Evidenced, Statuses, Answer, Absent
<1>10. CASE old.status # Absent
  <2>1. PICK st \in {"ok", "partial", "unavailable"} :
          Merged(old, oldScope, status, scope) =
            [status |-> st, gaps |-> gaps, history |-> SubSeq(all, kept, Len(all))]
    BY <1>10 DEF Merged, Of, first, before, all, latest, gaps, kept
  <2> QED
    BY <2>1, <1>6, <1>8 DEF Evidenced, Statuses, Absent
<1> QED
  BY <1>9, <1>10

\* An answer replaces the result of its own collector.
LEMMA TakenIn ==
    ASSUME BInv, phase # "over", NEW p \in Probes, NEW status \in Answer, NEW facts,
           NEW old \in Evidenced(Gaps), NEW oldScope \in Scopes \cup {Absent},
           Clean => old \in Evidenced(Scopes),
           TakeIn(p, Merged(old, oldScope, status, p[2]), status, facts)
    PROVE  /\ evidence' \in [Names -> Evidenced(Gaps)]
           /\ evidence'[p[1]].status # Absent
           /\ Clean => Clean'
           /\ \A n \in Names : n # p[1] => evidence'[n] = evidence[n]
           /\ running' = running \ {p} /\ tries' = tries
           /\ got' = IF status \in Usable THEN got \cup {p} ELSE got
<1> DEFINE new == Merged(old, oldScope, status, p[2])
<1>1. /\ evidence' = [evidence EXCEPT ![p[1]] = new]
      /\ running' = running \ {p} /\ tries' = tries
      /\ got' = IF status \in Usable THEN got \cup {p} ELSE got
  BY DEF TakeIn
<1>2. p[1] \in Names /\ p[2] \in Scopes /\ Scopes \subseteq Gaps
  BY Kinds DEF Gaps
<1>3. new \in Evidenced(Gaps) /\ new.status # Absent
  BY <1>2, MergedTyped
<1>4. Clean => new \in Evidenced(Scopes)
  BY <1>2, MergedTyped
<1> HIDE DEF new
<1>5. evidence \in [Names -> Evidenced(Gaps)]
  BY DEF BInv, TInv
<1>6. evidence' \in [Names -> Evidenced(Gaps)] /\ evidence'[p[1]] = new
      /\ \A n \in Names : n # p[1] => evidence'[n] = evidence[n]
  BY <1>1, <1>2, <1>3, <1>5
<1>7. Clean => Clean'
  BY <1>4, <1>6 DEF Clean
<1> QED
  BY <1>1, <1>3, <1>6, <1>7

\* Its receipt is written, and those of the queries it covers.
LEMMA TakenReceipts ==
    ASSUME memory \in [Reads -> Receipt], NEW p \in Probes, NEW status \in Answer,
           memory[p].attempts >= 1,
           memory' = AndCovered(Completed(memory, p, status \in Usable), p, status)
    PROVE  /\ memory' \in [Reads -> Receipt]
           /\ memory'[p].status = IF status \in Usable THEN "succeeded" ELSE "failed"
           /\ memory'[p].attempts = memory[p].attempts
           /\ \A r \in Probes : r # p => memory'[r] = memory[r]
           /\ \A q \in Queries : \/ memory'[q] = memory[q]
                                 \/ memory'[q].status = "succeeded" /\ memory'[q].attempts = 1
<1> DEFINE m == Completed(memory, p, status \in Usable)
<1>1. p \in Reads /\ p \notin Queries /\ Covers[p] \subseteq Queries
  BY Kinds, InvestigationAssumption DEF Probes
<1>2. /\ m \in [Reads -> Receipt]
      /\ \A r \in Reads : r # p => m[r] = memory[r]
      /\ m[p].status = IF status \in Usable THEN "succeeded" ELSE "failed"
      /\ m[p].attempts = IF memory[p].attempts = 0 THEN 1 ELSE memory[p].attempts
  <2>1. CASE status \in Usable
    <3>1. m = Completed(memory, p, TRUE)
      BY <2>1 DEF Completed
    <3>2. Receives(memory, m, p, "succeeded")
      BY <1>1, <3>1, CompletedAt
    <3> HIDE DEF m
    <3> QED
      BY <2>1, <3>2 DEF Receives
  <2>2. CASE status \notin Usable
    <3>1. m = Completed(memory, p, FALSE)
      BY <2>2 DEF Completed
    <3>2. Receives(memory, m, p, "failed")
      BY <1>1, <3>1, CompletedAt
    <3> HIDE DEF m
    <3> QED
      BY <2>2, <3>2 DEF Receives
  <2> QED
    BY <2>1, <2>2
<1> HIDE DEF m
<1>3. m[p].attempts = memory[p].attempts
  BY <1>2
<1>4. CASE status = "ok"
  <2>1. memory' = Remembered(m, Covers[p])
    BY <1>4 DEF AndCovered, m
  <2>2. /\ memory' \in [Reads -> Receipt]
        /\ \A r \in Reads \ Covers[p] : memory'[r] = m[r]
        /\ \A r \in Reads \cap Covers[p] : /\ memory'[r].status = "succeeded"
                                           /\ memory'[r].attempts = 1
    BY <1>2, <2>1, RememberedAt
  <2> QED
    BY <1>1, <1>2, <1>3, <2>2, Kinds
<1>5. CASE status # "ok"
  <2>1. memory' = m
    BY <1>5 DEF AndCovered, m
  <2> QED
    BY <1>1, <1>2, <1>3, <2>1, Kinds
<1> QED
  BY <1>4, <1>5

LEMMA AnswerStep ==
    ASSUME BInv, phase \in {"probe", "gather"}, NEW p \in running, p \in Probes,
           NEW status \in Answer, NEW facts,
           NEW old \in Evidenced(Gaps), NEW oldScope \in Scopes \cup {Absent},
           Clean => old \in Evidenced(Scopes),
           TakeIn(p, Merged(old, oldScope, status, p[2]), status, facts),
           memory' = AndCovered(Completed(memory, p, status \in Usable), p, status),
           scopeOf' \in [Names -> Scopes \cup {Absent}],
           UNCHANGED <<phase, pass, late, suff, loop, wanted, held, asked>>
    PROVE  BInv'
<1>1. /\ memory \in [Reads -> Receipt] /\ tries \in [Reads -> Nat] /\ p \in Reads
      /\ wanted \subseteq asked /\ asked \subseteq Queries /\ held = {}
      /\ running \subseteq Probes /\ running \subseteq Reads
  BY Kinds DEF BInv, TInv, PInv
<1>2. Receipted(p) /\ Counted(p) /\ InFlight(p) /\ Busy(p) /\ p \notin got
  BY <1>1 DEF BInv, RInv, Receipted, InFlight
<1>3. memory[p].attempts >= 1 /\ tries[p] <= memory[p].attempts
  BY <1>1, <1>2, Kinds DEF Receipted, Counted, Busy
<1>4. /\ evidence' \in [Names -> Evidenced(Gaps)]
      /\ evidence'[p[1]].status # Absent
      /\ Clean => Clean'
      /\ \A n \in Names : n # p[1] => evidence'[n] = evidence[n]
      /\ running' = running \ {p} /\ tries' = tries
      /\ got' = IF status \in Usable THEN got \cup {p} ELSE got
  BY TakenIn
<1>5. /\ memory' \in [Reads -> Receipt]
      /\ memory'[p].status = IF status \in Usable THEN "succeeded" ELSE "failed"
      /\ memory'[p].attempts = memory[p].attempts
      /\ \A r \in Probes : r # p => memory'[r] = memory[r]
      /\ \A q \in Queries : \/ memory'[q] = memory[q]
                            \/ memory'[q].status = "succeeded" /\ memory'[q].attempts = 1
  BY <1>1, <1>3, TakenReceipts
<1>6. TInv'
  BY <1>4, <1>5 DEF BInv, TInv
<1>7. PInv'
  <2>1. phase = "gather" => \A r \in running' : \E n \in Names : r = W(n) /\ Left(n)'
    <3>1. SUFFICES ASSUME phase = "gather", NEW r \in running, r # p
                   PROVE  \E n \in Names : r = W(n) /\ Left(n)'
      BY <1>4
    <3>2. PICK n \in Names, m \in Names : r = W(n) /\ Left(n) /\ p = W(m)
      BY <3>1 DEF BInv, PInv
    <3>3. n # p[1]
      BY <3>1, <3>2 DEF W
    <3> QED
      BY <1>4, <3>2, <3>3 DEF Left
  <2>2. PInv
    BY DEF BInv
  <2> QED
    BY <1>1, <1>4, <2>1, <2>2 DEF PInv
<1>8. ASSUME NEW r \in Reads PROVE Receipted(r)' /\ Counted(r)' /\ Waiting(r)'
  <2>1. Receipted(r) /\ Counted(r) /\ Waiting(r) /\ tries[r] \in Nat
    BY <1>1 DEF BInv, RInv
  <2>2. Waiting(r)'
    BY <1>4, <2>1 DEF Waiting
  <2>3. Receipted(r)' /\ Counted(r)'
    <3>1. CASE r = p
      <4>1. r \notin running' /\ r \notin wanted /\ (r \in got' => status \in Usable)
        BY <1>1, <1>2, <1>4, <3>1, Kinds
      <4>2. Receipted(r)'
        BY <1>1, <1>3, <1>5, <3>1, <4>1 DEF Receipted, InFlight, Busy
      <4>3. Counted(r)'
        BY <1>3, <1>4, <1>5, <3>1 DEF Counted
      <4> QED
        BY <4>2, <4>3
    <3>2. CASE r # p /\ memory'[r] = memory[r]
      <4>1. (r \in running' <=> r \in running) /\ (r \in got' <=> r \in got)
        BY <1>4, <3>2
      <4>2. Receipted(r)'
        BY <2>1, <3>2, <4>1 DEF Receipted, InFlight, Busy
      <4>3. Counted(r)'
        BY <1>4, <2>1, <3>2, <4>1 DEF Counted, InFlight, Busy
      <4> QED
        BY <4>2, <4>3
    <3>3. CASE r \in Queries /\ memory'[r].status = "succeeded" /\ memory'[r].attempts = 1
      <4>1. r \notin running /\ r # p /\ (r \in got' <=> r \in got)
        BY <1>1, <1>4, <3>3, Kinds
      <4>2. Receipted(r)'
        BY <1>1, <1>4, <2>1, <3>3, <4>1 DEF Receipted, InFlight, Busy
      <4>3. CASE InFlight(r)'
        <5>1. phase = "probe" /\ r \in wanted /\ r \in asked
          BY <1>1, <1>4, <4>1, <4>3 DEF InFlight
        <5>2. pass = 1 => tries[r] = 0
          BY <2>1, <3>3, <5>1 DEF Waiting
        <5>3. pass \in {1, 2}
          BY DEF BInv, TInv
        <5>4. Counted(r)'
          BY <1>4, <3>3, <5>1, <5>2, <5>3 DEF Counted
        <5> QED
          BY <4>2, <5>4
      <4>4. CASE ~InFlight(r)'
        <5>1. Counted(r)'
          BY <3>3, <4>4 DEF Counted, Busy
        <5> QED
          BY <4>2, <5>1
      <4> QED
        BY <4>3, <4>4
    <3> QED
      BY <1>5, <3>1, <3>2, <3>3, Kinds
  <2> QED
    BY <2>2, <2>3
<1>9. ASSUME NEW n \in Names PROVE Untouched(n)' /\ Excused(n)'
  <2>1. CASE n = p[1]
    BY <1>4, <2>1 DEF Untouched, Excused, Left
  <2>2. CASE n # p[1]
    <3>1. W(n) # p /\ W(n) \in Probes
      BY <2>2, Kinds DEF W
    <3>2. /\ memory'[W(n)] = memory[W(n)] /\ evidence'[n] = evidence[n] /\ tries' = tries
          /\ (W(n) \in running' <=> W(n) \in running) /\ (W(n) \in got' <=> W(n) \in got)
      BY <1>4, <1>5, <2>2, <3>1
    <3>3. Untouched(n) /\ Excused(n)
      BY DEF BInv, UInv
    <3>4. Untouched(n)'
      BY <3>2, <3>3 DEF Untouched, Left
    <3>5. Excused(n)'
      BY <3>2, <3>3 DEF Excused, Left
    <3> QED
      BY <3>4, <3>5
  <2> QED
    BY <2>1, <2>2
<1>10. FInv'
  BY <1>4 DEF BInv, FInv, InRounds
<1> QED
  BY <1>6, <1>7, <1>8, <1>9, <1>10 DEF BInv, RInv, UInv

LEMMA NoEvidenceTyped ==
    NoEvidence \in Evidenced(Gaps) /\ NoEvidence \in Evidenced(Scopes)
<1>1. <<>> \in Seq(Record(Gaps)) /\ <<>> \in Seq(Record(Scopes))
  OBVIOUS
<1> QED
  BY <1>1 DEF NoEvidence, Evidenced, Statuses

LEMMA ProbeDoneStep ==
    ASSUME BInv, ProbeDone
    PROVE  BInv'
<1>1. phase = "probe" /\ running \subseteq Probes /\ evidence \in [Names -> Evidenced(Gaps)]
      /\ scopeOf \in [Names -> Scopes \cup {Absent}]
  BY DEF ProbeDone, BInv, PInv, TInv
<1>2. PICK p \in running : \E r \in Results[p] :
         /\ TakeIn(p, Merged(evidence[p[1]], scopeOf[p[1]], r[1], p[2]), r[1], r[2])
         /\ scopeOf' = [scopeOf EXCEPT ![p[1]] = p[2]]
         /\ memory' = AndCovered(Completed(memory, p, r[1] \in Usable), p, r[1])
  BY DEF ProbeDone
<1>3. PICK r \in Results[p] :
         /\ TakeIn(p, Merged(evidence[p[1]], scopeOf[p[1]], r[1], p[2]), r[1], r[2])
         /\ scopeOf' = [scopeOf EXCEPT ![p[1]] = p[2]]
         /\ memory' = AndCovered(Completed(memory, p, r[1] \in Usable), p, r[1])
  BY <1>2
<1>4. p \in Probes /\ p[1] \in Names /\ p[2] \in Scopes /\ r[1] \in Answer
  BY <1>1, Kinds, InvestigationAssumption DEF Answer, Probes
<1>5. scopeOf' \in [Names -> Scopes \cup {Absent}]
  BY <1>1, <1>3, <1>4
<1>6. UNCHANGED <<phase, pass, late, suff, loop, wanted, held, asked>>
  BY DEF ProbeDone, roundVars
<1>7. /\ evidence[p[1]] \in Evidenced(Gaps) /\ scopeOf[p[1]] \in Scopes \cup {Absent}
      /\ Clean => evidence[p[1]] \in Evidenced(Scopes)
  BY <1>1, <1>4 DEF Clean
<1> QED
  BY <1>1, <1>3, <1>4, <1>5, <1>6, <1>7, AnswerStep

LEMMA GatherDoneStep ==
    ASSUME BInv, GatherDone
    PROVE  BInv'
<1>1. phase = "gather" /\ scopeOf \in [Names -> Scopes \cup {Absent}]
      /\ \A p \in running : \E n \in Names : p = W(n)
  BY DEF GatherDone, BInv, PInv, TInv
<1>2. PICK p \in running : \E r \in Results[p] :
         /\ TakeIn(p, Merged(NoEvidence, Absent, r[1], p[2]), r[1], r[2])
         /\ memory' = AndCovered(Completed(memory, p, r[1] \in Usable), p, r[1])
  BY DEF GatherDone
<1>3. PICK r \in Results[p] :
         /\ TakeIn(p, Merged(NoEvidence, Absent, r[1], p[2]), r[1], r[2])
         /\ memory' = AndCovered(Completed(memory, p, r[1] \in Usable), p, r[1])
  BY <1>2
<1>4. p \in Probes /\ r[1] \in Answer
  BY <1>1, Kinds, InvestigationAssumption DEF Answer, Probes
<1>5. UNCHANGED <<phase, pass, late, suff, loop, wanted, held, asked, scopeOf>>
  BY DEF GatherDone, roundVars
<1> QED
  BY <1>1, <1>3, <1>4, <1>5, NoEvidenceTyped, AnswerStep

LEMMA ProbesDoneStep ==
    ASSUME BInv, ProbesDone
    PROVE  BInv'
<1>1. /\ phase = "probe" /\ running = {} /\ ~late
      /\ UNCHANGED <<pass, late, suff, evidence, scopeOf, memory, got, loop, wanted, held, asked>>
      /\ \/ wanted = {} /\ phase' = "turn" /\ UNCHANGED <<running, tries>>
         \/ phase' = "query" /\ Starts(wanted)
  BY DEF ProbesDone, takenVars, roundVars
<1>2. /\ wanted \subseteq Queries /\ wanted \subseteq Reads /\ wanted \subseteq asked
      /\ tries \in [Reads -> Nat] /\ held = {}
  BY <1>1, Kinds DEF BInv, TInv, PInv
<1>3. CASE wanted = {} /\ phase' = "turn" /\ UNCHANGED <<running, tries>>
  <2>1. TInv' /\ PInv'
    BY <1>1, <1>2, <1>3 DEF BInv, TInv, PInv, Phases, InRounds
  <2>2. ASSUME NEW r \in Reads PROVE Receipted(r)' /\ Counted(r)' /\ Waiting(r)'
    <3>1. Receipted(r) /\ Counted(r) /\ Waiting(r)
      BY DEF BInv, RInv
    <3>2. Receipted(r)'
      BY <1>1, <1>3, <3>1 DEF Receipted, InFlight, Busy
    <3>3. Counted(r)'
      BY <1>1, <1>3, <3>1 DEF Counted, InFlight, Busy
    <3>4. Waiting(r)'
      BY <1>1, <1>3, <3>1 DEF Waiting
    <3> QED
      BY <3>2, <3>3, <3>4
  <2>3. ASSUME NEW n \in Names PROVE Untouched(n)' /\ Excused(n)'
    BY <1>1, <1>3 DEF BInv, UInv, Untouched, Excused, Left, InRounds, Closing
  <2>4. FInv'
    BY <1>1, <1>3 DEF BInv, FInv, Clean, InRounds
  <2> QED
    BY <2>1, <2>2, <2>3, <2>4 DEF BInv, RInv, UInv
<1>4. CASE phase' = "query" /\ Starts(wanted)
  <2>1. /\ running' = wanted /\ tries' \in [Reads -> Nat]
        /\ \A r \in Reads : tries'[r] = IF r \in wanted THEN tries[r] + 1 ELSE tries[r]
    BY <1>1, <1>2, <1>4, StartsAt
  <2>2. TInv' /\ PInv'
    BY <1>1, <1>2, <1>4, <2>1 DEF BInv, TInv, PInv, Phases, InRounds
  <2>3. ASSUME NEW r \in Reads PROVE Receipted(r)' /\ Counted(r)' /\ Waiting(r)'
    <3>1. /\ Receipted(r) /\ Counted(r) /\ Waiting(r) /\ tries[r] \in Nat
          /\ memory[r] \in Receipt /\ pass \in {1, 2}
      BY DEF BInv, RInv, TInv
    <3>2. InFlight(r)' <=> InFlight(r)
      BY <1>1, <1>4, <2>1 DEF InFlight
    <3>3. Receipted(r)'
      BY <1>1, <1>4, <2>1, <3>1, <3>2 DEF Receipted, Busy
    <3>4. Counted(r)'
      <4>1. CASE r \in wanted
        <5>1. pass = 1 => tries[r] = 0
          BY <1>1, <1>2, <3>1, <4>1 DEF Waiting
        <5>2. memory[r].attempts >= 1
          BY <1>1, <3>1, <4>1 DEF Receipted, InFlight, Busy
        <5> QED
          BY <1>1, <1>2, <2>1, <3>1, <4>1, <5>1, <5>2 DEF Counted
      <4>2. CASE r \notin wanted
        BY <1>1, <1>4, <2>1, <3>1, <3>2, <4>2 DEF Counted, Busy
      <4> QED
        BY <4>1, <4>2
    <3>5. Waiting(r)'
      BY <1>1, <1>2, <1>4, <2>1, <3>1 DEF Waiting
    <3> QED
      BY <3>3, <3>4, <3>5
  <2>4. ASSUME NEW n \in Names PROVE Untouched(n)' /\ Excused(n)'
    <3>1. Untouched(n) /\ W(n) \in Reads /\ W(n) \notin wanted
      BY <1>2, Kinds DEF BInv, UInv
    <3>2. Untouched(n)'
      BY <1>1, <1>4, <2>1, <3>1 DEF Untouched, Left, InRounds
    <3> QED
      BY <1>4, <3>2 DEF Excused, Closing
  <2>5. FInv'
    BY <1>1, <1>4 DEF BInv, FInv, Clean, InRounds
  <2> QED
    BY <2>2, <2>3, <2>4, <2>5 DEF BInv, RInv, UInv
<1> QED
  BY <1>1, <1>3, <1>4

LEMMA QueryDoneStep ==
    ASSUME BInv, QueryDone
    PROVE  BInv'
<1>1. /\ phase = "query"
      /\ UNCHANGED <<phase, pass, late, suff, evidence, scopeOf, memory, tries, loop, wanted, asked>>
  BY DEF QueryDone, takenVars
<1>2. PICK q \in running, ok \in BOOLEAN :
         /\ running' = running \ {q}
         /\ held' = held \cup {[read |-> q, ok |-> ok]}
         /\ got' = IF ok THEN got \cup {q} ELSE got
  BY DEF QueryDone
<1>3. running \subseteq wanted /\ wanted \subseteq Queries /\ q \in wanted /\ q \in Reads
  BY <1>1, Kinds DEF BInv, PInv, TInv
<1>4. TInv' /\ PInv'
  BY <1>1, <1>2, <1>3 DEF BInv, TInv, PInv
<1>5. ASSUME NEW r \in Reads PROVE Receipted(r)' /\ Counted(r)' /\ Waiting(r)'
  <2>1. Receipted(r) /\ Counted(r) /\ Waiting(r)
    BY DEF BInv, RInv
  <2>2. InFlight(r)' <=> InFlight(r)
    BY <1>1, <1>2, <1>3 DEF InFlight
  <2>3. Receipted(r)'
    <3>1. CASE r = q
      <4>1. InFlight(r) /\ Busy(r) /\ r \notin got
        BY <1>1, <1>3, <2>1, <3>1 DEF Receipted, InFlight
      <4>2. r \in got' => [read |-> r, ok |-> TRUE] \in held'
        BY <1>2, <3>1, <4>1
      <4> QED
        BY <1>1, <1>2, <2>1, <3>1, <4>1, <4>2 DEF Receipted, Busy
    <3>2. CASE r # q
      <4>1. (r \in got' <=> r \in got) /\ (r \in running' => r \in running) /\ held \subseteq held'
        BY <1>2, <3>2
      <4> QED
        BY <1>1, <2>1, <2>2, <4>1 DEF Receipted, Busy
    <3> QED
      BY <3>1, <3>2
  <2>4. Counted(r)'
    BY <1>1, <2>1, <2>2 DEF Counted, Busy
  <2>5. Waiting(r)'
    BY <1>1, <2>1 DEF Waiting
  <2> QED
    BY <2>3, <2>4, <2>5
<1>6. ASSUME NEW n \in Names PROVE Untouched(n)' /\ Excused(n)'
  <2>1. Untouched(n) /\ W(n) # q
    BY <1>3, Kinds DEF BInv, UInv
  <2>2. (W(n) \in got' <=> W(n) \in got) /\ (W(n) \in running' <=> W(n) \in running)
    BY <1>2, <2>1
  <2>3. Untouched(n)'
    BY <1>1, <2>1, <2>2 DEF Untouched, Left
  <2> QED
    BY <1>1, <2>3 DEF Excused, Closing
<1>7. FInv'
  BY <1>1 DEF BInv, FInv, Clean, InRounds
<1> QED
  BY <1>4, <1>5, <1>6, <1>7 DEF BInv, RInv, UInv

LEMMA QueriesDoneStep ==
    ASSUME BInv, QueriesDone
    PROVE  BInv'
<1>1. /\ phase = "query" /\ running = {} /\ held' = {} /\ phase' = "turn"
      /\ UNCHANGED <<pass, late, suff, evidence, scopeOf, running, tries, got, loop, wanted, asked>>
      /\ memory' = [r \in Reads |-> IF \E x \in held : x.read = r
                      THEN Completed(memory, r, [read |-> r, ok |-> TRUE] \in held)[r] ELSE memory[r]]
  BY DEF QueriesDone, takenVars
<1>2. /\ memory \in [Reads -> Receipt] /\ tries \in [Reads -> Nat]
      /\ wanted \subseteq Queries /\ wanted \subseteq asked
      /\ \A x \in held : x.read \in wanted
  BY <1>1 DEF BInv, TInv, PInv
<1>3. ASSUME NEW r \in Reads
      PROVE  \/ /\ memory'[r] = memory[r]
                /\ ~(\E x \in held : x.read = r)
             \/ /\ r \in wanted /\ memory'[r] \in Receipt
                /\ memory'[r].status = IF [read |-> r, ok |-> TRUE] \in held
                                       THEN "succeeded" ELSE "failed"
                /\ memory'[r].attempts = IF memory[r].attempts = 0 THEN 1 ELSE memory[r].attempts
  <2>1. CASE ~(\E x \in held : x.read = r)
    BY <1>1, <2>1
  <2>2. CASE (\E x \in held : x.read = r) /\ [read |-> r, ok |-> TRUE] \in held
    <3>1. memory'[r] = Completed(memory, r, TRUE)[r]
      BY <1>1, <2>2 DEF Completed
    <3>2. Receives(memory, Completed(memory, r, TRUE), r, "succeeded")
      BY <1>2, CompletedAt
    <3> QED
      BY <1>2, <2>2, <3>1, <3>2 DEF Receives
  <2>3. CASE (\E x \in held : x.read = r) /\ [read |-> r, ok |-> TRUE] \notin held
    <3>1. memory'[r] = Completed(memory, r, FALSE)[r]
      BY <1>1, <2>3 DEF Completed
    <3>2. Receives(memory, Completed(memory, r, FALSE), r, "failed")
      BY <1>2, CompletedAt
    <3> QED
      BY <1>2, <2>3, <3>1, <3>2 DEF Receives
  <2> QED
    BY <2>1, <2>2, <2>3
<1>4. memory' \in [Reads -> Receipt]
  BY <1>1, <1>2, <1>3
<1>5. TInv' /\ PInv'
  BY <1>1, <1>4 DEF BInv, TInv, PInv, Phases, InRounds
<1>6. ASSUME NEW r \in Reads PROVE Receipted(r)' /\ Counted(r)' /\ Waiting(r)'
  <2>1. Receipted(r) /\ Counted(r) /\ Waiting(r) /\ memory[r] \in Receipt /\ memory[r].attempts \in Nat
    BY <1>2 DEF BInv, RInv, Receipt
  <2>2. Waiting(r)'
    BY <1>1, <2>1 DEF Waiting
  <2>3. CASE memory'[r] = memory[r]
    <3>1. Receipted(r)'
      BY <1>1, <2>1, <2>3 DEF Receipted, InFlight, Busy
    <3>2. Counted(r)'
      BY <1>1, <2>1, <2>3 DEF Counted, InFlight, Busy
    <3> QED
      BY <2>2, <3>1, <3>2
  <2>4. CASE /\ r \in wanted /\ memory'[r] \in Receipt
             /\ memory'[r].status = IF [read |-> r, ok |-> TRUE] \in held
                                    THEN "succeeded" ELSE "failed"
             /\ memory'[r].attempts = IF memory[r].attempts = 0 THEN 1 ELSE memory[r].attempts
    <3>1. InFlight(r) /\ Busy(r) /\ memory'[r].attempts = memory[r].attempts
      BY <1>1, <2>1, <2>4 DEF Receipted, InFlight, Busy
    <3>2. memory[r].attempts >= 1 /\ (r \in got => memory'[r].status = "succeeded")
      BY <1>1, <2>1, <2>4, <3>1 DEF Receipted, Busy
    <3>3. Receipted(r)'
      BY <1>1, <2>1, <2>4, <3>1, <3>2 DEF Receipted, InFlight, Busy
    <3>4. Counted(r)'
      BY <1>1, <2>1, <3>1 DEF Counted
    <3> QED
      BY <2>2, <3>3, <3>4
  <2> QED
    BY <1>3, <2>3, <2>4
<1>7. ASSUME NEW n \in Names PROVE Untouched(n)' /\ Excused(n)'
  <2>1. Untouched(n) /\ memory'[W(n)] = memory[W(n)]
    BY <1>2, <1>3, Kinds DEF BInv, UInv
  <2>2. Untouched(n)'
    BY <1>1, <2>1 DEF Untouched, Left, InRounds
  <2> QED
    BY <1>1, <2>2 DEF Excused, Closing
<1>8. FInv'
  BY <1>1 DEF BInv, FInv, Clean, InRounds
<1> QED
  BY <1>5, <1>6, <1>7, <1>8 DEF BInv, RInv, UInv

-----------------------------------------------------------------------------
(* The gather and the floor *)

\* What the ledger calls sufficient is on the board.
LEMMA SufficientIsGrounded ==
    ASSUME Sufficient(ledger)
    PROVE  Grounded
<1>1. PICK h \in Hypotheses :
         LET support == {f \in ledger[h].cites \cap Board \cap Eligible : h \in For[f]}
         IN /\ Cardinality({Plane[f] : f \in support}) >= 2 \/ support \cap Alone # {}
            /\ \A f \in Board \cap Eligible : h \notin Against[f]
  BY DEF Sufficient
<1> DEFINE support == {f \in ledger[h].cites \cap Board \cap Eligible : h \in For[f]}
           facts == {f \in Board \cap Eligible : h \in For[f]}
           P(S) == {Plane[f] : f \in S}
<1>2. support \subseteq facts /\ facts \subseteq Eligible
  OBVIOUS
<1>3. Cardinality(P(support)) >= 2 \/ support \cap Alone # {}
  BY <1>1
<1> HIDE DEF support, facts
<1>4. IsFiniteSet(facts)
  BY <1>2, FS_Subset, InvestigationAssumption
<1>5. IsFiniteSet(P(facts))
  <2> DEFINE plane == [f \in facts |-> Plane[f]]
  <2>1. plane \in Surjection(facts, P(facts))
    BY DEF Surjection
  <2> HIDE DEF plane, P
  <2> QED
    BY <1>4, <2>1, FS_Surjection
<1>6. P(support) \subseteq P(facts)
  BY <1>2
<1> HIDE DEF P
<1>7. /\ IsFiniteSet(P(support)) /\ Cardinality(P(support)) <= Cardinality(P(facts))
      /\ Cardinality(P(support)) \in Nat /\ Cardinality(P(facts)) \in Nat
  BY <1>5, <1>6, FS_Subset, FS_CardinalityType
<1>8. Cardinality(P(facts)) >= 2 \/ facts \cap Alone # {}
  BY <1>2, <1>3, <1>7
<1> QED
  BY <1>1, <1>8 DEF Grounded, facts, P

LEMMA FinalGatherStep ==
    ASSUME BInv, FinalGather
    PROVE  BInv'
<1> DEFINE left == IF suff' THEN {} ELSE {<<n, Whole>> : n \in Unseen}
           run == {p \in left : MayClaim(memory, p)}
<1>1. /\ phase = "final" /\ suff' = Sufficient(ledger)
      /\ phase' = IF left = {} THEN "floor" ELSE IF run = {} THEN "raised" ELSE "gather"
      /\ memory' = Claimed(memory, run) /\ Starts(run)
      /\ UNCHANGED <<pass, late, evidence, scopeOf, cards, got, loop, wanted, held, asked>>
  BY DEF FinalGather, takenVars, roundVars
<1>2. /\ \A r \in left : ~suff' /\ \E n \in Names : r = W(n) /\ Left(n)
      /\ \A n \in Names : ~suff' /\ Left(n) => W(n) \in left
  BY DEF W, Left, Unseen
<1>3. run \subseteq left /\ \A r \in left : r \in run <=> MayClaim(memory, r)
  OBVIOUS
<1> HIDE DEF left, run
<1>4. run \subseteq Probes /\ run \subseteq Reads /\ run \cap Queries = {}
  BY <1>2, <1>3, Kinds
<1>5. /\ running = {} /\ held = {} /\ wanted = {}
      /\ memory \in [Reads -> Receipt] /\ tries \in [Reads -> Nat]
  BY <1>1 DEF BInv, PInv, TInv
<1>6. /\ memory' \in [Reads -> Receipt]
      /\ \A r \in Reads : r \notin run => memory'[r] = memory[r]
      /\ \A r \in Reads : r \in run => /\ memory'[r].status = "running"
                                       /\ memory'[r].attempts = memory[r].attempts + 1
  BY <1>1, <1>5, ClaimedAt
<1>7. /\ running' = run /\ tries' \in [Reads -> Nat]
      /\ \A r \in Reads : tries'[r] = IF r \in run THEN tries[r] + 1 ELSE tries[r]
  BY <1>1, <1>4, <1>5, StartsAt
<1>8. /\ phase' \in {"floor", "raised", "gather"}
      /\ phase' # "gather" => run = {}
      /\ phase' = "floor" => left = {}
      /\ phase' = "gather" => ~suff'
  BY <1>1, <1>2, <1>3
<1>9. TInv'
  BY <1>1, <1>6, <1>7, <1>8 DEF BInv, TInv, Phases, InRounds, Closing
<1>10. PInv'
  <2>1. \A r \in running' : \E n \in Names : r = W(n) /\ Left(n)'
    BY <1>1, <1>2, <1>3, <1>7 DEF Left
  <2> QED
    BY <1>1, <1>4, <1>5, <1>7, <1>8, <2>1 DEF PInv
<1>11. ASSUME NEW r \in Reads PROVE Receipted(r)' /\ Counted(r)' /\ Waiting(r)'
  <2>1. Receipted(r) /\ Counted(r) /\ Waiting(r) /\ memory[r].attempts \in Nat /\ tries[r] \in Nat
    BY <1>5 DEF BInv, RInv, Receipt
  <2>2. CASE r \in run
    <3>1. /\ r \notin got /\ tries[r] <= memory[r].attempts /\ r \notin Queries
          /\ phase' = "gather"
      BY <1>1, <1>3, <1>4, <1>8, <2>2, ClaimFree DEF InRounds
    <3>2. /\ memory'[r].status = "running" /\ memory'[r].attempts = memory[r].attempts + 1
          /\ tries'[r] = tries[r] + 1
      BY <1>6, <1>7, <2>2
    <3>3. Receipted(r)'
      BY <1>1, <2>1, <3>1, <3>2 DEF Receipted, InFlight, Busy
    <3>4. Counted(r)' /\ Waiting(r)'
      BY <1>1, <2>1, <3>1, <3>2 DEF Counted, Waiting
    <3> QED
      BY <3>3, <3>4
  <2>3. CASE r \notin run
    <3>1. memory'[r] = memory[r] /\ tries'[r] = tries[r] /\ r \notin running'
      BY <1>6, <1>7, <2>3
    <3>2. Receipted(r)'
      BY <1>1, <1>8, <2>1, <3>1 DEF Receipted, InFlight, Busy
    <3>3. Counted(r)'
      BY <1>1, <1>8, <2>1, <3>1 DEF Counted, InFlight, Busy
    <3>4. Waiting(r)'
      BY <1>1, <1>8, <2>1, <3>1 DEF Waiting
    <3> QED
      BY <3>2, <3>3, <3>4
  <2> QED
    BY <2>2, <2>3
<1>12. ASSUME NEW n \in Names PROVE Untouched(n)' /\ Excused(n)'
  <2>1. Untouched(n) /\ W(n) \in Reads
    BY Kinds DEF BInv, UInv
  <2>2. Left(n) => \/ memory[W(n)].status = "none" /\ tries[W(n)] = 0 /\ W(n) \notin got
                   \/ memory[W(n)].status = "running" /\ tries[W(n)] = 1 /\ late /\ W(n) \notin got
    BY <1>1, <1>5, <2>1 DEF Untouched, InRounds
  <2>3. CASE W(n) \in run
    <3>1. memory[W(n)].status # "running" /\ phase' = "gather"
      BY <1>3, <1>8, <2>3 DEF MayClaim
    <3>2. /\ memory'[W(n)].status = "running" /\ tries'[W(n)] = tries[W(n)] + 1
          /\ W(n) \in running'
      BY <1>6, <1>7, <2>1, <2>3
    <3> QED
      BY <1>1, <2>2, <3>1, <3>2 DEF Untouched, Excused, Left
  <2>4. CASE W(n) \notin run
    <3>1. memory'[W(n)] = memory[W(n)] /\ tries'[W(n)] = tries[W(n)] /\ W(n) \notin running'
      BY <1>6, <1>7, <2>1, <2>4
    <3>2. Untouched(n)'
      BY <1>1, <2>2, <3>1 DEF Untouched, Left
    <3>3. Left(n) /\ ~suff' => late /\ memory[W(n)].status = "running"
      BY <1>2, <1>3, <2>2, <2>4 DEF MayClaim
    <3>4. Excused(n)'
      BY <1>1, <1>8, <3>1, <3>3 DEF Excused, Left, Closing
    <3> QED
      BY <3>2, <3>4
  <2> QED
    BY <2>3, <2>4
<1>13. FInv'
  <2>1. Clean'
    BY <1>1 DEF BInv, FInv, Clean, InRounds
  <2>2. suff' => Grounded'
    <3>1. suff' => Grounded
      BY <1>1, SufficientIsGrounded
    <3> QED
      BY <1>1, <3>1 DEF Grounded, Board
  <2>3. ~(phase' = "floor" /\ NeedsFloor')
    <3>1. SUFFICES ASSUME phase' = "floor", NeedsFloor'
                   PROVE  FALSE
      OBVIOUS
    <3>2. Kubernetes \in Names /\ ~suff' /\ left = {}
      BY <1>8, <3>1 DEF NeedsFloor
    <3>3. evidence'[Kubernetes].status # Absent
      BY <1>1, <1>2, <3>2 DEF Left
    <3>4. evidence'[Kubernetes].gaps \subseteq Scopes
      BY <2>1, <3>2 DEF Clean, Evidenced
    <3> QED
      BY <3>1, <3>3, <3>4, InvestigationAssumption DEF NeedsFloor
  <2> QED
    BY <1>8, <2>1, <2>2, <2>3 DEF FInv
<1> QED
  BY <1>9, <1>10, <1>11, <1>12, <1>13 DEF BInv, RInv, UInv

LEMMA GatherEndsStep ==
    ASSUME BInv, GatherEnds
    PROVE  BInv'
<1>1. /\ phase = "gather" /\ (late \/ running = {}) /\ running' = {} /\ phase' = "floor"
      /\ memory' = [r \in Reads |-> IF r \in running
                                    THEN Completed(memory, r, FALSE)[r] ELSE memory[r]]
      /\ evidence' = [n \in Names |-> IF <<n, Whole>> \in running THEN BudgetStub ELSE evidence[n]]
      /\ UNCHANGED <<pass, late, suff, scopeOf, cards, tries, got, loop, wanted, held, asked>>
  BY DEF GatherEnds, roundVars
<1>2. /\ memory \in [Reads -> Receipt] /\ tries \in [Reads -> Nat]
      /\ evidence \in [Names -> Evidenced(Gaps)] /\ Clean /\ ~suff
      /\ \A r \in running : \E n \in Names : r = W(n) /\ Left(n)
      /\ wanted = {} /\ held = {}
  BY <1>1 DEF BInv, TInv, PInv, FInv, InRounds
<1>3. ASSUME NEW r \in Reads
      PROVE  IF r \in running
             THEN /\ memory'[r] \in Receipt /\ memory'[r].status = "failed"
                  /\ memory'[r].attempts = IF memory[r].attempts = 0 THEN 1 ELSE memory[r].attempts
             ELSE memory'[r] = memory[r]
  <2>1. Receives(memory, Completed(memory, r, FALSE), r, "failed")
    BY <1>2, CompletedAt
  <2>2. /\ Completed(memory, r, FALSE)[r] \in Receipt
        /\ Completed(memory, r, FALSE)[r].status = "failed"
        /\ Completed(memory, r, FALSE)[r].attempts = IF memory[r].attempts = 0 THEN 1
                                                     ELSE memory[r].attempts
    BY <2>1 DEF Receives
  <2>3. memory'[r] = IF r \in running THEN Completed(memory, r, FALSE)[r] ELSE memory[r]
    BY <1>1
  <2> QED
    BY <2>2, <2>3
<1>4. memory' \in [Reads -> Receipt]
  BY <1>1, <1>2, <1>3
<1>5. BudgetStub \in Evidenced(Gaps) /\ BudgetStub.status # Absent
  BY EmptySeq DEF BudgetStub, Evidenced, Statuses, Gaps, Absent
<1>6. /\ evidence' \in [Names -> Evidenced(Gaps)]
      /\ \A n \in Names : evidence'[n] = IF W(n) \in running THEN BudgetStub ELSE evidence[n]
  BY <1>1, <1>2, <1>5 DEF W
<1>7. TInv' /\ PInv'
  BY <1>1, <1>2, <1>4, <1>6 DEF BInv, TInv, PInv, Phases, Closing
<1>8. ASSUME NEW r \in Reads PROVE Receipted(r)' /\ Counted(r)' /\ Waiting(r)'
  <2>1. Receipted(r) /\ Counted(r) /\ Waiting(r) /\ memory[r].attempts \in Nat /\ tries[r] \in Nat
    BY <1>2 DEF BInv, RInv, Receipt
  <2>2. Waiting(r)'
    BY <1>1, <2>1 DEF Waiting
  <2>3. Receipted(r)' /\ Counted(r)'
    <3>1. CASE r \in running
      <4>1. Busy(r) /\ InFlight(r) /\ r \notin got /\ r \notin Queries
        BY <1>1, <1>2, <2>1, <3>1, Kinds DEF Receipted, InFlight
      <4>2. memory[r].attempts >= 1 /\ tries[r] <= memory[r].attempts
        BY <1>1, <2>1, <4>1 DEF Receipted, Counted, Busy
      <4>3. memory'[r].status = "failed" /\ memory'[r].attempts = memory[r].attempts
        BY <1>3, <2>1, <3>1, <4>2
      <4>4. Receipted(r)'
        BY <1>1, <4>1, <4>2, <4>3 DEF Receipted, InFlight
      <4>5. Counted(r)'
        BY <1>1, <4>2, <4>3 DEF Counted
      <4> QED
        BY <4>4, <4>5
    <3>2. CASE r \notin running
      <4>1. memory'[r] = memory[r]
        BY <1>3, <3>2
      <4>2. Receipted(r)'
        BY <1>1, <2>1, <4>1 DEF Receipted, InFlight, Busy
      <4>3. Counted(r)'
        BY <1>1, <2>1, <4>1 DEF Counted, InFlight, Busy
      <4> QED
        BY <4>2, <4>3
    <3> QED
      BY <3>1, <3>2
  <2> QED
    BY <2>2, <2>3
<1>9. ASSUME NEW n \in Names, Left(n)'
      PROVE  /\ W(n) \notin running /\ Left(n) /\ memory'[W(n)] = memory[W(n)]
             /\ late /\ memory[W(n)].status = "running" /\ tries[W(n)] = 1 /\ W(n) \notin got
  <2>1. W(n) \notin running /\ Left(n)
    BY <1>5, <1>6, <1>9 DEF Left
  <2>2. memory'[W(n)] = memory[W(n)]
    BY <1>3, <2>1, Kinds
  <2>3. late /\ memory[W(n)].status = "running"
    BY <1>1, <2>1 DEF BInv, UInv, Excused, Closing
  <2>4. tries[W(n)] = 1 /\ W(n) \notin got
    BY <1>1, <2>1, <2>3 DEF BInv, UInv, Untouched
  <2> QED
    BY <2>1, <2>2, <2>3, <2>4
<1>10. ASSUME NEW n \in Names PROVE Untouched(n)' /\ Excused(n)'
  <2>1. CASE Left(n)'
    <3>1. Untouched(n)'
      BY <1>1, <1>9, <2>1 DEF Untouched
    <3> QED
      BY <1>1, <1>9, <2>1, <3>1 DEF Excused
  <2>2. CASE ~Left(n)'
    BY <2>2 DEF Untouched, Excused
  <2> QED
    BY <2>1, <2>2
<1>11. FInv'
  <2>1. Clean' \/ late'
    <3>1. CASE running = {}
      BY <1>2, <1>6, <3>1 DEF Clean
    <3>2. CASE running # {}
      BY <1>1, <3>2
    <3> QED
      BY <3>1, <3>2
  <2>2. ASSUME NeedsFloor'
        PROVE  late /\ tries[W(Kubernetes)] = 1 /\ W(Kubernetes) \notin got
    <3>1. Kubernetes \in Names
      BY <2>2 DEF NeedsFloor
    <3>2. CASE Left(Kubernetes)'
      BY <1>9, <3>1, <3>2
    <3>3. CASE "analysis_budget" \in evidence'[Kubernetes].gaps
      <4>1. evidence[Kubernetes].gaps \subseteq Scopes
        BY <1>2, <3>1 DEF Clean, Evidenced
      <4>2. W(Kubernetes) \in running
        BY <1>6, <3>1, <3>3, <4>1, InvestigationAssumption
      <4>3. Left(Kubernetes) /\ W(Kubernetes) \in Reads
        BY <1>2, <3>1, <4>2, Kinds
      <4>4. late
        BY <1>1, <4>2
      <4>5. memory[W(Kubernetes)].status = "running" \/ W(Kubernetes) \notin running
        BY <1>1, <3>1, <4>3 DEF BInv, UInv, Untouched
      <4> QED
        BY <1>1, <3>1, <4>2, <4>3, <4>4, <4>5 DEF BInv, UInv, Untouched
    <3> QED
      BY <2>2, <3>2, <3>3 DEF NeedsFloor, Left
  <2> QED
    BY <1>1, <1>2, <2>1, <2>2 DEF FInv, InRounds
<1> QED
  BY <1>7, <1>8, <1>10, <1>11 DEF BInv, RInv, UInv

LEMMA FloorStep ==
    ASSUME BInv, Floor
    PROVE  BInv'
<1>1. /\ phase = "floor"
      /\ UNCHANGED <<pass, late, suff, evidence, scopeOf, cards, memory, got, loop, wanted, held, asked>>
      /\ \/ NeedsFloor /\ Starts({W(Kubernetes)}) /\ phase' = "flooring"
         \/ ~NeedsFloor /\ phase' = "finish" /\ UNCHANGED <<running, tries>>
  BY DEF Floor, takenVars, roundVars, W
<1>2. /\ tries \in [Reads -> Nat] /\ wanted = {} /\ held = {} /\ running = {}
  BY <1>1 DEF BInv, TInv, PInv
<1>3. Grounded' <=> Grounded
  BY <1>1 DEF Grounded, Board
<1>4. CASE NeedsFloor /\ Starts({W(Kubernetes)}) /\ phase' = "flooring"
  <2>1. Kubernetes \in Names /\ ~suff /\ late /\ W(Kubernetes) \in Reads /\ W(Kubernetes) \notin Queries
        /\ W(Kubernetes) \notin got
    BY <1>1, <1>4, Kinds DEF BInv, FInv, NeedsFloor
  <2>2. /\ running' = {W(Kubernetes)} /\ tries' \in [Reads -> Nat]
        /\ \A r \in Reads : r # W(Kubernetes) => tries'[r] = tries[r]
    <3>1. {W(Kubernetes)} \subseteq Reads
      BY <2>1
    <3>2. /\ running' = running \cup {W(Kubernetes)} /\ tries' \in [Reads -> Nat]
          /\ \A r \in Reads : tries'[r] = IF r \in {W(Kubernetes)} THEN tries[r] + 1 ELSE tries[r]
      BY <1>2, <1>4, <3>1, StartsAt
    <3> QED
      BY <1>2, <3>2
  <2>3. TInv' /\ PInv'
    BY <1>1, <1>2, <1>4, <2>1, <2>2 DEF BInv, TInv, PInv, Phases, Closing
  <2>4. ASSUME NEW r \in Reads PROVE Receipted(r)' /\ Counted(r)' /\ Waiting(r)'
    <3>1. Receipted(r) /\ Counted(r) /\ Waiting(r)
      BY DEF BInv, RInv
    <3>2. Receipted(r)'
      BY <1>1, <1>4, <2>1, <2>2, <3>1 DEF Receipted, Busy, InFlight
    <3>3. Counted(r)'
      <4>1. CASE r = W(Kubernetes)
        BY <1>1, <1>4, <2>1, <4>1, Kinds DEF Counted
      <4>2. CASE r # W(Kubernetes)
        BY <1>1, <1>4, <2>2, <3>1, <4>2 DEF Counted, InFlight, Busy
      <4> QED
        BY <4>1, <4>2
    <3>4. Waiting(r)'
      BY <1>1, <1>4, <2>1, <2>2, <3>1 DEF Waiting
    <3> QED
      BY <3>2, <3>3, <3>4
  <2>5. ASSUME NEW n \in Names PROVE Untouched(n)' /\ Excused(n)'
    <3>1. Excused(n)
      BY DEF BInv, UInv
    <3>2. Untouched(n)'
      BY <1>1, <1>4, <2>1 DEF Untouched, InRounds
    <3>3. Excused(n)'
      BY <1>1, <1>4, <2>1, <3>1 DEF Excused, Left, Closing
    <3> QED
      BY <3>2, <3>3
  <2>6. FInv'
    BY <1>1, <1>4, <2>1 DEF FInv, InRounds
  <2> QED
    BY <2>3, <2>4, <2>5, <2>6 DEF BInv, RInv, UInv
<1>5. CASE ~NeedsFloor /\ phase' = "finish" /\ UNCHANGED <<running, tries>>
  <2>1. TInv' /\ PInv'
    BY <1>1, <1>2, <1>5 DEF BInv, TInv, PInv, Phases, Closing
  <2>2. ASSUME NEW r \in Reads PROVE Receipted(r)' /\ Counted(r)' /\ Waiting(r)'
    <3>1. Receipted(r) /\ Counted(r) /\ Waiting(r)
      BY DEF BInv, RInv
    <3>2. Receipted(r)'
      BY <1>1, <1>2, <1>5, <3>1 DEF Receipted, Busy, InFlight
    <3>3. Counted(r)'
      BY <1>1, <1>2, <1>5, <3>1 DEF Counted, Busy, InFlight
    <3>4. Waiting(r)'
      BY <1>1, <1>5, <3>1 DEF Waiting
    <3> QED
      BY <3>2, <3>3, <3>4
  <2>3. ASSUME NEW n \in Names PROVE Untouched(n)' /\ Excused(n)'
    <3>1. Untouched(n) /\ Excused(n)
      BY DEF BInv, UInv
    <3>2. Untouched(n)'
      BY <1>1, <1>5, <3>1 DEF Untouched, Left, InRounds
    <3>3. Excused(n)'
      BY <1>1, <1>5, <3>1 DEF Excused, Left, Closing
    <3> QED
      BY <3>2, <3>3
  <2>4. FInv'
    BY <1>1, <1>3, <1>5 DEF BInv, FInv, Clean, InRounds
  <2> QED
    BY <2>1, <2>2, <2>3, <2>4 DEF BInv, RInv, UInv
<1> QED
  BY <1>1, <1>4, <1>5

\* The floor's answer, or its timeout, is not in the receipts.
LEMMA FlooredStep ==
    ASSUME BInv, FloorDone \/ FloorTimesOut
    PROVE  BInv'
<1>1. /\ phase = "flooring" /\ phase' = "finish" /\ running = {W(Kubernetes)}
      /\ Kubernetes \in Names /\ late /\ ~suff /\ evidence \in [Names -> Evidenced(Gaps)]
      /\ UNCHANGED <<pass, late, suff, scopeOf, memory, loop, wanted, held, asked>>
      /\ wanted = {} /\ held = {}
  BY DEF FloorDone, FloorTimesOut, takenVars, roundVars, BInv, PInv, FInv, TInv
<1>2. /\ running' = {} /\ tries' = tries
      /\ got' = got \/ got' = got \cup {W(Kubernetes)}
      /\ evidence' \in [Names -> Evidenced(Gaps)]
      /\ \A n \in Names : n # Kubernetes => evidence'[n] = evidence[n]
      /\ evidence'[Kubernetes] = evidence[Kubernetes] \/ evidence'[Kubernetes].status # Absent
  <2>1. CASE FloorTimesOut
    BY <1>1, <2>1 DEF FloorTimesOut, takenVars
  <2>2. CASE FloorDone
    <3>1. PICK r \in Results[W(Kubernetes)] :
             TakeIn(W(Kubernetes), Merged(NoEvidence, Absent, r[1], W(Kubernetes)[2]), r[1], r[2])
      BY <1>1, <2>2 DEF FloorDone
    <3>2. r[1] \in Answer /\ W(Kubernetes) \in Probes /\ W(Kubernetes)[1] = Kubernetes
      BY <1>1, Kinds, InvestigationAssumption DEF Answer, Probes, W
    <3>3. /\ evidence' \in [Names -> Evidenced(Gaps)]
          /\ evidence'[W(Kubernetes)[1]].status # Absent
          /\ \A n \in Names : n # W(Kubernetes)[1] => evidence'[n] = evidence[n]
          /\ running' = running \ {W(Kubernetes)} /\ tries' = tries
          /\ got' = IF r[1] \in Usable THEN got \cup {W(Kubernetes)} ELSE got
      BY <1>1, <3>1, <3>2, TakenIn, NoEvidenceTyped
    <3> QED
      BY <1>1, <3>2, <3>3
  <2> QED
    BY <2>1, <2>2
<1>3. TInv' /\ PInv'
  BY <1>1, <1>2 DEF BInv, TInv, PInv, Phases, Closing
<1>4. ASSUME NEW r \in Reads PROVE Receipted(r)' /\ Counted(r)' /\ Waiting(r)'
  <2>1. Receipted(r) /\ Counted(r) /\ Waiting(r)
    BY DEF BInv, RInv
  <2>2. Receipted(r)'
    BY <1>1, <1>2, <2>1 DEF Receipted, Busy, InFlight
  <2>3. Counted(r)'
    BY <1>1, <1>2, <2>1 DEF Counted, Busy, InFlight
  <2>4. Waiting(r)'
    BY <1>1, <1>2, <2>1 DEF Waiting
  <2> QED
    BY <2>2, <2>3, <2>4
<1>5. ASSUME NEW n \in Names PROVE Untouched(n)' /\ Excused(n)'
  <2>1. Excused(n)
    BY DEF BInv, UInv
  <2>2. Left(n)' => Left(n)
    BY <1>2 DEF Left
  <2>3. Untouched(n)'
    BY <1>1 DEF Untouched, InRounds
  <2>4. Excused(n)'
    BY <1>1, <2>1, <2>2 DEF Excused, Closing
  <2> QED
    BY <2>3, <2>4
<1>6. FInv'
  BY <1>1 DEF FInv, InRounds
<1> QED
  BY <1>3, <1>4, <1>5, <1>6 DEF BInv, RInv, UInv

LEMMA FinishStep ==
    ASSUME BInv, Finish
    PROVE  BInv'
<1>1. /\ phase = "finish" /\ phase' = "handed" /\ loop' = "decide"
      /\ wanted' = {} /\ held' = {} /\ asked' = {} /\ scopeOf' = [n \in Names |-> Absent]
      /\ UNCHANGED <<pass, late, suff, memory, running, tries, got, evidence, cards>>
  BY DEF Finish, FreshRounds, readVars
<1>2. TInv' /\ PInv'
  BY <1>1 DEF BInv, TInv, PInv, Phases, Closing
<1>3. ASSUME NEW r \in Reads PROVE Receipted(r)' /\ Counted(r)' /\ Waiting(r)'
  <2>1. Receipted(r) /\ Counted(r)
    BY DEF BInv, RInv
  <2>2. Receipted(r)'
    BY <1>1, <2>1 DEF Receipted, Busy, InFlight
  <2>3. Counted(r)'
    BY <1>1, <2>1 DEF Counted, Busy, InFlight
  <2>4. Waiting(r)'
    BY <1>1 DEF Waiting
  <2> QED
    BY <2>2, <2>3, <2>4
<1>4. ASSUME NEW n \in Names PROVE Untouched(n)' /\ Excused(n)'
  <2>1. Untouched(n) /\ Excused(n)
    BY DEF BInv, UInv
  <2>2. Untouched(n)'
    BY <1>1, <2>1 DEF Untouched, Left, InRounds
  <2>3. Excused(n)'
    BY <1>1, <2>1 DEF Excused, Left, Closing
  <2> QED
    BY <2>2, <2>3
<1>5. FInv'
  <2>1. Grounded' <=> Grounded
    BY <1>1 DEF Grounded, Board
  <2> QED
    BY <1>1, <2>1 DEF BInv, FInv, Clean, InRounds
<1> QED
  BY <1>2, <1>3, <1>4, <1>5 DEF BInv, RInv, UInv

LEMMA DeadlineStep ==
    ASSUME BInv, Deadline, UNCHANGED drillVars
    PROVE  BInv'
<1>1. /\ late' = TRUE /\ ~late /\ phase \notin {"raised", "over"}
      /\ UNCHANGED <<phase, pass, suff, memory, running, tries, got, evidence, scopeOf, cards,
                     loop, wanted, held, asked, agent>>
  BY DEF Deadline, readVars, takenVars, roundVars, drillVars
<1>2. TInv' /\ PInv'
  <2>1. TInv'
    BY <1>1 DEF BInv, TInv
  <2>2. PInv /\ (\A n \in Names : Left(n)' <=> Left(n))
    BY <1>1 DEF BInv, Left
  <2>3. PInv'
    BY <1>1, <2>2 DEF PInv
  <2> QED
    BY <2>1, <2>3
<1>3. ASSUME NEW r \in Reads PROVE Receipted(r)' /\ Counted(r)' /\ Waiting(r)'
  <2>1. Receipted(r) /\ Counted(r) /\ Waiting(r)
    BY DEF BInv, RInv
  <2>2. Receipted(r)'
    BY <1>1, <2>1 DEF Receipted, Busy, InFlight
  <2>3. Counted(r)'
    BY <1>1, <2>1 DEF Counted, Busy, InFlight
  <2>4. Waiting(r)'
    BY <1>1, <2>1 DEF Waiting
  <2> QED
    BY <2>2, <2>3, <2>4
<1>4. ASSUME NEW n \in Names PROVE Untouched(n)' /\ Excused(n)'
  <2>1. Untouched(n) /\ Excused(n)
    BY DEF BInv, UInv
  <2>2. Untouched(n)'
    BY <1>1, <2>1 DEF Untouched, Left
  <2>3. Excused(n)'
    BY <1>1, <2>1 DEF Excused, Left
  <2> QED
    BY <2>2, <2>3
<1>5. FInv'
  <2>1. (Grounded' <=> Grounded) /\ (NeedsFloor' <=> NeedsFloor)
    BY <1>1 DEF Grounded, Board, NeedsFloor
  <2> QED
    BY <1>1, <2>1 DEF BInv, FInv, Clean
<1> QED
  BY <1>2, <1>3, <1>4, <1>5 DEF BInv, RInv, UInv

LEMMA InvestigationStep ==
    ASSUME BInv, InvestigationNext, UNCHANGED drillVars
    PROVE  BInv'
<1>1. CASE Control
  BY <1>1, LaunchSteps, RoundRestsSteps, ProbesDoneStep, QueriesDoneStep, FinalGatherStep,
     GatherEndsStep, FloorStep, FlooredStep, FinishStep DEF Control, SkipReflection
<1>2. CASE Replies
  BY <1>2, LaunchSteps, RoundRestsSteps, ProbeDoneStep, QueryDoneStep, GatherDoneStep,
     FlooredStep DEF Replies
<1>3. CASE Deadline
  BY <1>3, DeadlineStep
<1> QED
  BY <1>1, <1>2, <1>3 DEF InvestigationNext

-----------------------------------------------------------------------------
(* The agents and the re-analysis *)

LEMMA AgentSet ==
    ASSUME AInv, NEW n \in Names, NEW e, Set(n, e)
    PROVE  agent'[n] = e /\ \A m \in Names : m # n => agent'[m] = agent[m]
BY DEF AInv, Set

\* An agent claims what it is about to read.
LEMMA AgentClaims ==
    ASSUME AInv, BInv, phase = "drill", ~late, NEW n \in Names, NEW e, Set(n, e),
           NEW run, run \subseteq Queries, \A q \in run : MayClaim(memory, q),
           e.mine = run \/ e.mine = agent[n].mine,
           memory' = Claimed(memory, run), Starts(run), got' = got, KeepInvestigator
    PROVE  BInv'
<1>1. UNCHANGED <<phase, pass, late, suff, evidence, scopeOf, loop, wanted, held, asked>>
  BY DEF KeepInvestigator, roundVars
<1>2. /\ pass = 1 /\ running \subseteq Queries /\ wanted = {} /\ held = {}
      /\ \A m \in Names : agent[m].mine \subseteq running
      /\ \A m, k \in Names : m # k => agent[m].mine \cap agent[k].mine = {}
      /\ memory \in [Reads -> Receipt] /\ tries \in [Reads -> Nat]
      /\ run \subseteq Reads
  BY Kinds DEF BInv, PInv, TInv
<1>3. /\ memory' \in [Reads -> Receipt]
      /\ \A r \in Reads : r \notin run => memory'[r] = memory[r]
      /\ \A r \in Reads : r \in run => /\ memory'[r].status = "running"
                                       /\ memory'[r].attempts = memory[r].attempts + 1
  BY <1>2, ClaimedAt
<1>4. /\ running' = running \cup run /\ tries' \in [Reads -> Nat]
      /\ \A r \in Reads : tries'[r] = IF r \in run THEN tries[r] + 1 ELSE tries[r]
  BY <1>2, StartsAt
<1>5. \A q \in run : q \notin running /\ q \notin got /\ tries[q] <= memory[q].attempts
  BY <1>2, ClaimFree
<1>6. TInv'
  BY <1>1, <1>3, <1>4 DEF BInv, TInv
<1>7. PInv'
  <2>1. agent'[n] = e /\ \A m \in Names : m # n => agent'[m] = agent[m]
    BY AgentSet
  <2>2. \A m \in Names : agent'[m].mine \subseteq running'
    BY <1>2, <1>4, <2>1
  <2>3. \A m, k \in Names : m # k => agent'[m].mine \cap agent'[k].mine = {}
    BY <1>2, <1>5, <2>1
  <2> QED
    BY <1>1, <1>2, <1>4, <2>2, <2>3, Kinds DEF PInv
<1>8. ASSUME NEW r \in Reads PROVE Receipted(r)' /\ Counted(r)' /\ Waiting(r)'
  <2>1. Receipted(r) /\ Counted(r) /\ memory[r].attempts \in Nat /\ tries[r] \in Nat
    BY <1>2 DEF BInv, RInv, Receipt
  <2>2. Waiting(r)'
    BY <1>1 DEF Waiting
  <2>3. CASE r \in run
    <3>1. /\ memory'[r].status = "running" /\ memory'[r].attempts = memory[r].attempts + 1
          /\ tries'[r] = tries[r] + 1 /\ r \notin got /\ tries[r] <= memory[r].attempts
      BY <1>3, <1>4, <1>5, <2>3
    <3>2. Receipted(r)' /\ Counted(r)'
      BY <1>1, <2>1, <3>1 DEF Receipted, Counted, Busy
    <3> QED
      BY <2>2, <3>2
  <2>4. CASE r \notin run
    <3>1. memory'[r] = memory[r] /\ tries'[r] = tries[r] /\ (r \in running' <=> r \in running)
      BY <1>3, <1>4, <2>4
    <3>2. Receipted(r)' /\ Counted(r)'
      BY <1>1, <2>1, <3>1 DEF Receipted, Counted, Busy, InFlight
    <3> QED
      BY <2>2, <3>2
  <2> QED
    BY <2>3, <2>4
<1>9. ASSUME NEW m \in Names PROVE Untouched(m)' /\ Excused(m)'
  <2>1. Untouched(m) /\ W(m) \in Reads /\ W(m) \notin run
    BY Kinds DEF BInv, UInv
  <2>2. /\ memory'[W(m)] = memory[W(m)] /\ tries'[W(m)] = tries[W(m)]
        /\ (W(m) \in running' <=> W(m) \in running)
    BY <1>3, <1>4, <2>1
  <2>3. Untouched(m)'
    BY <1>1, <2>1, <2>2 DEF Untouched, Left
  <2> QED
    BY <1>1, <2>3 DEF Excused, Closing
<1>10. FInv'
  BY <1>1 DEF BInv, FInv, Clean, InRounds
<1> QED
  BY <1>6, <1>7, <1>8, <1>9, <1>10 DEF BInv, RInv, UInv

\* Its answer is written into the receipt.
LEMMA AgentReads ==
    ASSUME AInv, BInv, phase = "drill", NEW n \in Names, NEW e, Set(n, e),
           NEW q \in agent[n].mine, e.mine \subseteq agent[n].mine \ {q},
           NEW status, memory' = Completed(memory, q, status = "ok"),
           running' = running \ {q}, tries' = tries,
           got' = IF status = "ok" THEN got \cup {q} ELSE got, KeepInvestigator
    PROVE  BInv'
<1>1. UNCHANGED <<phase, pass, late, suff, evidence, scopeOf, loop, wanted, held, asked>>
  BY DEF KeepInvestigator, roundVars
<1>2. /\ pass = 1 /\ running \subseteq Queries /\ wanted = {} /\ held = {}
      /\ \A m \in Names : agent[m].mine \subseteq running
      /\ \A m, k \in Names : m # k => agent[m].mine \cap agent[k].mine = {}
      /\ memory \in [Reads -> Receipt] /\ tries \in [Reads -> Nat]
      /\ q \in running /\ q \in Queries /\ q \in Reads
  BY Kinds DEF BInv, PInv, TInv
<1>3. status = "ok" => Receives(memory, memory', q, "succeeded")
  <2>1. ASSUME status = "ok" PROVE memory' = Completed(memory, q, TRUE)
    BY <2>1 DEF Completed
  <2>2. Receives(memory, Completed(memory, q, TRUE), q, "succeeded")
    BY <1>2, CompletedAt
  <2> QED
    BY <2>1, <2>2 DEF Receives
<1>4. status # "ok" => Receives(memory, memory', q, "failed")
  <2>1. ASSUME status # "ok" PROVE memory' = Completed(memory, q, FALSE)
    BY <2>1 DEF Completed
  <2>2. Receives(memory, Completed(memory, q, FALSE), q, "failed")
    BY <1>2, CompletedAt
  <2> QED
    BY <2>1, <2>2 DEF Receives
<1>10. /\ memory' \in [Reads -> Receipt]
       /\ \A r \in Reads : r # q => memory'[r] = memory[r]
       /\ memory'[q].status = IF status = "ok" THEN "succeeded" ELSE "failed"
       /\ memory'[q].attempts = IF memory[q].attempts = 0 THEN 1 ELSE memory[q].attempts
  BY <1>3, <1>4 DEF Receives
<1>5. TInv'
  BY <1>1, <1>10 DEF BInv, TInv
<1>6. PInv'
  <2>1. agent'[n] = e /\ \A m \in Names : m # n => agent'[m] = agent[m]
    BY AgentSet
  <2>2. \A m \in Names : agent'[m].mine \subseteq running'
    BY <1>2, <2>1
  <2>3. \A m, k \in Names : m # k => agent'[m].mine \cap agent'[k].mine = {}
    BY <1>2, <2>1
  <2> QED
    BY <1>1, <1>2, <2>2, <2>3 DEF BInv, PInv
<1>7. ASSUME NEW r \in Reads PROVE Receipted(r)' /\ Counted(r)' /\ Waiting(r)'
  <2>1. Receipted(r) /\ Counted(r) /\ memory[r].attempts \in Nat
    BY <1>2 DEF BInv, RInv, Receipt
  <2>2. Waiting(r)'
    BY <1>1 DEF Waiting
  <2>3. CASE r = q
    <3>1. Busy(r) /\ InFlight(r) /\ r \notin got
      BY <1>2, <2>1, <2>3 DEF Receipted, InFlight
    <3>2. memory[r].attempts >= 1 /\ tries[r] <= memory[r].attempts
      BY <1>2, <2>1, <2>3, <3>1, Kinds DEF Receipted, Counted, Busy, InFlight
    <3>3. memory'[r].attempts = memory[r].attempts
      BY <1>10, <2>1, <2>3, <3>2
    <3>4. r \in got' => status = "ok"
      BY <3>1
    <3>5. Receipted(r)'
      BY <1>1, <1>10, <2>3, <3>2, <3>3, <3>4 DEF Receipted, Busy, InFlight
    <3>6. Counted(r)'
      BY <3>2, <3>3 DEF Counted
    <3> QED
      BY <2>2, <3>5, <3>6
  <2>4. CASE r # q
    <3>1. memory'[r] = memory[r] /\ (r \in running' <=> r \in running) /\ (r \in got' <=> r \in got)
      BY <1>10, <2>4
    <3>2. Receipted(r)'
      BY <1>1, <2>1, <3>1 DEF Receipted, Busy, InFlight
    <3>3. Counted(r)'
      BY <1>1, <2>1, <3>1 DEF Counted, Busy, InFlight
    <3> QED
      BY <2>2, <3>2, <3>3
  <2> QED
    BY <2>3, <2>4
<1>8. ASSUME NEW m \in Names PROVE Untouched(m)' /\ Excused(m)'
  <2>1. Untouched(m) /\ W(m) \in Reads /\ W(m) # q
    BY <1>2, Kinds DEF BInv, UInv
  <2>2. /\ memory'[W(m)] = memory[W(m)] /\ (W(m) \in running' <=> W(m) \in running)
        /\ (W(m) \in got' <=> W(m) \in got)
    BY <1>10, <2>1
  <2>3. Untouched(m)'
    BY <1>1, <2>1, <2>2 DEF Untouched, Left
  <2> QED
    BY <1>1, <2>3 DEF Excused, Closing
<1>9. FInv'
  BY <1>1 DEF BInv, FInv, Clean, InRounds
<1> QED
  BY <1>5, <1>6, <1>7, <1>8, <1>9 DEF BInv, RInv, UInv

\* A step that reads nothing.
LEMMA AgentRests ==
    ASSUME AInv, BInv, phase = "drill", NEW n \in Names, NEW e, Set(n, e),
           e.mine = agent[n].mine, UNCHANGED readVars, KeepInvestigator
    PROVE  BInv'
<1>1. UNCHANGED <<phase, pass, late, suff, evidence, scopeOf, loop, wanted, held, asked,
                  memory, running, tries, got>>
  BY DEF KeepInvestigator, roundVars, readVars
<1>2. \A m \in Names : agent'[m].mine = agent[m].mine
  BY AgentSet
<1>3. TInv' /\ PInv'
  BY <1>1, <1>2 DEF BInv, TInv, PInv
<1>4. ASSUME NEW r \in Reads PROVE Receipted(r)' /\ Counted(r)' /\ Waiting(r)'
  BY <1>1 DEF BInv, RInv, Receipted, Counted, Waiting, InFlight, Busy
<1>5. ASSUME NEW m \in Names PROVE Untouched(m)' /\ Excused(m)'
  BY <1>1 DEF BInv, UInv, Untouched, Excused, Left
<1>6. FInv'
  BY <1>1 DEF BInv, FInv, Clean, InRounds
<1> QED
  BY <1>3, <1>4, <1>5, <1>6 DEF BInv, RInv, UInv

LEMMA AgentsRest ==
    ASSUME AInv, BInv, NEW n \in Names, ProbesOver(n) \/ StopAsking(n)
    PROVE  BInv'
<1>1. phase = "drill" /\ UNCHANGED readVars /\ KeepInvestigator
  BY DEF ProbesOver, StopAsking
<1>2. PICK at \in {"ask", "done"} : Set(n, [agent[n] EXCEPT !.at = at])
  BY DEF ProbesOver, StopAsking
<1> DEFINE e == [agent[n] EXCEPT !.at = at]
<1>3. e.mine = agent[n].mine
  BY AgentFields DEF AgentState
<1> HIDE DEF e
<1> QED
  BY <1>1, <1>2, <1>3, AgentRests DEF e

LEMMA DeclaredProbeClaims ==
    ASSUME AInv, BInv, NEW n \in Names, DeclaredProbe(n)
    PROVE  BInv'
<1>1. phase = "drill" /\ ~late /\ agent[n].at = "probes" /\ KeepInvestigator
  BY DEF DeclaredProbe
<1>2. PICK q \in agent[n].todo :
         \/ /\ MayClaim(memory, q)
            /\ Set(n, [agent[n] EXCEPT !.todo = @ \ {q}, !.mine = {q}, !.done = @ \cup {q}])
            /\ memory' = Claimed(memory, {q}) /\ Starts({q}) /\ got' = got
         \/ Set(n, [agent[n] EXCEPT !.todo = @ \ {q}]) /\ UNCHANGED readVars
  BY DEF DeclaredProbe
<1>3. agent[n] \in AgentState /\ q \in Queries
  BY <1>2, AgentFields
<1>4. CASE /\ MayClaim(memory, q)
           /\ Set(n, [agent[n] EXCEPT !.todo = @ \ {q}, !.mine = {q}, !.done = @ \cup {q}])
           /\ memory' = Claimed(memory, {q}) /\ Starts({q}) /\ got' = got
  <2> DEFINE e == [agent[n] EXCEPT !.todo = @ \ {q}, !.mine = {q}, !.done = @ \cup {q}]
  <2>1. e.mine = {q}
    BY <1>3 DEF AgentState
  <2>2. {q} \subseteq Queries /\ \A p \in {q} : MayClaim(memory, p)
    BY <1>3, <1>4
  <2> HIDE DEF e
  <2> QED
    BY <1>1, <1>4, <2>1, <2>2, AgentClaims DEF e
<1>5. CASE Set(n, [agent[n] EXCEPT !.todo = @ \ {q}]) /\ UNCHANGED readVars
  <2> DEFINE e == [agent[n] EXCEPT !.todo = @ \ {q}]
  <2>1. e.mine = agent[n].mine
    BY <1>3 DEF AgentState
  <2> HIDE DEF e
  <2> QED
    BY <1>1, <1>5, <2>1, AgentRests DEF e
<1> QED
  BY <1>2, <1>4, <1>5

LEMMA AskAgentClaims ==
    ASSUME AInv, BInv, NEW n \in Names, AskAgent(n)
    PROVE  BInv'
<1>1. phase = "drill" /\ ~late /\ KeepInvestigator /\ got' = got
  BY DEF AskAgent
<1> DEFINE next == [agent[n] EXCEPT !.round = @ + 1]
<1>2. PICK run \in SUBSET Queries :
         /\ \A q \in run : MayClaim(memory, q)
         /\ memory' = Claimed(memory, run) /\ Starts(run)
         /\ \/ Set(n, [next EXCEPT !.at = "read", !.mine = run, !.done = @ \cup run])
            \/ Set(n, [next EXCEPT !.repaired = TRUE])
            \/ Set(n, [next EXCEPT !.at = "done"])
  <2>1. PICK qs \in SUBSET Optional[n], invalid \in BOOLEAN :
           /\ Set(n, IF {q \in qs \ agent[n].done : MayClaim(memory, q)} # {}
                  THEN [next EXCEPT !.at = "read",
                                    !.mine = {q \in qs \ agent[n].done : MayClaim(memory, q)},
                                    !.done = @ \cup {q \in qs \ agent[n].done : MayClaim(memory, q)}]
                  ELSE IF invalid /\ ~agent[n].repaired /\ next.round < DrillLimit
                  THEN [next EXCEPT !.repaired = TRUE]
                  ELSE [next EXCEPT !.at = "done"])
           /\ memory' = Claimed(memory, {q \in qs \ agent[n].done : MayClaim(memory, q)})
           /\ Starts({q \in qs \ agent[n].done : MayClaim(memory, q)})
    BY DEF AskAgent
  <2> DEFINE run == {q \in qs \ agent[n].done : MayClaim(memory, q)}
  <2>2. run \in SUBSET Queries /\ \A q \in run : MayClaim(memory, q)
    BY DrillAssumption
  <2> HIDE DEF next
  <2> QED
    BY <2>1, <2>2
<1>3. next \in AgentState /\ next.mine = agent[n].mine
  BY AgentFields DEF AgentState
<1> HIDE DEF next
<1> DEFINE e1 == [next EXCEPT !.at = "read", !.mine = run, !.done = @ \cup run]
           e2 == [next EXCEPT !.repaired = TRUE]
           e3 == [next EXCEPT !.at = "done"]
<1>4. e1.mine = run /\ e2.mine = agent[n].mine /\ e3.mine = agent[n].mine
  BY <1>3 DEF AgentState
<1>5. Set(n, e1) \/ Set(n, e2) \/ Set(n, e3)
  BY <1>2
<1> HIDE DEF e1, e2, e3
<1>6. run \subseteq Queries
  OBVIOUS
<1> QED
  BY <1>1, <1>2, <1>4, <1>5, <1>6, AgentClaims

LEMMA AgentAnswers ==
    ASSUME AInv, BInv, NEW n \in Names, DeclaredProbeDone(n) \/ AgentReadDone(n)
    PROVE  BInv'
<1>1. phase = "drill" /\ KeepInvestigator /\ tries' = tries
  BY DEF DeclaredProbeDone, AgentReadDone
<1>2. PICK q \in agent[n].mine :
         /\ \/ /\ agent[n].at = "probes"
               /\ Set(n, [agent[n] EXCEPT !.mine = {}])
            \/ Set(n, [agent[n] EXCEPT !.mine = @ \ {q},
                                       !.at = IF agent[n].mine = {q} THEN "ask" ELSE "read"])
         /\ \E r \in Results[q] :
               /\ memory' = Completed(memory, q, r[1] = "ok")
               /\ running' = running \ {q}
               /\ got' = IF r[1] = "ok" THEN got \cup {q} ELSE got
  BY DEF DeclaredProbeDone, AgentReadDone
<1>3. PICK r \in Results[q] :
         /\ memory' = Completed(memory, q, r[1] = "ok")
         /\ running' = running \ {q}
         /\ got' = IF r[1] = "ok" THEN got \cup {q} ELSE got
  BY <1>2
<1> DEFINE status == r[1]
           e1 == [agent[n] EXCEPT !.mine = {}]
           e2 == [agent[n] EXCEPT !.mine = @ \ {q},
                                  !.at = IF agent[n].mine = {q} THEN "ask" ELSE "read"]
<1>4. e1.mine \subseteq agent[n].mine \ {q} /\ e2.mine \subseteq agent[n].mine \ {q}
  BY AgentFields DEF AgentState
<1>5. Set(n, e1) \/ Set(n, e2)
  BY <1>2
<1>6. /\ memory' = Completed(memory, q, status = "ok") /\ running' = running \ {q}
      /\ got' = IF status = "ok" THEN got \cup {q} ELSE got
  BY <1>3
<1> HIDE DEF status, e1, e2
<1>7. CASE Set(n, e1)
  BY <1>1, <1>4, <1>6, <1>7, AgentReads
<1>8. CASE Set(n, e2)
  BY <1>1, <1>4, <1>6, <1>8, AgentReads
<1> QED
  BY <1>5, <1>7, <1>8

\* The agents start, or end, or the stage goes on with what it has.
LEMMA StageSteps ==
    ASSUME BInv, UNCHANGED <<pass, late, asked, wanted, held, loop, scopeOf>>,
           UNCHANGED <<memory, tries, got>>, running' = {}, evidence' = evidence \/ phase' = "over",
           \/ /\ phase = "handed" /\ phase' = "drill" /\ pass = 1
              /\ \A n \in Names : agent'[n].mine = {}
           \/ phase = "drill" /\ phase' = "settled"
           \/ phase \in {"handed", "raised", "settled"} /\ phase' = "over"
    PROVE  BInv'
<1>1. /\ wanted = {} /\ held = {} /\ running \subseteq Reads
      /\ phase # "drill" => running = {}
      /\ phase = "drill" => running \subseteq Queries
  BY DEF BInv, PInv
<1>2. TInv'
  BY DEF BInv, TInv, Phases
<1>3. PInv'
  BY <1>1 DEF PInv
<1>4. ASSUME NEW r \in Reads PROVE Receipted(r)' /\ Counted(r)' /\ Waiting(r)'
  <2>1. Receipted(r) /\ Counted(r) /\ Waiting(r)
    BY DEF BInv, RInv
  <2>2. ~InFlight(r)' /\ (Busy(r)' <=> Busy(r))
    BY DEF InFlight, Busy
  <2>3. Receipted(r)'
    BY <1>1, <2>1, <2>2 DEF Receipted
  <2>4. Counted(r)'
    BY <2>1, <2>2 DEF Counted
  <2> QED
    BY <2>3, <2>4 DEF Waiting
<1>5. ASSUME NEW n \in Names PROVE Untouched(n)' /\ Excused(n)'
  <2>1. Untouched(n) /\ W(n) \notin Queries
    BY Kinds DEF BInv, UInv
  <2>2. W(n) \notin running
    BY <1>1, <2>1
  <2>3. Untouched(n)'
    BY <2>1, <2>2 DEF Untouched, Left, InRounds
  <2> QED
    BY <2>3 DEF Excused, Closing
<1>6. FInv'
  BY DEF BInv, FInv, Clean, InRounds
<1> QED
  BY <1>2, <1>3, <1>4, <1>5, <1>6 DEF BInv, RInv, UInv

LEMMA StageStepsTaken ==
    ASSUME AInv, BInv, StartDrilldowns \/ DrilldownsEnd \/ Adopt \/ KeepFirst \/ GoOn
    PROVE  BInv'
<1>1. phase \in {"handed", "raised", "settled"} => running = {}
  BY DEF BInv, PInv
<1>2. CASE StartDrilldowns
  <2>1. ASSUME NEW n \in Names PROVE agent'[n].mine = {}
    BY <1>2 DEF StartDrilldowns, NoAgent
  <2> QED
    BY <1>1, <1>2, <2>1, StageSteps DEF StartDrilldowns, readVars, takenVars, roundVars
<1>3. CASE DrilldownsEnd
  BY <1>3, StageSteps DEF DrilldownsEnd, takenVars, roundVars
<1>4. CASE Adopt
  BY <1>1, <1>4, StageSteps DEF Adopt, readVars, roundVars
<1>5. CASE KeepFirst
  BY <1>1, <1>5, StageSteps DEF KeepFirst, readVars, roundVars
<1>6. CASE GoOn
  BY <1>1, <1>6, StageSteps DEF GoOn, readVars, takenVars, roundVars
<1> QED
  BY <1>2, <1>3, <1>4, <1>5, <1>6

\* The re-analysis starts in time, over what was answered and remembered as read.
LEMMA ReanalyzeStep ==
    ASSUME BInv, Reanalyze
    PROVE  BInv'
<1> DEFINE answered == {n \in Names : evidence[n].status \in Usable}
           S == {<<n, Effective[Whole]>> : n \in answered}
<1>1. /\ phase = "settled" /\ pass = 1 /\ late = FALSE /\ pass' = 2 /\ phase' = "decide"
      /\ scopeOf' = [n \in Names |-> IF n \in answered THEN Effective[Whole] ELSE Absent]
      /\ memory' = Remembered(memory, S)
      /\ loop' = "decide" /\ wanted' = {} /\ held' = {} /\ asked' = {}
      /\ UNCHANGED <<late, suff, running, tries, got, evidence>>
  BY DEF Reanalyze, FreshRounds, BInv, TInv
<1>2. running = {} /\ memory \in [Reads -> Receipt]
  BY <1>1 DEF BInv, PInv, TInv
<1>3. Effective[Whole] \in Scopes
  BY InvestigationAssumption
<1>4. S \subseteq Probes /\ \A n \in Names : W(n) \in S => ~Left(n)
  <2>1. \A n \in Names : W(n) \in S => n \in answered
    BY DEF W
  <2> QED
    BY <1>3, <2>1 DEF Probes, Left, Usable, Absent
<1> HIDE DEF S, answered
<1>5. /\ memory' \in [Reads -> Receipt]
      /\ \A r \in Reads : r \notin S => memory'[r] = memory[r]
      /\ \A r \in Reads : r \in S => memory'[r].status = "succeeded" /\ memory'[r].attempts = 1
  BY <1>1, <1>2, RememberedAt
<1>6. TInv'
  <2>1. scopeOf' \in [Names -> Scopes \cup {Absent}]
    BY <1>1, <1>3
  <2> QED
    BY <1>1, <1>5, <2>1 DEF BInv, TInv, Phases, InRounds
<1>7. PInv'
  BY <1>1, <1>2 DEF PInv
<1>8. ASSUME NEW r \in Reads PROVE Receipted(r)' /\ Counted(r)' /\ Waiting(r)'
  <2>1. Receipted(r) /\ Counted(r)
    BY DEF BInv, RInv
  <2>2. ~InFlight(r)'
    BY <1>1, <1>2 DEF InFlight
  <2>3. Waiting(r)'
    BY <1>1 DEF Waiting
  <2>4. CASE r \in S
    <3>1. memory'[r].status = "succeeded" /\ memory'[r].attempts = 1
      BY <1>5, <2>4
    <3>2. Receipted(r)' /\ Counted(r)'
      BY <1>1, <1>2, <2>2, <3>1 DEF Receipted, Counted, Busy
    <3> QED
      BY <2>3, <3>2
  <2>5. CASE r \notin S
    <3>1. memory'[r] = memory[r]
      BY <1>5, <2>5
    <3>2. Receipted(r)' /\ Counted(r)'
      BY <1>1, <1>2, <2>1, <2>2, <3>1 DEF Receipted, Counted, Busy
    <3> QED
      BY <2>3, <3>2
  <2> QED
    BY <2>4, <2>5
<1>9. ASSUME NEW n \in Names PROVE Untouched(n)' /\ Excused(n)'
  <2>1. Untouched(n) /\ W(n) \in Reads
    BY Kinds DEF BInv, UInv
  <2>2. CASE Left(n)
    <3>1. memory'[W(n)] = memory[W(n)]
      BY <1>4, <1>5, <2>1, <2>2
    <3> QED
      BY <1>1, <1>2, <2>1, <2>2, <3>1 DEF Untouched, Left, Excused, Closing
  <2>3. CASE ~Left(n)
    BY <1>1, <2>3 DEF Untouched, Left, Excused, Closing
  <2> QED
    BY <2>2, <2>3
<1>10. FInv'
  BY <1>1 DEF BInv, FInv, Clean, InRounds
<1> QED
  BY <1>6, <1>7, <1>8, <1>9, <1>10 DEF BInv, RInv, UInv

LEMMA BInvKept ==
    ASSUME BInv, UNCHANGED allVars
    PROVE  BInv'
<1>1. /\ UNCHANGED <<phase, pass, late, loop, wanted, held, asked>>
      /\ UNCHANGED <<memory, running, tries, got, evidence, scopeOf, cards, suff, agent>>
  BY DEF allVars, vars, readVars, takenVars, roundVars, drillVars
<1>2. TInv'
  BY <1>1 DEF BInv, TInv
<1>6. PInv'
  BY <1>1 DEF BInv, PInv, Left
<1>3. RInv'
  BY <1>1 DEF BInv, RInv, Receipted, Counted, Waiting, InFlight, Busy
<1>4. UInv'
  BY <1>1 DEF BInv, UInv, Untouched, Excused, Left
<1>5. FInv'
  <2>1. Grounded' <=> Grounded
    BY <1>1 DEF Grounded, Board
  <2> QED
    BY <1>1, <2>1 DEF BInv, FInv, Clean, NeedsFloor
<1> QED
  BY <1>2, <1>3, <1>4, <1>5, <1>6 DEF BInv

LEMMA BInvStep ==
    ASSUME AInv, BInv, [Next]_allVars
    PROVE  BInv'
<1>1. CASE UNCHANGED allVars \/ Done
  BY <1>1, BInvKept DEF Done
<1>2. CASE InvestigationNext /\ UNCHANGED drillVars
  BY <1>2, InvestigationStep
<1>3. CASE StartDrilldowns \/ DrilldownsEnd \/ Adopt \/ KeepFirst \/ GoOn
  BY <1>3, StageStepsTaken
<1>4. CASE Reanalyze
  BY <1>4, ReanalyzeStep
<1>5. ASSUME NEW n \in Names, DeclaredProbe(n) \/ ProbesOver(n) \/ StopAsking(n)
      PROVE  BInv'
  BY <1>5, DeclaredProbeClaims, AgentsRest
<1>6. ASSUME NEW n \in Names, DeclaredProbeDone(n) \/ AskAgent(n) \/ AgentReadDone(n)
      PROVE  BInv'
  BY <1>6, AgentAnswers, AskAgentClaims
<1> QED
  BY <1>1, <1>2, <1>3, <1>4, <1>5, <1>6 DEF Next, DrillControl, DrillReplies

\* Whatever its model claims, the investigator hands over without a collector
\* only for observations that ground a hypothesis, or because the budget cut it.
THEOREM NothingSkippedUngroundedHolds == Spec => []NothingSkippedUngrounded
<1>1. BInv => NothingSkippedUngrounded
  <2>1. SUFFICES ASSUME BInv, phase = "handed", NEW n \in Unseen
                 PROVE  Grounded \/ (late /\ memory[<<n, Whole>>].status = "running")
    BY DEF NothingSkippedUngrounded
  <2>2. n \in Names /\ Left(n)
    BY DEF Unseen, Left
  <2>3. Excused(n) /\ FInv
    BY <2>1, <2>2 DEF BInv, UInv
  <2> QED
    BY <2>1, <2>2, <2>3 DEF Excused, Closing, FInv, W
<1>2. DrillInit => AInv /\ BInv
  BY AInvInit, BInvInit
<1>3. AInv /\ BInv /\ [Next]_allVars => (AInv /\ BInv)'
  BY AInvStep, BInvStep
<1> QED
  BY <1>1, <1>2, <1>3, PTL DEF Spec

-----------------------------------------------------------------------------
(* No read is started twice, or too often *)

Bounded(r) == tries'[r] > tries[r] => r \notin running \cup got /\ tries'[r] <= MaxAttempts

LEMMA FreeStarts ==
    ASSUME BInv, NEW S, S \subseteq Reads, Starts(S),
           \A r \in S : r \notin running /\ r \notin got /\ tries[r] < MaxAttempts
    PROVE  \A r \in Reads : Bounded(r)
<1>1. tries \in [Reads -> Nat]
  BY DEF BInv, TInv
<1>2. \A r \in Reads : tries'[r] = IF r \in S THEN tries[r] + 1 ELSE tries[r]
  BY <1>1, StartsAt
<1> QED
  BY <1>1, <1>2, InvestigationAssumption DEF Bounded

LEMMA ClaimedStarts ==
    ASSUME BInv, phase \in InRounds \/ (phase = "drill" /\ ~late),
           NEW S, S \subseteq Reads, Starts(S), \A r \in S : MayClaim(memory, r),
           S \subseteq Probes \/ pass = 1
    PROVE  \A r \in Reads : Bounded(r)
<1>1. ASSUME NEW r \in S
      PROVE  r \notin running /\ r \notin got /\ tries[r] < MaxAttempts
  <2>1. /\ r \notin running /\ r \notin got /\ tries[r] \in Nat /\ memory[r].attempts \in Nat
        /\ tries[r] <= memory[r].attempts /\ memory[r].attempts < MaxAttempts
    BY ClaimFree
  <2> QED
    BY <2>1, InvestigationAssumption
<1> QED
  BY <1>1, FreeStarts

LEMMA LaunchIsBounded ==
    ASSUME BInv, phase \in {"wide", "decide", "verify"},
           NEW ps, ps \subseteq Probes, NEW qs, Launch(ps, qs)
    PROVE  \A r \in Reads : Bounded(r)
<1> DEFINE started == {p \in ps : MayClaim(memory, p)}
<1>1. Starts(started)
  BY DEF Launch
<1>2. started \subseteq Probes /\ started \subseteq Reads /\ \A p \in started : MayClaim(memory, p)
  BY Kinds
<1> HIDE DEF started
<1> QED
  BY <1>1, <1>2, ClaimedStarts DEF InRounds

LEMMA NoStarts ==
    ASSUME BInv, tries' = tries
    PROVE  \A r \in Reads : Bounded(r)
<1>1. \A r \in Reads : tries[r] \in Nat
  BY DEF BInv, TInv
<1> QED
  BY <1>1 DEF Bounded

LEMMA RoundsAreBounded ==
    ASSUME BInv, WideProbes \/ \E a \in Answers[pass] : Decide(a) \/ Verify(a)
    PROVE  \A r \in Reads : Bounded(r)
<1>1. CASE WideProbes
  <2>1. phase = "wide" /\ Launch({<<n, Whole>> : n \in Names}, {})
    BY <1>1 DEF WideProbes
  <2>2. {<<n, Whole>> : n \in Names} \subseteq Probes
    BY Kinds DEF W
  <2> QED
    BY <2>1, <2>2, LaunchIsBounded
<1>2. ASSUME NEW a \in Answers[pass], Decide(a) \/ Verify(a)
      PROVE  \A r \in Reads : Bounded(r)
  <2>1. /\ phase \in {"decide", "verify"}
        /\ \/ Launch(Fresh(a.probes), Accepted(a.queries))
           \/ \E n \in Unseen : Launch({<<n, Whole>>}, {})
           \/ tries' = tries
    BY <1>2 DEF Decide, Verify, Idle, readVars
  <2>2. Fresh(a.probes) \subseteq Probes
    BY InvestigationAssumption DEF Fresh, Probes, BInv, TInv
  <2>3. CASE Launch(Fresh(a.probes), Accepted(a.queries))
    BY <2>1, <2>2, <2>3, LaunchIsBounded
  <2>4. ASSUME NEW n \in Unseen, Launch({<<n, Whole>>}, {})
        PROVE  \A r \in Reads : Bounded(r)
    <3>1. {<<n, Whole>>} \subseteq Probes
      BY <2>4, Kinds DEF W, Unseen
    <3> QED
      BY <2>1, <2>4, <3>1, LaunchIsBounded
  <2> QED
    BY <2>1, <2>3, <2>4, NoStarts
<1> QED
  BY <1>1, <1>2

\* The queries of a round start after its probes, on the claims of their choice.
LEMMA QueriesAreBounded ==
    ASSUME BInv, ProbesDone
    PROVE  \A r \in Reads : Bounded(r)
<1>1. phase = "probe" /\ running = {} /\ (tries' = tries \/ Starts(wanted))
  BY DEF ProbesDone
<1>2. wanted \subseteq Reads
  BY Kinds DEF BInv, TInv
<1>3. \A r \in wanted : r \notin running /\ r \notin got /\ tries[r] < MaxAttempts
  BY <1>1, <1>2 DEF BInv, RInv, Receipted, Waiting
<1> QED
  BY <1>1, <1>2, <1>3, FreeStarts, NoStarts

LEMMA GatherIsBounded ==
    ASSUME BInv, FinalGather
    PROVE  \A r \in Reads : Bounded(r)
<1> DEFINE left == IF suff' THEN {} ELSE {<<n, Whole>> : n \in Unseen}
           run == {p \in left : MayClaim(memory, p)}
<1>1. phase = "final" /\ Starts(run)
  BY DEF FinalGather
<1>2. left \subseteq Probes
  BY Kinds DEF W, Unseen
<1>3. run \subseteq Probes /\ run \subseteq Reads /\ \A r \in run : MayClaim(memory, r)
  BY <1>2, Kinds
<1> HIDE DEF run
<1> QED
  BY <1>1, <1>3, ClaimedStarts DEF InRounds

\* The floor reads without a claim what was started once and has not succeeded.
LEMMA FloorIsBounded ==
    ASSUME BInv, Floor
    PROVE  \A r \in Reads : Bounded(r)
<1>1. phase = "floor" /\ (tries' = tries \/ (NeedsFloor /\ Starts({W(Kubernetes)})))
  BY DEF Floor, W
<1>2. CASE NeedsFloor /\ Starts({W(Kubernetes)})
  <2>1. /\ Kubernetes \in Names /\ W(Kubernetes) \in Reads /\ running = {}
        /\ tries[W(Kubernetes)] <= 1 /\ W(Kubernetes) \notin got
    BY <1>1, <1>2, Kinds DEF NeedsFloor, BInv, FInv, PInv
  <2>2. tries[W(Kubernetes)] \in Nat
    BY <2>1 DEF BInv, TInv
  <2>3. tries[W(Kubernetes)] < MaxAttempts
    BY <2>1, <2>2, InvestigationAssumption
  <2> QED
    BY <1>2, <2>1, <2>3, FreeStarts
<1> QED
  BY <1>1, <1>2, NoStarts

LEMMA AgentsAreBounded ==
    ASSUME AInv, BInv, NEW n \in Names, DeclaredProbe(n) \/ AskAgent(n)
    PROVE  \A r \in Reads : Bounded(r)
<1>1. phase = "drill" /\ ~late /\ pass = 1
  BY DEF DeclaredProbe, AskAgent, BInv, PInv
<1>2. CASE DeclaredProbe(n)
  <2>1. PICK q \in agent[n].todo : (MayClaim(memory, q) /\ Starts({q})) \/ tries' = tries
    BY <1>2 DEF DeclaredProbe, readVars
  <2>2. {q} \subseteq Reads
    BY <2>1, AgentFields, Kinds
  <2> QED
    BY <1>1, <2>1, <2>2, ClaimedStarts, NoStarts
<1>3. CASE AskAgent(n)
  <2>1. PICK qs \in SUBSET Optional[n] :
           Starts({q \in qs \ agent[n].done : MayClaim(memory, q)})
    BY <1>3 DEF AskAgent
  <2> DEFINE run == {q \in qs \ agent[n].done : MayClaim(memory, q)}
  <2>2. run \subseteq Reads /\ \A q \in run : MayClaim(memory, q)
    BY DrillAssumption, Kinds
  <2>3. Starts(run)
    BY <2>1
  <2> HIDE DEF run
  <2> QED
    BY <1>1, <2>2, <2>3, ClaimedStarts
<1> QED
  BY <1>2, <1>3

LEMMA InvestigationIsBounded ==
    ASSUME BInv, InvestigationNext
    PROVE  \A r \in Reads : Bounded(r)
<1>1. CASE Control
  <2>1. \/ WideProbes \/ ProbesDone \/ FinalGather \/ Floor
        \/ tries' = tries
    BY <1>1 DEF Control, LeaveDecisions, LeaveVerification, ProbesCut, QueriesCut, QueriesDone,
       TurnEnds, SkipReflection, NoReflection, GatherEnds, FloorTimesOut, Finish, readVars
  <2> QED
    BY <2>1, RoundsAreBounded, QueriesAreBounded, GatherIsBounded, FloorIsBounded, NoStarts
<1>2. CASE Replies
  <2>1. (\E a \in Answers[pass] : Decide(a) \/ Verify(a)) \/ tries' = tries
    BY <1>2 DEF Replies, NoDecision, NoReflection, Reflect, ProbeDone, QueryDone, GatherDone,
       FloorDone, TakeIn, readVars
  <2> QED
    BY <2>1, RoundsAreBounded, NoStarts
<1>3. CASE Deadline
  BY <1>3, NoStarts DEF Deadline, readVars
<1> QED
  BY <1>1, <1>2, <1>3 DEF InvestigationNext

\* No two evidence paths start a read that is in flight or has succeeded, and
\* none is started more often than a receipt allows, whatever the models ask for.
THEOREM ReadsAreBoundedHolds == Spec => ReadsAreBounded
<1>1. ASSUME AInv, BInv, [Next]_allVars PROVE \A r \in Reads : Bounded(r)
  <2>1. CASE UNCHANGED allVars \/ Done
    BY <1>1, <2>1, NoStarts DEF Done, allVars, vars, readVars
  <2>2. CASE InvestigationNext
    BY <1>1, <2>2, InvestigationIsBounded
  <2>3. CASE StartDrilldowns \/ DrilldownsEnd \/ Adopt \/ KeepFirst \/ GoOn \/ Reanalyze
    BY <1>1, <2>3, NoStarts DEF StartDrilldowns, DrilldownsEnd, Adopt, KeepFirst, GoOn, Reanalyze,
       readVars
  <2>4. ASSUME NEW n \in Names,
               DeclaredProbe(n) \/ ProbesOver(n) \/ StopAsking(n) \/ DeclaredProbeDone(n)
                 \/ AskAgent(n) \/ AgentReadDone(n)
        PROVE  \A r \in Reads : Bounded(r)
    <3>1. DeclaredProbe(n) \/ AskAgent(n) \/ tries' = tries
      BY <2>4 DEF ProbesOver, StopAsking, DeclaredProbeDone, AgentReadDone, readVars
    <3> QED
      BY <1>1, <3>1, AgentsAreBounded, NoStarts
  <2> QED
    BY <1>1, <2>1, <2>2, <2>3, <2>4 DEF Next, DrillControl, DrillReplies
<1>2. AInv /\ BInv /\ [Next]_allVars => (AInv /\ BInv)'
  BY AInvStep, BInvStep
<1>3. DrillInit => AInv /\ BInv
  BY AInvInit, BInvInit
<1> QED
  BY <1>1, <1>2, <1>3, PTL DEF Spec, ReadsAreBounded, Bounded

-----------------------------------------------------------------------------
(* What the gaps of a collector tell *)

\* The history of a collector has not reached its cap: no record was dropped.
Uncut(n) == Len(evidence[n].history) < HistoryCap

\* The records the next merge goes by; without a history, the one it makes up.
FirstRecord(n) == [scope  |-> IF scopeOf[n] = Absent THEN Whole ELSE scopeOf[n],
                   status |-> evidence[n].status, gaps |-> evidence[n].gaps]
Records(n) == IF evidence[n].history # <<>> THEN evidence[n].history
              ELSE IF Left(n) THEN <<>> ELSE <<FirstRecord(n)>>

GapsOf(s, st) == IF st = "ok" THEN {} ELSE {s}
Latest(h, s, st) ==
    \E i \in DOMAIN h : /\ h[i].scope = s /\ h[i].status = st
                        /\ \A j \in DOMAIN h : h[j].scope = s => j <= i

\* What a merge goes by: the newest record of each scope, and their gaps.
Newest(h) == {h[i] : i \in {i \in DOMAIN h : \A j \in DOMAIN h : h[j].scope = h[i].scope => j <= i}}
GapsIn(h) == UNION {r.gaps : r \in Newest(h)}

\* The latest record of a scope has its last answer, and the gap of that answer.
Plain(h) == \A i \in DOMAIN h : h[i].gaps = GapsOf(h[i].scope, h[i].status)
Told(h, s, st) == IF st = Absent THEN \A i \in DOMAIN h : h[i].scope # s ELSE Latest(h, s, st)
Tells(h, n) == Plain(h) /\ \A s \in Scopes : Told(h, s, outcome[<<n, s>>])

Unanswered(n) == {s \in Scopes : outcome[<<n, s>>] \notin {Absent, "ok"}}
Gapped(n) == /\ evidence[n].gaps = Unanswered(n)
             /\ Unanswered(n) # {} => evidence[n].status # "ok"
Silent(n) == \A s \in Scopes : outcome[<<n, s>>] = Absent

\* In the first pass: a collector without a result, or cut by the budget, has
\* answered nothing; of one with answers the gaps are those still unanswered.
Heard(n) ==
    /\ Left(n) \/ "analysis_budget" \in evidence[n].gaps => Silent(n)
    /\ phase \in InRounds /\ Uncut(n) => Tells(Records(n), n)
    /\ Uncut(n) => Gapped(n) \/ Silent(n)
GInv ==
    pass = 1 =>
        /\ outcome \in [Probes -> Answer \cup {Absent}]
        /\ \A n \in Names : Heard(n)
        /\ phase = "flooring" => Silent(Kubernetes)

LEMMA GInvInit ==
    ASSUME DrillInit
    PROVE  GInv
<1>1. /\ phase \in {"wide", "decide"} /\ outcome = [p \in Probes |-> Absent]
      /\ evidence = [n \in Names |-> NoEvidence]
  BY DEF DrillInit, Init
<1>2. ASSUME NEW n \in Names PROVE Silent(n) /\ Left(n) /\ Records(n) = <<>>
  BY <1>1 DEF Silent, Left, NoEvidence, Records, Probes
<1>3. ASSUME NEW n \in Names PROVE Heard(n)
  BY <1>2 DEF Heard, Tells, Plain, Told, Silent
<1> QED
  BY <1>1, <1>3 DEF GInv

\* A step that takes in no answer.
LEMMA GapsRest ==
    ASSUME GInv, UNCHANGED <<pass, evidence, scopeOf, outcome>>,
           phase' \in InRounds => phase \in InRounds,
           phase' = "flooring" => phase = "flooring" \/ (pass = 1 => Silent(Kubernetes))
    PROVE  GInv'
<1>1. SUFFICES ASSUME pass = 1 PROVE GInv'
  BY DEF GInv
<1>2. ASSUME NEW n \in Names PROVE Heard(n)'
  <2>1. Heard(n)
    BY <1>1 DEF GInv
  <2>2. (Silent(n)' <=> Silent(n)) /\ Records(n)' = Records(n) /\ (Uncut(n)' <=> Uncut(n))
        /\ (Gapped(n)' <=> Gapped(n)) /\ (Left(n)' <=> Left(n))
    BY DEF Silent, Records, Uncut, Gapped, Unanswered, Left, FirstRecord
  <2>3. Tells(Records(n), n) => Tells(Records(n), n)'
    BY <2>2 DEF Tells, Told, Plain, Latest
  <2> QED
    BY <2>1, <2>2, <2>3 DEF Heard
<1>3. Silent(Kubernetes) => Silent(Kubernetes)'
  BY DEF Silent
<1> QED
  BY <1>1, <1>2, <1>3 DEF GInv

\* One answer more: of its own scope it is the latest, the others keep theirs.
LEMMA LatestAppended ==
    ASSUME NEW h \in Seq(Record(Scopes)), NEW x \in Record(Scopes), NEW s \in Scopes, NEW st
    PROVE  /\ Latest(Append(h, x), x.scope, x.status)
           /\ s # x.scope => (Told(h, s, st) => Told(Append(h, x), s, st))
<1>1. /\ DOMAIN h = 1..Len(h) /\ Len(h) \in Nat
      /\ DOMAIN Append(h, x) = 1..(Len(h) + 1)
      /\ Append(h, x)[Len(h) + 1] = x
      /\ \A i \in 1..Len(h) : Append(h, x)[i] = h[i]
  BY AppendProperties, LenProperties
<1>2. Latest(Append(h, x), x.scope, x.status)
  BY <1>1 DEF Latest
<1>3. ASSUME s # x.scope, Told(h, s, st)
      PROVE  Told(Append(h, x), s, st)
  <2>1. CASE st = Absent
    BY <1>1, <1>3, <2>1 DEF Told
  <2>2. CASE st # Absent
    <3>1. PICK i \in 1..Len(h) : /\ h[i].scope = s /\ h[i].status = st
                                 /\ \A j \in 1..Len(h) : h[j].scope = s => j <= i
      BY <1>1, <1>3, <2>2 DEF Told, Latest
    <3>2. \A j \in 1..(Len(h) + 1) : Append(h, x)[j].scope = s => j <= i
      BY <1>1, <1>3, <3>1
    <3> QED
      BY <1>1, <2>2, <3>1, <3>2 DEF Told, Latest
  <2> QED
    BY <2>1, <2>2
<1> QED
  BY <1>2, <1>3

\* The gaps of the latest records are the scopes whose last answer is no "ok".
LEMMA LatestGaps ==
    ASSUME NEW h \in Seq(Record(Scopes)), NEW last \in [Scopes -> Answer \cup {Absent}],
           Plain(h), \A s \in Scopes : Told(h, s, last[s])
    PROVE  GapsIn(h) = {s \in Scopes : last[s] \notin {Absent, "ok"}}
<1> DEFINE new == {i \in DOMAIN h : \A j \in DOMAIN h : h[j].scope = h[i].scope => j <= i}
           latest == {h[i] : i \in new}
<1>1. DOMAIN h = 1..Len(h) /\ Len(h) \in Nat /\ \A i \in DOMAIN h : h[i].scope \in Scopes
  <2>1. DOMAIN h = 1..Len(h) /\ Len(h) \in Nat
    BY LenProperties
  <2>2. \A i \in DOMAIN h : h[i] \in Record(Scopes)
    BY <2>1
  <2> QED
    BY <2>1, <2>2 DEF Record
<1>2. ASSUME NEW i \in new
      PROVE  h[i].status = last[h[i].scope] /\ h[i].gaps = GapsOf(h[i].scope, last[h[i].scope])
             /\ last[h[i].scope] # Absent
  <2>1. Told(h, h[i].scope, last[h[i].scope])
    BY <1>1
  <2>2. Latest(h, h[i].scope, last[h[i].scope]) /\ last[h[i].scope] # Absent
    BY <2>1 DEF Told
  <2>3. PICK k \in DOMAIN h : /\ h[k].scope = h[i].scope /\ h[k].status = last[h[i].scope]
                              /\ \A j \in DOMAIN h : h[j].scope = h[i].scope => j <= k
    BY <2>2 DEF Latest
  <2>4. k = i
    BY <1>1, <2>3
  <2> QED
    BY <2>2, <2>3, <2>4 DEF Plain
<1>3. ASSUME NEW s \in Scopes, last[s] \notin {Absent, "ok"}
      PROVE  \E i \in new : s \in h[i].gaps
  <2>1. Latest(h, s, last[s])
    BY <1>3 DEF Told
  <2>2. PICK k \in DOMAIN h : /\ h[k].scope = s /\ h[k].status = last[s]
                              /\ \A j \in DOMAIN h : h[j].scope = s => j <= k
    BY <2>1 DEF Latest
  <2>3. h[k].gaps = {s}
    BY <1>3, <2>2 DEF Plain, GapsOf
  <2> QED
    BY <2>2, <2>3
<1>4. ASSUME NEW i \in new, NEW s \in h[i].gaps
      PROVE  s \in Scopes /\ last[s] \notin {Absent, "ok"}
  BY <1>1, <1>2 DEF GapsOf
<1> HIDE DEF new
<1>5. UNION {r.gaps : r \in latest} = {s \in Scopes : last[s] \notin {Absent, "ok"}}
  BY <1>3, <1>4
<1> QED
  BY <1>5 DEF new, GapsIn, Newest

\* A merge below the cap appends to the records it goes by and drops none.
Before(old, oldScope) ==
    IF old.history = <<>>
    THEN <<[scope  |-> IF oldScope = Absent THEN Whole ELSE oldScope,
            status |-> old.status, gaps |-> old.gaps]>>
    ELSE old.history
Entry(s, st) == [scope |-> s, status |-> st, gaps |-> GapsOf(s, st)]

LEMMA MergedUncut ==
    ASSUME NEW old \in Evidenced(Scopes), old.status # Absent,
           NEW oldScope \in Scopes \cup {Absent}, NEW st \in Answer, NEW s \in Scopes,
           NEW new, new = Merged(old, oldScope, st, s), Len(new.history) < HistoryCap
    PROVE  /\ Before(old, oldScope) \in Seq(Record(Scopes)) /\ Len(old.history) < HistoryCap
           /\ new.history = Append(Before(old, oldScope), Entry(s, st))
           /\ new.gaps = GapsIn(new.history)
           /\ new.status = "ok" => new.gaps = {}
<1> DEFINE before == Before(old, oldScope)
           all == Append(before, Entry(s, st))
           kept == Max({1, Len(all) - HistoryCap + 1})
<1>1. Entry(s, st) \in Record(Scopes)
  BY DEF Entry, Record, Statuses, Answer, GapsOf
<1>2. before \in Seq(Record(Scopes)) /\ Len(before) \in Nat /\ Len(old.history) \in Nat
      /\ Len(old.history) <= Len(before)
  <2>1. old.history \in Seq(Record(Scopes)) /\ Len(old.history) \in Nat
    BY LenProperties DEF Evidenced
  <2>2. CASE old.history # <<>>
    BY <2>1, <2>2 DEF Before
  <2>3. CASE old.history = <<>>
    <3> DEFINE first == [scope |-> IF oldScope = Absent THEN Whole ELSE oldScope,
                         status |-> old.status, gaps |-> old.gaps]
    <3>1. first \in Record(Scopes)
      BY InvestigationAssumption DEF Record, Evidenced
    <3>2. before = <<first>>
      BY <2>3 DEF Before
    <3> HIDE DEF first, before
    <3> QED
      BY <2>1, <2>3, <3>1, <3>2
  <2> QED
    BY <2>2, <2>3
<1> HIDE DEF before
<1>3. all \in Seq(Record(Scopes)) /\ Len(all) = Len(before) + 1
  BY <1>1, <1>2, AppendProperties
<1>4. PICK stat : /\ new = [status |-> stat, gaps |-> GapsIn(all),
                           history |-> SubSeq(all, kept, Len(all))]
                  /\ stat = "ok" => GapsIn(all) = {}
  <2> DEFINE stat == IF GapsIn(all) = {} /\ \A r \in Newest(all) : r.status = "ok" THEN "ok"
                     ELSE IF \E i \in DOMAIN all : all[i].status \in Usable
                     THEN "partial" ELSE "unavailable"
  <2>1. Merged(old, oldScope, st, s) = [status |-> stat, gaps |-> GapsIn(all),
                                        history |-> SubSeq(all, kept, Len(all))]
    BY DEF Merged, before, Before, Entry, GapsOf, GapsIn, Newest
  <2> HIDE DEF all, kept
  <2>2. stat = "ok" => GapsIn(all) = {}
    OBVIOUS
  <2> HIDE DEF stat
  <2> QED
    BY <2>1, <2>2
<1> HIDE DEF all
<1>5. kept = 1 /\ Len(all) < HistoryCap
  <2>1. /\ kept \in {1, Len(all) - HistoryCap + 1} /\ kept >= 1
        /\ kept >= Len(all) - HistoryCap + 1
    <3>1. PICK m \in {1, Len(all) - HistoryCap + 1} : \A y \in {1, Len(all) - HistoryCap + 1} : m >= y
      BY <1>2, <1>3, InvestigationAssumption
    <3> QED
      BY <3>1, <1>2, <1>3, InvestigationAssumption DEF Max
  <2> HIDE DEF kept
  <2>2. kept \in 1..Len(all)
    BY <2>1, <1>2, <1>3, InvestigationAssumption
  <2>3. Len(new.history) = Len(all) - kept + 1
    <3>1. Len(SubSeq(all, kept, Len(all))) = IF kept <= Len(all) THEN Len(all) - kept + 1 ELSE 0
      BY <1>2, <1>3, <2>2, SubSeqProperties
    <3> QED
      BY <1>2, <1>3, <1>4, <2>2, <3>1
  <2> QED
    BY <1>2, <1>3, <2>1, <2>2, <2>3, InvestigationAssumption
<1> HIDE DEF kept
<1>6. new.history = all
  <2>1. SubSeq(all, 1, Len(all)) = all
    BY <1>3
  <2> QED
    BY <1>4, <1>5, <2>1
<1>7. Len(old.history) < HistoryCap
  BY <1>2, <1>3, <1>5, InvestigationAssumption
<1>8. all = Append(Before(old, oldScope), Entry(s, st))
  BY DEF all, before
<1>9. new.gaps = GapsIn(all) /\ (new.status = "ok" => new.gaps = {})
  BY <1>4
<1>10. Before(old, oldScope) \in Seq(Record(Scopes))
  BY <1>2 DEF before
<1> QED
  BY <1>6, <1>7, <1>8, <1>9, <1>10

LEMMA ProbeDoneGaps ==
    ASSUME GInv, BInv, ProbeDone
    PROVE  GInv'
<1>1. SUFFICES ASSUME pass = 1 PROVE GInv'
  BY DEF GInv, ProbeDone
<1>2. /\ phase = "probe" /\ running \subseteq Probes /\ phase' = "probe" /\ pass' = 1
      /\ scopeOf \in [Names -> Scopes \cup {Absent}]
      /\ outcome \in [Probes -> Answer \cup {Absent}] /\ \A n \in Names : Heard(n)
      /\ evidence \in [Names -> Evidenced(Scopes)]
  BY <1>1 DEF ProbeDone, BInv, PInv, TInv, FInv, Clean, GInv, InRounds
<1>3. PICK p \in running : \E r \in Results[p] :
         /\ TakeIn(p, Merged(evidence[p[1]], scopeOf[p[1]], r[1], p[2]), r[1], r[2])
         /\ scopeOf' = [scopeOf EXCEPT ![p[1]] = p[2]]
  BY DEF ProbeDone
<1>4. PICK r \in Results[p] :
         /\ TakeIn(p, Merged(evidence[p[1]], scopeOf[p[1]], r[1], p[2]), r[1], r[2])
         /\ scopeOf' = [scopeOf EXCEPT ![p[1]] = p[2]]
  BY <1>3
<1>5. PICK n \in Names, s \in Scopes, st \in Answer : p = <<n, s>> /\ p \in Probes /\ st = r[1]
  BY <1>2, Kinds, InvestigationAssumption DEF Answer, Probes
<1>6. PICK new : new = Merged(evidence[n], scopeOf[n], st, s)
  OBVIOUS
<1>7. /\ evidence' = [evidence EXCEPT ![n] = new]
      /\ outcome' = [outcome EXCEPT ![<<n, s>>] = st]
      /\ scopeOf' = [scopeOf EXCEPT ![n] = s]
  BY <1>4, <1>5, <1>6 DEF TakeIn
<1>8. new \in Evidenced(Scopes) /\ new.status # Absent
  BY <1>2, <1>6, MergedTyped
<1>9. /\ outcome' \in [Probes -> Answer \cup {Absent}] /\ outcome'[<<n, s>>] = st
      /\ \A q \in Probes : q # <<n, s>> => outcome'[q] = outcome[q]
      /\ evidence'[n] = new /\ scopeOf'[n] = s
      /\ \A m \in Names : m # n => evidence'[m] = evidence[m] /\ scopeOf'[m] = scopeOf[m]
  BY <1>2, <1>5, <1>7
<1>10. ASSUME NEW m \in Names, m # n PROVE Heard(m)'
  <2>1. \A t \in Scopes : outcome'[<<m, t>>] = outcome[<<m, t>>]
    BY <1>9, <1>10 DEF Probes
  <2>2. (Silent(m)' <=> Silent(m)) /\ Records(m)' = Records(m) /\ (Uncut(m)' <=> Uncut(m))
        /\ (Gapped(m)' <=> Gapped(m)) /\ (Left(m)' <=> Left(m))
    BY <1>9, <1>10, <2>1 DEF Silent, Records, Uncut, Gapped, Unanswered, Left, FirstRecord
  <2>3. Tells(Records(m), m) => Tells(Records(m), m)'
    BY <2>1, <2>2 DEF Tells, Told, Plain, Latest
  <2> QED
    BY <1>2, <1>9, <1>10, <2>2, <2>3 DEF Heard
<1>11. Heard(n)'
  <2>1. ~Left(n)' /\ "analysis_budget" \notin evidence'[n].gaps
    BY <1>8, <1>9, InvestigationAssumption DEF Left, Evidenced
  <2>2. SUFFICES ASSUME Uncut(n)' PROVE Tells(Records(n), n)' /\ Gapped(n)'
    BY <2>1 DEF Heard
  <2>3. ASSUME NEW h, h = Records(n)', h \in Seq(Record(Scopes)), Plain(h),
               \A t \in Scopes : Told(h, t, outcome'[<<n, t>>]),
               new.gaps = GapsIn(h),
               new.status = "ok" => new.gaps = {}
        PROVE  Tells(Records(n), n)' /\ Gapped(n)'
    <3> DEFINE last == [t \in Scopes |-> outcome'[<<n, t>>]]
    <3>1. last \in [Scopes -> Answer \cup {Absent}] /\ \A t \in Scopes : last[t] = outcome'[<<n, t>>]
      BY <1>9 DEF Probes
    <3> HIDE DEF last
    <3>2. new.gaps = {t \in Scopes : last[t] \notin {Absent, "ok"}}
      BY <2>3, <3>1, LatestGaps
    <3>3. Gapped(n)'
      <4>1. Unanswered(n)' = new.gaps
        BY <3>1, <3>2 DEF Unanswered
      <4> QED
        BY <1>9, <2>3, <4>1 DEF Gapped
    <3>4. Tells(Records(n), n)'
      BY <2>3 DEF Tells, Plain, Told, Latest
    <3> QED
      BY <3>3, <3>4
  <2>4. PICK x : x = [scope |-> s, status |-> st, gaps |-> GapsOf(s, st)]
    OBVIOUS
  <2>5. x \in Record(Scopes) /\ x.scope = s /\ x.status = st /\ x.gaps = GapsOf(s, st)
    BY <2>4 DEF Record, Statuses, Answer, GapsOf
  <2>6. CASE Left(n)
    <3>1. new = [status |-> st, gaps |-> GapsOf(s, st), history |-> <<>>]
      BY <1>6, <2>6 DEF Merged, Left, GapsOf
    <3>2. Records(n)' = <<x>>
      BY <1>9, <2>1, <2>4, <3>1, InvestigationAssumption DEF Records, FirstRecord, Absent
    <3>3. Silent(n)
      BY <1>2, <2>6 DEF Heard
    <3>4. \A t \in Scopes : Told(<<x>>, t, outcome'[<<n, t>>])
      <4>1. Told(<<x>>, s, st)
        BY <2>5 DEF Told, Latest, Answer, Absent
      <4>2. ASSUME NEW t \in Scopes, t # s PROVE outcome'[<<n, t>>] = Absent
        BY <1>9, <3>3, <4>2 DEF Silent, Probes
      <4>3. ASSUME NEW t \in Scopes, t # s PROVE Told(<<x>>, t, Absent)
        BY <2>5, <4>3 DEF Told
      <4> QED
        BY <1>9, <4>1, <4>2, <4>3
    <3>5. Plain(<<x>>)
      BY <2>5 DEF Plain
    <3>6. /\ Gapped(n)' 
      <4>1. Unanswered(n)' = GapsOf(s, st)
        <5>1. \A t \in Scopes : t # s => outcome'[<<n, t>>] = Absent
          BY <1>9, <3>3 DEF Silent, Probes
        <5> QED
          BY <1>9, <5>1 DEF Unanswered, GapsOf, Answer, Absent
      <4> QED
        BY <1>9, <3>1, <4>1 DEF Gapped, GapsOf
    <3> QED
      BY <3>2, <3>4, <3>5, <3>6 DEF Tells, Plain, Told, Latest
  <2>7. CASE ~Left(n)
    <3>1. PICK before : before = Before(evidence[n], scopeOf[n])
      OBVIOUS
    <3>2. PICK all : all = Append(before, x)
      OBVIOUS
    <3>3. /\ evidence[n] \in Evidenced(Scopes) /\ evidence[n].status # Absent
          /\ scopeOf[n] \in Scopes \cup {Absent}
          /\ Len(new.history) < HistoryCap
      BY <1>2, <1>9, <2>2, <2>7 DEF Left, Uncut
    <3>4. /\ before \in Seq(Record(Scopes)) /\ Len(evidence[n].history) < HistoryCap
          /\ new.history = all
          /\ new.gaps = GapsIn(all)
          /\ new.status = "ok" => new.gaps = {}
      <4>1. /\ Before(evidence[n], scopeOf[n]) \in Seq(Record(Scopes))
            /\ Len(evidence[n].history) < HistoryCap
            /\ new.history = Append(Before(evidence[n], scopeOf[n]), Entry(s, st))
            /\ new.gaps = GapsIn(new.history)
            /\ new.status = "ok" => new.gaps = {}
        BY <1>6, <3>3, MergedUncut
      <4>2. Entry(s, st) = x
        BY <2>4 DEF Entry
      <4> QED
        BY <3>1, <3>2, <4>1, <4>2
    <3>5. before = Records(n) /\ Uncut(n)
      BY <2>7, <3>1, <3>4 DEF Records, FirstRecord, Uncut, Before
    <3>6. Tells(before, n)
      BY <1>2, <3>5 DEF Heard, InRounds
    <3>7. /\ all \in Seq(Record(Scopes)) /\ all # <<>>
          /\ DOMAIN before = 1..Len(before) /\ Len(before) \in Nat
          /\ DOMAIN all = 1..(Len(before) + 1) /\ all[Len(before) + 1] = x
          /\ \A i \in 1..Len(before) : all[i] = before[i]
      BY <2>5, <3>2, <3>4, AppendProperties, LenProperties
    <3>8. Plain(all)
      BY <2>5, <3>6, <3>7 DEF Tells, Plain
    <3>9. ASSUME NEW t \in Scopes PROVE Told(all, t, outcome'[<<n, t>>])
      <4>1. CASE t = s
        <5>1. Latest(all, s, st)
          BY <2>5, <3>2, <3>4, LatestAppended
        <5> QED
          BY <1>9, <4>1, <5>1 DEF Told, Answer, Absent
      <4>2. CASE t # s
        <5>1. outcome'[<<n, t>>] = outcome[<<n, t>>]
          BY <1>9, <4>2 DEF Probes
        <5>2. Told(before, t, outcome[<<n, t>>])
          BY <3>6 DEF Tells
        <5> QED
          BY <2>5, <3>2, <3>4, <4>2, <5>1, <5>2, LatestAppended
      <4> QED
        BY <4>1, <4>2
    <3>10. Records(n)' = all
      BY <1>9, <3>4, <3>7 DEF Records
    <3> QED
      BY <2>3, <3>4, <3>7, <3>8, <3>9, <3>10
  <2> QED
    BY <2>6, <2>7
<1> QED
  BY <1>2, <1>9, <1>10, <1>11 DEF GInv

\* The first answer of a collector without one: the gather's, or the floor's.
LEMMA FirstAnswerGaps ==
    ASSUME GInv, pass = 1, pass' = 1, phase' \in Closing, phase' # "flooring",
           NEW n \in Names, Silent(n), NEW st \in Answer, NEW facts, Whole \in Scopes,
           TakeIn(<<n, Whole>>, Merged(NoEvidence, Absent, st, Whole), st, facts),
           evidence \in [Names -> Evidenced(Gaps)]
    PROVE  GInv'
<1>1. /\ outcome \in [Probes -> Answer \cup {Absent}] /\ \A m \in Names : Heard(m)
      /\ <<n, Whole>> \in Probes
  BY DEF GInv, Probes
<1>2. /\ evidence' = [evidence EXCEPT ![n] = Merged(NoEvidence, Absent, st, Whole)]
      /\ outcome' = [outcome EXCEPT ![<<n, Whole>>] = st]
  BY DEF TakeIn
<1>3. Merged(NoEvidence, Absent, st, Whole) =
        [status |-> st, gaps |-> GapsOf(Whole, st), history |-> <<>>]
  BY DEF Merged, NoEvidence, GapsOf
<1>4. /\ outcome' \in [Probes -> Answer \cup {Absent}] /\ outcome'[<<n, Whole>>] = st
      /\ \A q \in Probes : q # <<n, Whole>> => outcome'[q] = outcome[q]
      /\ evidence'[n] = [status |-> st, gaps |-> GapsOf(Whole, st), history |-> <<>>]
      /\ \A m \in Names : m # n => evidence'[m] = evidence[m]
  BY <1>1, <1>2, <1>3
<1>5. ASSUME NEW m \in Names, m # n PROVE Heard(m)'
  <2>1. \A t \in Scopes : outcome'[<<m, t>>] = outcome[<<m, t>>]
    BY <1>4, <1>5 DEF Probes
  <2>2. (Silent(m)' <=> Silent(m)) /\ (Uncut(m)' <=> Uncut(m))
        /\ (Gapped(m)' <=> Gapped(m)) /\ (Left(m)' <=> Left(m))
    BY <1>4, <1>5, <2>1 DEF Silent, Uncut, Gapped, Unanswered, Left
  <2>3. Heard(m) /\ phase' \notin InRounds
    BY <1>1 DEF Closing, InRounds
  <2> QED
    BY <1>4, <1>5, <2>2, <2>3 DEF Heard
<1>6. Heard(n)'
  <2>1. \A t \in Scopes : t # Whole => outcome'[<<n, t>>] = Absent
    BY <1>4 DEF Silent, Probes
  <2>2. Unanswered(n)' = GapsOf(Whole, st)
    BY <1>4, <2>1 DEF Unanswered, GapsOf, Answer, Absent
  <2>3. Gapped(n)'
    BY <1>4, <2>2 DEF Gapped, GapsOf
  <2>4. ~Left(n)' /\ "analysis_budget" \notin evidence'[n].gaps
    BY <1>4, InvestigationAssumption DEF Left, Answer, Absent, GapsOf
  <2>5. phase' \notin InRounds
    BY DEF Closing, InRounds
  <2> QED
    BY <2>3, <2>4, <2>5 DEF Heard
<1> QED
  BY <1>4, <1>5, <1>6 DEF GInv

LEMMA GatherDoneGaps ==
    ASSUME GInv, BInv, GatherDone
    PROVE  GInv'
<1>1. SUFFICES ASSUME pass = 1 PROVE GInv'
  BY DEF GInv, GatherDone
<1>2. /\ phase = "gather" /\ phase' = "gather" /\ pass' = 1
      /\ \A p \in running : \E n \in Names : p = W(n) /\ Left(n)
      /\ evidence \in [Names -> Evidenced(Gaps)] /\ \A n \in Names : Heard(n)
  BY <1>1 DEF GatherDone, BInv, PInv, TInv, GInv
<1>3. PICK p \in running : \E r \in Results[p] :
         TakeIn(p, Merged(NoEvidence, Absent, r[1], p[2]), r[1], r[2])
  BY DEF GatherDone
<1>4. PICK r \in Results[p] : TakeIn(p, Merged(NoEvidence, Absent, r[1], p[2]), r[1], r[2])
  BY <1>3
<1>5. PICK n \in Names : p = W(n) /\ Left(n)
  BY <1>2
<1>6. p \in Probes /\ r[1] \in Answer /\ p = <<n, Whole>> /\ p[2] = Whole /\ Whole \in Scopes
  BY <1>5, Kinds, InvestigationAssumption DEF Answer, Probes, W
<1>7. Silent(n)
  BY <1>2, <1>5 DEF Heard
<1> QED
  BY <1>1, <1>2, <1>4, <1>6, <1>7, FirstAnswerGaps DEF Closing

LEMMA FlooredGaps ==
    ASSUME GInv, BInv, FloorDone
    PROVE  GInv'
<1>1. SUFFICES ASSUME pass = 1 PROVE GInv'
  BY DEF GInv, FloorDone
<1>2. /\ phase = "flooring" /\ phase' = "finish" /\ pass' = 1
      /\ running = {W(Kubernetes)} /\ Kubernetes \in Names
      /\ evidence \in [Names -> Evidenced(Gaps)] /\ Silent(Kubernetes)
  BY <1>1 DEF FloorDone, BInv, PInv, TInv, GInv
<1>3. PICK r \in Results[W(Kubernetes)] :
         TakeIn(W(Kubernetes), Merged(NoEvidence, Absent, r[1], W(Kubernetes)[2]), r[1], r[2])
  BY <1>2 DEF FloorDone
<1>4. r[1] \in Answer /\ W(Kubernetes) = <<Kubernetes, Whole>> /\ W(Kubernetes)[2] = Whole
      /\ Whole \in Scopes
  BY <1>2, Kinds, InvestigationAssumption DEF Answer, Probes, W
<1> QED
  BY <1>1, <1>2, <1>3, <1>4, FirstAnswerGaps DEF Closing

\* What the budget cut of the gather has answered nothing.
LEMMA GatherEndsGaps ==
    ASSUME GInv, BInv, GatherEnds
    PROVE  GInv'
<1>1. SUFFICES ASSUME pass = 1 PROVE GInv'
  BY DEF GInv, GatherEnds
<1>2. /\ phase = "gather" /\ phase' = "floor" /\ pass' = 1 /\ UNCHANGED <<outcome, scopeOf>>
      /\ evidence' = [n \in Names |-> IF <<n, Whole>> \in running THEN BudgetStub ELSE evidence[n]]
      /\ \A p \in running : \E n \in Names : p = W(n) /\ Left(n)
      /\ outcome \in [Probes -> Answer \cup {Absent}] /\ \A n \in Names : Heard(n)
  BY <1>1 DEF GatherEnds, BInv, PInv, GInv
<1>3. ASSUME NEW n \in Names PROVE Heard(n)'
  <2>1. Heard(n) /\ phase' \notin InRounds /\ (Silent(n)' <=> Silent(n))
    BY <1>2 DEF InRounds, Silent
  <2>2. CASE <<n, Whole>> \in running
    <3>1. Silent(n)
      BY <1>2, <2>1, <2>2, Kinds DEF Heard, W
    <3> QED
      BY <2>1, <3>1 DEF Heard
  <2>3. CASE <<n, Whole>> \notin running
    <3>1. evidence'[n] = evidence[n]
      BY <1>2, <2>3
    <3>2. (Uncut(n)' <=> Uncut(n)) /\ (Gapped(n)' <=> Gapped(n)) /\ (Left(n)' <=> Left(n))
      BY <1>2, <3>1 DEF Uncut, Gapped, Unanswered, Left
    <3> QED
      BY <2>1, <3>1, <3>2 DEF Heard
  <2> QED
    BY <2>2, <2>3
<1> QED
  BY <1>2, <1>3 DEF GInv

LEMMA FinishGaps ==
    ASSUME GInv, Finish
    PROVE  GInv'
<1>1. /\ phase' = "handed" /\ outcome' = [p \in Probes |-> Absent]
  BY DEF Finish
<1>2. ASSUME NEW n \in Names PROVE Heard(n)'
  <2>1. Silent(n)'
    BY <1>1 DEF Silent, Probes
  <2> QED
    BY <1>1, <2>1 DEF Heard, InRounds
<1> QED
  BY <1>1, <1>2 DEF GInv

LEMMA FloorGaps ==
    ASSUME GInv, Floor
    PROVE  GInv'
<1>1. /\ phase = "floor" /\ phase' \in {"flooring", "finish"}
      /\ phase' = "flooring" => NeedsFloor
      /\ UNCHANGED <<pass, evidence, scopeOf, outcome>>
  BY DEF Floor, takenVars
<1>2. ASSUME pass = 1, NeedsFloor PROVE Silent(Kubernetes)
  BY <1>2 DEF GInv, Heard, NeedsFloor, Left
<1> QED
  BY <1>1, <1>2, GapsRest DEF InRounds

LEMMA GInvStep ==
    ASSUME GInv, BInv, [Next]_allVars
    PROVE  GInv'
<1>0. loop \in {"decide", "verify"}
  BY DEF BInv, TInv
<1>1. CASE UNCHANGED allVars \/ Done
  BY <1>1, GapsRest DEF Done, allVars, vars, takenVars
<1>2. CASE WideProbes
  BY <1>2, GapsRest DEF WideProbes, Launch, takenVars, InRounds
<1>3. CASE LeaveDecisions \/ LeaveVerification \/ NoDecision \/ NoReflection
  BY <1>3, GapsRest DEF LeaveDecisions, LeaveVerification, NoDecision, NoReflection, takenVars,
     InRounds, Thrown
<1>4. CASE ProbesCut \/ QueriesCut \/ ProbesDone \/ QueriesDone \/ QueryDone \/ TurnEnds
  <2>1. UNCHANGED <<pass, evidence, scopeOf, outcome>>
    BY <1>4 DEF ProbesCut, QueriesCut, ProbesDone, QueriesDone, QueryDone, TurnEnds, takenVars
  <2>2. phase \in {"probe", "query", "turn"}
    BY <1>4 DEF ProbesCut, QueriesCut, ProbesDone, QueriesDone, QueryDone, TurnEnds
  <2>3. phase' # "flooring"
    BY <1>4, <1>0 DEF ProbesCut, QueriesCut, ProbesDone, QueriesDone, QueryDone, TurnEnds, Abandon,
       Thrown
  <2> QED
    BY <2>1, <2>2, <2>3, GapsRest DEF InRounds
<1>6. ASSUME NEW a \in Answers[pass], Decide(a) \/ Verify(a) PROVE GInv'
  <2>1. /\ phase \in InRounds /\ UNCHANGED <<pass, evidence, scopeOf, outcome>>
    BY <1>6 DEF Decide, Verify, takenVars, InRounds
  <2>2. phase' \in InRounds
    BY <1>6 DEF Decide, Verify, Idle, Launch, InRounds
  <2> QED
    BY <2>1, <2>2, GapsRest DEF InRounds
<1>7. ASSUME NEW a \in Reflections[pass], Reflect(a) PROVE GInv'
  <2>1. /\ phase \in InRounds /\ UNCHANGED <<pass, evidence, scopeOf, outcome>>
        /\ phase' \in {"final", "verify"}
    BY <1>7 DEF Reflect, takenVars, InRounds
  <2> QED
    BY <2>1, GapsRest
<1>8. CASE FinalGather
  <2>1. /\ phase' \in {"floor", "raised", "gather"} /\ UNCHANGED <<pass, evidence, scopeOf, outcome>>
    BY <1>8 DEF FinalGather, takenVars
  <2> QED
    BY <2>1, GapsRest DEF InRounds
<1>9. CASE FloorTimesOut \/ Deadline
  BY <1>9, GapsRest DEF FloorTimesOut, Deadline, takenVars, InRounds
<1>10. CASE ProbeDone \/ GatherDone \/ GatherEnds \/ Floor \/ FloorDone \/ Finish
  BY <1>10, ProbeDoneGaps, GatherDoneGaps, GatherEndsGaps, FloorGaps, FlooredGaps, FinishGaps
<1>11. CASE StartDrilldowns \/ DrilldownsEnd \/ GoOn
  BY <1>11, GapsRest DEF StartDrilldowns, DrilldownsEnd, GoOn, takenVars, InRounds
<1>12. CASE Adopt \/ KeepFirst \/ Reanalyze
  <2>1. pass' = 2
    BY <1>12 DEF Adopt, KeepFirst, Reanalyze
  <2> QED
    BY <2>1 DEF GInv
<1>13. ASSUME NEW n \in Names,
              \/ DeclaredProbe(n) \/ ProbesOver(n) \/ StopAsking(n)
              \/ DeclaredProbeDone(n) \/ AskAgent(n) \/ AgentReadDone(n)
       PROVE  GInv'
  <2>1. UNCHANGED <<phase, pass, evidence, scopeOf, outcome>>
    BY <1>13 DEF DeclaredProbe, ProbesOver, StopAsking, DeclaredProbeDone, AskAgent,
       AgentReadDone, KeepInvestigator
  <2> QED
    BY <2>1, GapsRest
<1>14. CASE InvestigationNext
  <2>1. CASE Control
    BY <2>1, <1>2, <1>3, <1>4, <1>8, <1>9, <1>10 DEF Control, SkipReflection
  <2>2. CASE Replies
    BY <2>2, <1>3, <1>4, <1>6, <1>7, <1>10 DEF Replies
  <2> QED
    BY <1>9, <1>14, <2>1, <2>2 DEF InvestigationNext
<1> QED
  BY <1>1, <1>11, <1>12, <1>13, <1>14 DEF Next, DrillControl, DrillReplies

\* A scope that failed stays a gap until the same scope has been answered, as
\* long as no history has reached its cap and dropped a record.
THEOREM GapsSurviveHolds ==
    Spec => []((\A n \in Names : Uncut(n)) => GapsSurvive)
<1>1. GInv /\ (\A n \in Names : Uncut(n)) => GapsSurvive
  <2>1. SUFFICES ASSUME GInv, \A n \in Names : Uncut(n), pass = 1, NEW n \in Names, NEW s \in Scopes
        PROVE  LET last == outcome[<<n, s>>]
               IN /\ last \notin {Absent, "ok"} =>
                       s \in evidence[n].gaps /\ evidence[n].status # "ok"
                  /\ last = "ok" => s \notin evidence[n].gaps
    BY DEF GapsSurvive
  <2>2. Gapped(n) \/ Silent(n)
    BY <2>1 DEF GInv, Heard
  <2>3. CASE Gapped(n)
    BY <2>1, <2>3 DEF Gapped, Unanswered
  <2>4. CASE Silent(n)
    BY <2>1, <2>4 DEF Silent, Absent
  <2> QED
    BY <2>2, <2>3, <2>4
<1>2. DrillInit => AInv /\ BInv /\ GInv
  BY AInvInit, BInvInit, GInvInit
<1>3. AInv /\ BInv /\ GInv /\ [Next]_allVars => (AInv /\ BInv /\ GInv)'
  BY AInvStep, BInvStep, GInvStep
<1> QED
  BY <1>1, <1>2, <1>3, PTL DEF Spec
================================================================================
