------------------------------- MODULE Drilldowns -------------------------------
(***************************************************************************)
(* The evidence stage around the investigator: after it hands over, one     *)
(* domain agent per collector deepens its own result, concurrently and over *)
(* the same query memory (services/drilldown.py); a refuted or weak ranking *)
(* may then send the investigator round once more (services/pipeline.py).   *)
(***************************************************************************)
EXTENDS Investigation

CONSTANTS
    Registry,     \* the collectors that have a domain registry
    Declared,     \* per collector, the plan's declared probes it can run
    About,        \* the hypotheses a declared probe is bound to
    Optional,     \* per collector, the queries its model may ask for
    DrillLimit    \* decision_round_limit

\* A plan declares, and a domain tool offers, reads of the query catalog.
ASSUME DrillAssumption ==
    /\ Declared \in [Names -> SUBSET Queries]
    /\ Optional \in [Names -> SUBSET Queries]
    /\ DrillLimit \in Nat

VARIABLES
    agent,        \* per collector [at, todo, mine, done, round, repaired]
    base          \* state.results while a re-analysis runs

drillVars == <<agent, base>>
allVars == <<vars, drillVars>>

NoAgent == [at |-> "none", todo |-> {}, mine |-> {}, done |-> {}, round |-> 0,
            repaired |-> FALSE]

DrillInit == Init /\ agent = [n \in Names |-> NoAgent] /\ base = evidence

\* A result that the agent's adapters verified decides, refutation first.
Verdict(q, facts) ==
    LET scoped == facts \cap Eligible
    IN IF \E f \in scoped : Against[f] \cap About[q] # {} THEN "refutes"
       ELSE IF \E f \in scoped : For[f] \cap About[q] # {} THEN "supports"
       ELSE "inconclusive"
Assessment(n, q, verdict, replayed) ==
    [by |-> n, probe |-> q, about |-> About[q], verdict |-> verdict, replayed |-> replayed]
Settled(n) == \A a \in assessed : a.by = n => a.verdict = "supports"

\* Every result with a registry gets an agent, an unavailable one as well; the
\* pipeline recomputes whether the evidence is sufficient.
StartDrilldowns ==
    /\ phase = "handed" /\ pass = 1
    /\ phase' = "drill" /\ suff' = Sufficient(ledger)
    /\ agent' = [n \in Names |-> IF n \in Registry \ Unseen
                  THEN [NoAgent EXCEPT !.at = "probes", !.todo = Declared[n]] ELSE NoAgent]
    /\ UNCHANGED <<pass, late, ledger, assessed, floored, readVars, takenVars, roundVars, base>>

Set(n, new) == agent' = [agent EXCEPT ![n] = new]
KeepInvestigator == UNCHANGED <<phase, pass, late, ledger, suff, floored, evidence, scopeOf,
                                outcome, roundVars, base>>

\* Mutant: a declared probe that someone has claimed is left to them.
DeclaredProbeLeft(n) ==
    /\ phase = "drill" /\ agent[n].at = "probes" /\ agent[n].mine = {} /\ ~late
    /\ \E q \in agent[n].todo :
         LET rest == [agent[n] EXCEPT !.todo = @ \ {q}]
         IN IF q \notin agent[n].done /\ MayClaim(memory, q)
            THEN /\ Set(n, [rest EXCEPT !.mine = {q}, !.done = @ \cup {q}])
                 /\ memory' = Claimed(memory, {q}) /\ Starts({q}) /\ got' = got
            ELSE Set(n, rest) /\ UNCHANGED readVars
    /\ UNCHANGED <<assessed, cards>> /\ KeepInvestigator

\* A declared probe whose read someone has claimed before is assessed against
\* the cards this agent's result already has.
DeclaredProbe(n) ==
    /\ phase = "drill" /\ agent[n].at = "probes" /\ agent[n].mine = {} /\ ~late
    /\ \E q \in agent[n].todo :
         LET rest == [agent[n] EXCEPT !.todo = @ \ {q}]
         IN IF q \notin agent[n].done /\ MayClaim(memory, q)
            THEN /\ Set(n, [rest EXCEPT !.mine = {q}, !.done = @ \cup {q}])
                 /\ memory' = Claimed(memory, {q}) /\ Starts({q})
                 /\ UNCHANGED <<assessed, got>>
            ELSE /\ Set(n, rest)
                 /\ assessed' = assessed \cup {Assessment(n, q, Verdict(q, cards[n]), TRUE)}
                 /\ UNCHANGED readVars
    /\ UNCHANGED cards /\ KeepInvestigator

\* Its answer is assessed by itself, and its card joins the result.
DeclaredProbeDone(n) ==
    /\ phase = "drill" /\ agent[n].at = "probes"
    /\ \E q \in agent[n].mine : \E r \in Results[q] :
         /\ Set(n, [agent[n] EXCEPT !.mine = {}])
         /\ assessed' = assessed \cup
              {Assessment(n, q, IF r[1] = "ok" THEN Verdict(q, r[2]) ELSE "unavailable", FALSE)}
         /\ cards' = [cards EXCEPT ![n] = @ \cup r[2]]
         /\ memory' = Completed(memory, q, r[1] = "ok")
         /\ running' = running \ {q} /\ tries' = tries
         /\ got' = IF r[1] = "ok" THEN got \cup {q} ELSE got
    /\ KeepInvestigator

\* The optional rounds are skipped when the evidence sufficed and no probe of
\* this agent says otherwise.
ProbesOver(n) ==
    /\ phase = "drill" /\ agent[n].at = "probes" /\ agent[n].mine = {}
    /\ late \/ agent[n].todo = {}
    /\ Set(n, [agent[n] EXCEPT !.at = IF late \/ (suff /\ Settled(n)) THEN "done" ELSE "ask"])
    /\ UNCHANGED <<readVars, cards, assessed>> /\ KeepInvestigator

\* A round asks for reads nobody claimed; one correction of invalid queries.
AskAgent(n) ==
    /\ phase = "drill" /\ agent[n].at = "ask" /\ ~late /\ agent[n].round < DrillLimit
    /\ \E qs \in SUBSET Optional[n], invalid \in BOOLEAN :
         LET run == {q \in qs \ agent[n].done : MayClaim(memory, q)}
             next == [agent[n] EXCEPT !.round = @ + 1]
             repair == invalid /\ ~agent[n].repaired /\ next.round < DrillLimit
         IN /\ Set(n, IF run # {} THEN [next EXCEPT !.at = "read", !.mine = run,
                                                    !.done = @ \cup run]
                      ELSE IF repair THEN [next EXCEPT !.repaired = TRUE]
                      ELSE [next EXCEPT !.at = "done"])
            /\ memory' = Claimed(memory, run) /\ Starts(run)
    /\ UNCHANGED <<got, cards, assessed>> /\ KeepInvestigator

StopAsking(n) ==
    /\ phase = "drill" /\ agent[n].at = "ask" /\ (late \/ agent[n].round >= DrillLimit)
    /\ Set(n, [agent[n] EXCEPT !.at = "done"])
    /\ UNCHANGED <<readVars, cards, assessed>> /\ KeepInvestigator

AgentReadDone(n) ==
    /\ phase = "drill" /\ agent[n].at = "read"
    /\ \E q \in agent[n].mine : \E r \in Results[q] :
         /\ Set(n, [agent[n] EXCEPT !.mine = @ \ {q},
                                    !.at = IF agent[n].mine = {q} THEN "ask" ELSE "read"])
         /\ cards' = [cards EXCEPT ![n] = @ \cup r[2]]
         /\ memory' = Completed(memory, q, r[1] = "ok")
         /\ running' = running \ {q} /\ tries' = tries
         /\ got' = IF r[1] = "ok" THEN got \cup {q} ELSE got
    /\ UNCHANGED assessed /\ KeepInvestigator

\* The coordinator waits for all agents, and cancels those the budget overtakes.
DrilldownsEnd ==
    /\ phase = "drill"
    /\ late \/ \A n \in Names : agent[n].at \in {"none", "done"}
    /\ running' = {} /\ phase' = "settled"
    /\ agent' = [n \in Names |-> [agent[n] EXCEPT !.mine = {},
                    !.at = IF @ \in {"none", "done"} THEN @ ELSE "cancelled"]]
    /\ UNCHANGED <<pass, late, ledger, suff, assessed, floored, takenVars,
                   memory, tries, got, roundVars, base>>

\* A re-analysis goes on from these results with a fresh ledger; what was
\* answered at all counts as read in the scope an empty one resolves to, and the
\* discovery of a wide target is not repeated over these results.
Reanalyze ==
    /\ phase = "settled" /\ pass = 1 /\ ~late
    /\ LET answered == {n \in Names : evidence[n].status \in Usable}
       IN /\ scopeOf' = [n \in Names |-> IF n \in answered THEN Effective[Whole] ELSE Absent]
          /\ seen' = {<<n, Effective[Whole]>> : n \in answered}
          /\ memory' = Remembered(memory, {<<n, Effective[Whole]>> : n \in answered})
    /\ pass' = 2 /\ phase' = "decide"
    /\ FreshRounds
    /\ ledger' = InitialLedger /\ base' = evidence
    /\ UNCHANGED <<late, suff, assessed, floored, running, tries, got,
                   evidence, cards, outcome, agent>>

\* Its results are merged into the earlier ones without a scope.
Remerged(old, new) ==
    IF old.status = Absent THEN new
    ELSE [status  |-> IF new.status = "ok" THEN "ok"
                      ELSE IF new.status = "partial" \/ old.status \in Usable THEN "partial"
                      ELSE "unavailable",
          gaps    |-> new.gaps,
          history |-> new.history]

Adopt ==
    /\ phase = "handed" /\ pass = 2 /\ phase' = "over"
    /\ evidence' = [n \in Names |-> IF evidence[n].status = Absent THEN base[n]
                                    ELSE Remerged(base[n], evidence[n])]
    /\ UNCHANGED <<pass, late, ledger, suff, assessed, floored, readVars, scopeOf, cards,
                   outcome, roundVars, drillVars>>

\* A re-analysis that raised leaves the first results as they were.
KeepFirst ==
    /\ phase = "raised" /\ pass = 2 /\ phase' = "over"
    /\ evidence' = base
    /\ UNCHANGED <<pass, late, ledger, suff, assessed, floored, readVars, scopeOf, cards,
                   outcome, roundVars, drillVars>>

GoOn ==
    /\ phase = "settled" /\ phase' = "over"
    /\ UNCHANGED <<pass, late, ledger, suff, assessed, floored, readVars, takenVars,
                   roundVars, drillVars>>

Over == phase = "over" \/ (phase = "raised" /\ pass = 1)
Done == Over /\ UNCHANGED allVars

DrillControl == StartDrilldowns \/ DrilldownsEnd \/ Adopt \/ KeepFirst \/ GoOn
                  \/ \E n \in Names : DeclaredProbe(n) \/ ProbesOver(n) \/ StopAsking(n)
DrillReplies == \E n \in Names : DeclaredProbeDone(n) \/ AskAgent(n) \/ AgentReadDone(n)

Next == \/ InvestigationNext /\ UNCHANGED drillVars
        \/ DrillControl \/ DrillReplies \/ Reanalyze \/ Done

\* A model or a server need not answer; the clock runs, and the event loop does
\* not starve a coroutine that has nothing to wait for.
Fairness == /\ WF_allVars(Control /\ UNCHANGED drillVars)
            /\ WF_allVars(Deadline /\ UNCHANGED drillVars)
            /\ WF_allVars(DrillControl)

Spec == DrillInit /\ [][Next]_allVars /\ Fairness

--------------------------------------------------------------------------------
(* Properties *)

\* No evidence path, and no two of them together, start a read that is in flight
\* or has already succeeded, and none is started more often than a receipt
\* allows: over the rounds, the gather, the floor, the agents and a re-analysis.
ReadsAreBounded ==
    [][\A r \in Reads : tries'[r] > tries[r] =>
          r \notin running \cup got /\ tries'[r] <= MaxAttempts]_allVars

Grounded ==
    \E h \in Hypotheses :
        LET facts == {f \in Board \cap Eligible : h \in For[f]}
        IN /\ Cardinality({Plane[f] : f \in facts}) >= 2 \/ facts \cap Alone # {}
           /\ \A f \in Board \cap Eligible : h \notin Against[f]

\* Whatever the model claims, the investigator hands over without a collector
\* only because observations of two planes, or a dispositive one, speak for a
\* hypothesis and none against it, or because its one read was overtaken by the
\* budget.
NothingSkippedUngrounded ==
    phase = "handed" =>
        \A n \in Unseen : Grounded \/ (late /\ memory[<<n, Whole>>].status = "running")

\* A scope that failed stays a gap of its collector until the same scope has
\* been answered, however many other scopes are probed meanwhile.
GapsSurvive ==
    pass = 1 => \A n \in Names, s \in Scopes :
        LET last == outcome[<<n, s>>]
        IN /\ last \notin {Absent, "ok"} => s \in evidence[n].gaps /\ evidence[n].status # "ok"
           /\ last = "ok" => s \notin evidence[n].gaps

\* A declared probe that another path has already read, or is reading, still
\* gets its verdict: each one exactly once unless the budget ended.
EveryProbeIsAssessed ==
    \A n \in Names : agent[n].at \in {"ask", "read", "done"} /\ agent[n].todo = {} =>
        \A q \in Declared[n] : Cardinality({a \in assessed : a.by = n /\ a.probe = q}) = 1

\* The evidence stage ends although no model and no server ever answers.
InvestigationEnds == <>Over

\* A run does not end without evidence of the target from Kubernetes "just
\* because LLM rounds and broad collectors consumed the shared window".
FloorReached ==
    (phase = "raised" \/ phase = "handed") /\ pass = 1 /\ ~suff /\ Kubernetes \in Names =>
        evidence[Kubernetes].status # Absent \/ floored
================================================================================
