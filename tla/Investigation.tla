----------------------------- MODULE Investigation -----------------------------
(***************************************************************************)
(* The investigator of one analysis (services/investigator.py): a model     *)
(* proposes reads and moves a ledger of hypotheses, until scoped evidence   *)
(* grounds one of them, the rounds are used up or the shared budget ends;   *)
(* then everything not read yet is gathered.  One coroutine drives it; the  *)
(* reads of a round run concurrently and end in any order, or not at all.   *)
(***************************************************************************)
EXTENDS QueryMemory, Sequences, FiniteSets, FiniteSetsExt

CONSTANTS
    Names,        \* the configured collectors
    Kubernetes,   \* the one the typed-core floor is about
    Scopes,       \* the scopes a probe may ask for
    Whole,        \* the empty scope
    Effective,    \* what a scope resolves to on this target
    Queries,      \* the single reads of the domain tools
    Covers,       \* the queries a collector's own pass includes
    Hypotheses,
    Planned,      \* those the plan starts with
    Facts,
    Plane,        \* independence_group of a fact
    For,          \* the hypotheses a fact supports by its family
    Against,      \* those a scoped absence contradicts
    Alone,        \* facts with a reason that names their family outright
    Eligible,     \* facts inside the causal window and about the target
    Typed,        \* facts whose card carries a verified target identity
    Results,      \* what a read can answer: pairs of a status and the facts
    Answers,      \* what the model may decide in a round of each pass
    Reflections,  \* what it may answer to the skeptical reflection
    RoundLimit,   \* max_steps of each pass
    HistoryCap,   \* probe_results kept per collector
    Targets       \* "named", or "wide": the request names no resource

\* A receipt leaves a second attempt; an answer has one of three statuses; a
\* decision names known reads; "analysis_budget" and the "none" below are no scopes.
ASSUME InvestigationAssumption ==
    /\ MaxAttempts \in Nat /\ MaxAttempts >= 2
    /\ Whole \in Scopes /\ Effective \in [Scopes -> Scopes]
    /\ "analysis_budget" \notin Scopes /\ "none" \notin Scopes
    /\ Queries \cap (Names \X Scopes) = {}
    /\ Covers \in [Names \X Scopes -> SUBSET Queries]
    /\ IsFiniteSet(Eligible)
    /\ \A r \in (Names \X Scopes) \cup Queries : \A a \in Results[r] :
           a[1] \in {"ok", "partial", "unavailable"}
    /\ \A p \in {1, 2} : \A a \in Answers[p] :
           a.probes \subseteq Names \X Scopes /\ a.queries \subseteq Queries
    /\ HistoryCap \in Nat \ {0}

VARIABLES
    phase,     \* where the coroutine is
    pass,      \* 1: the evidence stage, 2: a targeted re-analysis
    late,      \* the deadline of the evidence has passed
    loop,      \* the loop the running round belongs to
    round,
    chained,   \* ran_queries_last_step
    wanted,    \* the accepted queries of the round
    held,      \* their answers, not completed before all are there
    memory,    \* the QueryMemory of the run
    running,   \* the reads in flight
    evidence,  \* per collector [status, gaps, history]
    scopeOf,   \* latest_probe_scopes
    cards,     \* per collector, the facts on its artifacts
    ledger,    \* per hypothesis [status, cites]
    seen,      \* seen_probes
    asked,     \* seen_queries
    failed,    \* failed_queries
    suff,      \* evidence_sufficient
    assessed,  \* ontology_probe_assessments of all results
    tries,     \* history: how often a read was started
    got,       \* history: the reads that have succeeded
    outcome,   \* history: the status of a probe's last answer in this pass
    floored    \* history: the floor was tried

readVars  == <<memory, running, tries, got>>
takenVars == <<evidence, scopeOf, cards, outcome>>
roundVars == <<loop, round, chained, wanted, held, seen, asked, failed>>
vars == <<phase, pass, late, ledger, suff, assessed, floored, readVars, takenVars, roundVars>>

Probes == Names \X Scopes
Reads == Probes \cup Queries
Absent == "none"
Usable == {"ok", "partial"}
NoEvidence == [status |-> Absent, gaps |-> {}, history |-> <<>>]
BudgetStub == [status |-> "unavailable", gaps |-> {"analysis_budget"}, history |-> <<>>]
Unseen == {n \in Names : evidence[n].status = Absent}
Board == UNION {cards[n] : n \in Names}
InitialLedger == [h \in Hypotheses |->
    [status |-> IF h \in Planned THEN "open" ELSE Absent, cites |-> {}]]

Init ==
    /\ phase \in {IF t = "wide" THEN "wide" ELSE "decide" : t \in Targets}
    /\ pass = 1 /\ late = FALSE /\ loop = "decide" /\ round = 0 /\ chained = FALSE
    /\ wanted = {} /\ held = {} /\ seen = {} /\ asked = {} /\ failed = {}
    /\ memory = [r \in Reads |-> Unread] /\ running = {}
    /\ evidence = [n \in Names |-> NoEvidence]
    /\ scopeOf = [n \in Names |-> Absent]
    /\ cards = [n \in Names |-> {}]
    /\ ledger = InitialLedger /\ suff = FALSE /\ assessed = {}
    /\ tries = [r \in Reads |-> 0] /\ got = {} /\ floored = FALSE
    /\ outcome = [p \in Probes |-> Absent]

--------------------------------------------------------------------------------
(* The ledger *)

\* A citation moves a hypothesis only if its fact is eligible, "supported" needs
\* one; what the board holds for a family is attached whatever the model cites.
\* At most eight citations are kept; an instance has fewer facts.
Updated(l, ups) ==
    LET Citable(u) == u.cites \cap Board \cap Eligible
        Moved(h, u) == [status |-> IF u.status = "supported" /\ l[h].cites \cup Citable(u) = {}
                                   THEN "testing" ELSE u.status,
                        cites  |-> l[h].cites \cup Citable(u)]
        Told(h) == IF \E u \in ups : u.id = h
                   THEN Moved(h, CHOOSE u \in ups : u.id = h) ELSE l[h]
        Own(h)  == {f \in Board \cap Eligible \cap Typed : h \in For[f]}
    IN [h \in Hypotheses |-> IF l[h].status = Absent THEN l[h]
                             ELSE [Told(h) EXCEPT !.cites = @ \cup Own(h)]]

\* A new hypothesis enters with the status and the citations the model gives it.
Extended(l, new) ==
    [h \in Hypotheses |-> IF l[h].status = Absent /\ \E u \in new : u.id = h
        THEN LET u == CHOOSE v \in new : v.id = h IN [status |-> u.status, cites |-> u.cites]
        ELSE l[h]]

\* Mutant: a citation counts although no such fact was observed.
SufficientByProse(l) ==
    \E h \in Hypotheses :
        /\ l[h].status = "supported"
        /\ Cardinality({Plane[f] : f \in l[h].cites}) >= 2 \/ l[h].cites \cap Alone # {}

\* Two planes, or one fact that names the family outright, and nothing against it.
Sufficient(l) ==
    \E h \in Hypotheses :
        LET support == {f \in l[h].cites \cap Board \cap Eligible : h \in For[f]}
        IN /\ l[h].status = "supported"
           /\ support # {}
           /\ Cardinality({Plane[f] : f \in support}) >= 2 \/ support \cap Alone # {}
           /\ \A f \in Board \cap Eligible : h \notin Against[f]
           /\ \A a \in assessed : ~(a.verdict = "refutes" /\ h \in a.about)

--------------------------------------------------------------------------------
(* Starting reads and taking their answers in *)

Starts(reads) ==
    /\ running' = running \cup reads
    /\ tries' = [r \in Reads |-> tries[r] + (IF r \in reads THEN 1 ELSE 0)]

\* Mutant: the gaps of the latest answer replace those of other scopes.
MergedFlat(old, oldScope, status, scope) ==
    [status |-> IF status = "ok" THEN "ok"
                ELSE IF status = "partial" \/ old.status \in Usable THEN "partial" ELSE "unavailable",
     gaps |-> IF status = "ok" THEN {} ELSE {scope}, history |-> <<>>]

\* What a repeated probe leaves of a collector's result: a gap goes when the
\* same scope has been answered since.
Merged(old, oldScope, status, scope) ==
    LET Of(s, st) == [scope |-> s, status |-> st, gaps |-> IF st = "ok" THEN {} ELSE {s}]
        first == [scope  |-> IF oldScope = Absent THEN Whole ELSE oldScope,
                  status |-> old.status, gaps |-> old.gaps]
        all == Append(IF old.history = <<>> THEN <<first>> ELSE old.history, Of(scope, status))
        latest == {all[i] : i \in {i \in DOMAIN all :
                       \A j \in DOMAIN all : all[j].scope = all[i].scope => j <= i}}
        gaps == UNION {r.gaps : r \in latest}
        kept == Max({1, Len(all) - HistoryCap + 1})
    IN IF old.status = Absent
       THEN [status |-> status, gaps |-> Of(scope, status).gaps, history |-> <<>>]
       ELSE [status  |-> IF gaps = {} /\ \A r \in latest : r.status = "ok" THEN "ok"
                         ELSE IF \E i \in DOMAIN all : all[i].status \in Usable
                         THEN "partial" ELSE "unavailable",
             gaps    |-> gaps,
             history |-> SubSeq(all, kept, Len(all))]

\* An answer of a collector: merged, on the board, and its own reads remembered.
TakeIn(p, result, status, facts) ==
    /\ evidence' = [evidence EXCEPT ![p[1]] = result]
    /\ cards' = [cards EXCEPT ![p[1]] = @ \cup facts]
    /\ outcome' = [outcome EXCEPT ![p] = status]
    /\ running' = running \ {p}
    /\ got' = IF status \in Usable THEN got \cup {p} ELSE got
    /\ tries' = tries

\* What the answer covers of the domain queries is remembered with it.
AndCovered(m, p, status) == IF status = "ok" THEN Remembered(m, Covers[p]) ELSE m

--------------------------------------------------------------------------------
(* Rounds *)

\* A TimeoutError leaves the loop it happens in; investigate swallows it.
Thrown == IF loop = "verify" THEN "final" ELSE "reflect"
Abandon == /\ running' = {} /\ phase' = Thrown
           /\ held' = {} /\ wanted' = {}

Fingerprint(p) == <<p[1], Effective[p[2]]>>
Fresh(ps) == {p \in ps : Fingerprint(p) \notin seen}
Accepted(qs) == {q \in qs : q \notin asked /\ MayClaim(memory, q)}

\* Claims are made where the reads are chosen; a probe refused is passed over.
Launch(ps, qs) ==
    LET started == {p \in ps : MayClaim(memory, p)}
    IN /\ memory' = Claimed(memory, started \cup qs)
       /\ Starts(started)
       /\ got' = got
       /\ asked' = asked \cup qs
       /\ wanted' = qs
       /\ phase' = "probe"

\* Ends the round without a read: another one, or the end of the loop.
Idle(next) == /\ phase' = next
              /\ UNCHANGED <<readVars, seen, asked, wanted>>

Marked(ps) == seen' = seen \cup {Fingerprint(p) : p \in ps}

\* A target-less request first gets every plane's discovery view.
WideProbes ==
    /\ phase = "wide"
    /\ Launch({<<n, Whole>> : n \in Names}, {})
    /\ UNCHANGED <<pass, late, ledger, suff, assessed, floored, takenVars,
                   loop, round, chained, held, seen, failed>>

LeaveDecisions ==
    /\ phase = "decide"
    /\ late \/ round >= RoundLimit[pass] \/ (~chained /\ Sufficient(ledger))
    /\ phase' = "reflect"
    /\ UNCHANGED <<pass, late, ledger, suff, assessed, floored, readVars, takenVars, roundVars>>

\* The model fails to answer, or answers something that is no object.
NoDecision ==
    /\ phase \in {"decide", "verify"} /\ ~late /\ round < RoundLimit[pass]
    /\ phase' = Thrown
    /\ UNCHANGED <<pass, late, ledger, suff, assessed, floored, readVars, takenVars, roundVars>>

\* A conclusion counts only when the evidence is sufficient; otherwise, and when
\* no read is named, the strongest collector not read yet is probed.
Decide(a) ==
    LET l == Extended(Updated(ledger, a.ups), a.new)
        unverified == a.action = "conclude" /\ ~Sufficient(l)
        ps == Fresh(a.probes)
        qs == Accepted(a.queries)
        again == a.invalid \/ a.queries \cap asked \cap failed # {}
    IN /\ phase = "decide" /\ ~late /\ round < RoundLimit[pass]
       /\ chained \/ ~Sufficient(ledger)
       /\ round' = round + 1 /\ ledger' = l /\ loop' = "decide"
       /\ \/ a.action = "conclude" /\ ~unverified /\ Idle("reflect")
          \/ /\ unverified \/ a.action = "probe"
             /\ \/ ps \cup qs # {} /\ Launch(ps, qs) /\ Marked(ps)
                \/ /\ ps \cup qs = {}
                   /\ \E n \in Unseen : Launch({<<n, Whole>>}, {}) /\ Marked({<<n, Whole>>})
                \/ /\ ps \cup qs = {} /\ Unseen = {}
                   /\ IF (again \/ unverified) /\ round' < RoundLimit[pass]
                      THEN Idle("decide") ELSE Idle("reflect")
       /\ UNCHANGED <<pass, late, suff, assessed, floored, takenVars, chained, held, failed>>

Verify(a) ==
    LET l == Updated(ledger, a.ups)
        ps == Fresh(a.probes)
        qs == Accepted(a.queries)
        again == a.invalid \/ a.queries \cap asked \cap failed # {}
    IN /\ phase = "verify" /\ ~late /\ round < RoundLimit[pass]
       /\ round' = round + 1 /\ ledger' = l
       /\ \/ (Sufficient(l) \/ a.action = "conclude") /\ Idle("final")
          \/ /\ ~Sufficient(l) /\ a.action # "conclude"
             /\ \/ ps \cup qs # {} /\ Launch(ps, qs) /\ Marked(ps)
                \/ /\ ps \cup qs = {}
                   /\ IF again /\ round' < RoundLimit[pass] THEN Idle("verify") ELSE Idle("final")
       /\ UNCHANGED <<pass, late, suff, assessed, floored, takenVars, loop, chained, held, failed>>

LeaveVerification ==
    /\ phase = "verify" /\ (late \/ round >= RoundLimit[pass])
    /\ phase' = "final"
    /\ UNCHANGED <<pass, late, ledger, suff, assessed, floored, readVars, takenVars, roundVars>>

\* One collector answers; the probes of a round share the event loop, so the
\* merge, the receipt and the board change together.
ProbeDone ==
    /\ phase = "probe"
    /\ \E p \in running : \E r \in Results[p] :
         /\ TakeIn(p, Merged(evidence[p[1]], scopeOf[p[1]], r[1], p[2]), r[1], r[2])
         /\ scopeOf' = [scopeOf EXCEPT ![p[1]] = p[2]]
         /\ memory' = AndCovered(Completed(memory, p, r[1] \in Usable), p, r[1])
    /\ UNCHANGED <<phase, pass, late, ledger, suff, assessed, floored, roundVars>>

\* Mutant: the probes of a round are awaited without the budget.
ProbesCutAfterAll ==
    /\ phase = "probe" /\ late /\ running = {}
    /\ Abandon
    /\ UNCHANGED <<pass, late, ledger, suff, assessed, floored, takenVars,
                   memory, tries, got, loop, round, chained, seen, asked, failed>>

\* The budget ends: what is in flight is cancelled, its receipts stay "running".
ProbesCut ==
    /\ phase = "probe" /\ late
    /\ Abandon
    /\ UNCHANGED <<pass, late, ledger, suff, assessed, floored, takenVars,
                   memory, tries, got, loop, round, chained, seen, asked, failed>>

ProbesDone ==
    /\ phase = "probe" /\ running = {} /\ ~late
    /\ IF wanted = {} THEN phase' = "turn" /\ UNCHANGED <<running, tries>>
       ELSE phase' = "query" /\ Starts(wanted)
    /\ UNCHANGED <<pass, late, ledger, suff, assessed, floored, takenVars,
                   memory, got, roundVars>>

\* An ad-hoc read answers.  It is a snapshot and never brings a fact, and its
\* receipt is written only when all of the round's queries have answered.
QueryDone ==
    /\ phase = "query"
    /\ \E q \in running, ok \in BOOLEAN :
         /\ running' = running \ {q}
         /\ held' = held \cup {[read |-> q, ok |-> ok]}
         /\ got' = IF ok THEN got \cup {q} ELSE got
    /\ UNCHANGED <<phase, pass, late, ledger, suff, assessed, floored, takenVars,
                   memory, tries, loop, round, chained, wanted, seen, asked, failed>>

QueriesCut ==
    /\ phase = "query" /\ late /\ running # {}
    /\ Abandon
    /\ UNCHANGED <<pass, late, ledger, suff, assessed, floored, takenVars,
                   memory, tries, got, loop, round, chained, seen, asked, failed>>

QueriesDone ==
    /\ phase = "query" /\ running = {}
    /\ memory' = [r \in Reads |-> IF \E x \in held : x.read = r
                    THEN Completed(memory, r, [read |-> r, ok |-> TRUE] \in held)[r] ELSE memory[r]]
    /\ failed' = failed \cup {x.read : x \in {y \in held : ~y.ok}}
    /\ held' = {} /\ phase' = "turn"
    /\ UNCHANGED <<pass, late, ledger, suff, assessed, floored, takenVars,
                   running, tries, got, loop, round, chained, wanted, seen, asked>>

\* After its reads a round ends the loop if the evidence has become sufficient.
TurnEnds ==
    /\ phase = "turn"
    /\ phase' = IF Sufficient(ledger) THEN Thrown ELSE loop
    /\ chained' = (wanted # {}) /\ wanted' = {}
    /\ UNCHANGED <<pass, late, ledger, suff, assessed, floored, readVars, takenVars,
                   loop, round, held, seen, asked, failed>>

\* A reflection that changed the ledger is put to the test by further reads.
Reflect(a) ==
    /\ phase = "reflect" /\ ~late /\ ~Sufficient(ledger)
    /\ ledger' = Extended(Updated(ledger, a.ups), a.new)
    /\ loop' = "verify" /\ round' = 0
    /\ phase' = IF ledger' = ledger THEN "final" ELSE "verify"
    /\ UNCHANGED <<pass, late, suff, assessed, floored, readVars, takenVars,
                   chained, wanted, held, seen, asked, failed>>

NoReflection ==
    /\ phase = "reflect"
    /\ phase' = "final"
    /\ UNCHANGED <<pass, late, ledger, suff, assessed, floored, readVars, takenVars, roundVars>>

SkipReflection == (late \/ Sufficient(ledger)) /\ NoReflection

--------------------------------------------------------------------------------
(* The gather of what is left, and the floor *)

\* Without grounded evidence every collector not read yet is run.  Those whose
\* claim is refused are dropped; asyncio.wait of nothing raises.
FinalGather ==
    /\ phase = "final"
    /\ suff' = Sufficient(ledger)
    /\ LET left == IF suff' THEN {} ELSE {<<n, Whole>> : n \in Unseen}
           run == {p \in left : MayClaim(memory, p)}
       IN /\ phase' = IF left = {} THEN "floor" ELSE IF run = {} THEN "raised" ELSE "gather"
          /\ memory' = Claimed(memory, run)
          /\ Starts(run)
    /\ UNCHANGED <<pass, late, ledger, assessed, floored, takenVars, got, roundVars>>

GatherDone ==
    /\ phase = "gather"
    /\ \E p \in running : \E r \in Results[p] :
         /\ TakeIn(p, Merged(NoEvidence, Absent, r[1], p[2]), r[1], r[2])
         /\ memory' = AndCovered(Completed(memory, p, r[1] \in Usable), p, r[1])
    /\ UNCHANGED <<phase, pass, late, ledger, suff, assessed, floored, scopeOf, roundVars>>

\* Here a cancelled read does get its receipt, and a stub that says why.
GatherEnds ==
    /\ phase = "gather" /\ (late \/ running = {})
    /\ memory' = [r \in Reads |-> IF r \in running THEN Completed(memory, r, FALSE)[r] ELSE memory[r]]
    /\ evidence' = [n \in Names |-> IF <<n, Whole>> \in running THEN BudgetStub ELSE evidence[n]]
    /\ running' = {} /\ phase' = "floor"
    /\ UNCHANGED <<pass, late, ledger, suff, assessed, floored, scopeOf, cards, outcome,
                   tries, got, roundVars>>

NeedsFloor == /\ Kubernetes \in Names /\ ~suff
              /\ evidence[Kubernetes].status = Absent \/ "analysis_budget" \in evidence[Kubernetes].gaps

\* One bounded pass without a claim, outside the shared budget.
Floor ==
    /\ phase = "floor"
    /\ IF NeedsFloor THEN Starts({<<Kubernetes, Whole>>}) /\ phase' = "flooring" /\ floored' = TRUE
       ELSE phase' = "finish" /\ UNCHANGED <<running, tries, floored>>
    /\ UNCHANGED <<pass, late, ledger, suff, assessed, takenVars, memory, got, roundVars>>

FloorDone ==
    /\ phase = "flooring" /\ phase' = "finish"
    /\ \E p \in running : \E r \in Results[p] :
         TakeIn(p, Merged(NoEvidence, Absent, r[1], p[2]), r[1], r[2])
    /\ UNCHANGED <<pass, late, ledger, suff, assessed, floored, scopeOf, memory, roundVars>>

FloorTimesOut ==
    /\ phase = "flooring" /\ phase' = "finish" /\ running' = {}
    /\ UNCHANGED <<pass, late, ledger, suff, assessed, floored, takenVars,
                   memory, tries, got, roundVars>>

FreshRounds ==
    /\ loop' = "decide" /\ round' = 0 /\ chained' = FALSE
    /\ wanted' = {} /\ held' = {} /\ asked' = {} /\ failed' = {}

\* The typed facts of the gather reach the ledger; the ad-hoc reads become
\* artifacts that can support nothing.  The working set ends with the pass.
Finish ==
    /\ phase = "finish" /\ phase' = "handed"
    /\ ledger' = Updated(ledger, {})
    /\ FreshRounds /\ seen' = {}
    /\ scopeOf' = [n \in Names |-> Absent] /\ outcome' = [p \in Probes |-> Absent]
    /\ UNCHANGED <<pass, late, suff, assessed, floored, readVars, evidence, cards>>

Deadline ==
    /\ ~late /\ phase \notin {"raised", "over"} /\ late' = TRUE
    /\ UNCHANGED <<phase, pass, ledger, suff, assessed, floored, readVars, takenVars, roundVars>>

\* The steps that wait for nobody, and those that wait for a model or a server.
Control ==
    \/ WideProbes \/ LeaveDecisions \/ LeaveVerification \/ ProbesCut \/ ProbesDone
    \/ QueriesCut \/ QueriesDone \/ TurnEnds \/ SkipReflection \/ FinalGather
    \/ GatherEnds \/ Floor \/ FloorTimesOut \/ Finish
Replies ==
    \/ NoDecision \/ (\E a \in Answers[pass] : Decide(a) \/ Verify(a)) \/ NoReflection
    \/ (\E a \in Reflections[pass] : Reflect(a))
    \/ ProbeDone \/ QueryDone \/ GatherDone \/ FloorDone

InvestigationNext == Control \/ Replies \/ Deadline
================================================================================
