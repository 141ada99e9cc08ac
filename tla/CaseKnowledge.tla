--------------------------- MODULE CaseKnowledge ---------------------------
(***************************************************************************)
(* How an approved analysis becomes runtime knowledge: case snapshots and  *)
(* approval (case_snapshot.go), operator reviews (evaluation.go), the      *)
(* candidate and package lifecycle (knowledge.go, handlers_knowledge.go)   *)
(* and the Postgres rows behind them.  Each store method holds writeMu and *)
(* mu, so it is one action; the calls to the agent (validation, rewriting  *)
(* of actions) and the tail of an analysis goroutine are separate steps.   *)
(***************************************************************************)
EXTENDS Naturals, FiniteSets

CONSTANTS
    Incidents,
    Cases,        \* a case is a run id with one of its analysis hashes
    IncidentOf,   \* the incident of each case; an incident has one run here
    Candidates,   \* a candidate id is a hash of the compiled content
    Eligible,     \* candidates whose content passed every promotion gate
    Fingerprint,  \* the family and mechanism of each candidate
    Compile,      \* what a case compiles to in each review mode
    Reviewers,
    ReviewKinds,  \* the reviews the environment may save
    Curators,     \* who may rewrite a candidate's actions: a reviewer, the agent
    NoCase, NoCand,
    MaxFaults,    \* bound: failed transactions and restarts
    MaxCalls,     \* bound: agent calls in flight at once
    MaxRuns,      \* bound: analyses started
    MaxReviews    \* bound: reviews saved

Modes == {"plain", "confirmed", "novel"}

\* What a saved review says, as far as promotion can tell: it vetoes, scores
\* without naming a family, confirms the family with a successful outcome,
\* confirms it on the operator's own authority, or names a novel cause.
Kinds     == {"veto", "score", "confirm", "operator", "novel"}
Successes == {"confirm", "operator", "novel"}

ASSUME CaseKnowledgeAssumption ==
    /\ IncidentOf \in [Cases -> Incidents]
    /\ Eligible \subseteq Candidates /\ IsFiniteSet(Candidates)
    /\ Compile \in [Cases -> [Modes -> Candidates \cup {NoCand}]]
    /\ DOMAIN Fingerprint = Candidates
    /\ ReviewKinds \subseteq Kinds /\ Curators \subseteq {"human", "llm"}
    /\ NoCase \notin Cases /\ NoCand \notin Candidates
    /\ MaxFaults \in Nat /\ MaxCalls \in Nat /\ MaxRuns \in Nat /\ MaxReviews \in Nat

VARIABLES
    approved,   \* incidents whose user_approved_at is set
    active,     \* activeCaseByIncident
    snap,       \* approval state of each case snapshot in memory
    snapRow,    \* and in rca_case_snapshots
    review,     \* evaluationReviews: by case and reviewer
    run,        \* status and current case of each incident's run
    releasing,  \* completed analyses that have not called AutoRevoke yet
    mem,        \* knowledgeCandidates and knowledgePackages in memory
    rows,       \* and in Postgres
    checking,   \* a decision waiting for the agent's validator
    refining,   \* candidates whose actions the agent is rewriting
    faults, started, saved

caseVars == <<approved, active, snap, snapRow, review, saved>>
runVars  == <<run, releasing, started>>
bookVars == <<mem, rows>>
callVars == <<checking, refining>>
vars     == <<caseVars, runVars, bookVars, callVars, faults>>

CandStatus == {"absent", "ready", "failed", "shadow", "active", "rejected", "superseded"}
Reasons    == {"", "compile", "review", "validator"}
Texts      == {"raw", "human", "llm"}

\* A candidate: its case, the cases that support it, its package, and who
\* wrote the actions it carries.
Candidate ==
    [status : CandStatus, err : Reasons, case : Cases \cup {NoCase},
     support : SUBSET Cases, pkg : Cases \cup {NoCase}, text : Texts]

Absent == [status |-> "absent", err |-> "", case |-> NoCase,
           support |-> {}, pkg |-> NoCase, text |-> "raw"]

\* The package of a case has the id KPK-<case>.
Package ==
    [cand : Candidates \cup {NoCand}, status : {"none", "shadow", "active", "retired"}, text : Texts]

NoPackage == [cand |-> NoCand, status |-> "none", text |-> "raw"]

Book == [cand : [Candidates -> Candidate], pkg : [Cases -> Package]]

Idle == [to |-> "none", text |-> "raw"]
Call == [to : {"none", "shadow", "active"}, text : Texts]

LiveStatus == {"ready", "shadow", "active"}
Published  == {"shadow", "active"}

Init ==
    /\ approved = {}
    /\ active = [i \in Incidents |-> NoCase]
    /\ snap = [c \in Cases |-> "none"]
    /\ snapRow = snap
    /\ review = [c \in Cases |-> [r \in Reviewers |-> "none"]]
    /\ run = [i \in Incidents |-> [status |-> "none", case |-> NoCase]]
    /\ releasing = [i \in Incidents |-> {}]
    /\ mem = [cand |-> [x \in Candidates |-> Absent], pkg |-> [c \in Cases |-> NoPackage]]
    /\ rows = mem
    /\ checking = [x \in Candidates |-> Idle]
    /\ refining = {}
    /\ faults = 0 /\ started = 0 /\ saved = 0

(***************************************************************************)
(* What the reviews of a case allow it to become                           *)
(***************************************************************************)
Given(R, c) == {R[c][r] : r \in Reviewers} \ {"none"}

\* One veto, or a novel review of a case without an open-world candidate,
\* closes the case; otherwise one successful confirmation opens it.
Allows(R, c) ==
    /\ "veto" \notin Given(R, c)
    /\ "novel" \in Given(R, c) => Compile[c]["novel"] # NoCand
    /\ Given(R, c) \cap Successes # {}

Mode(R, c) ==
    IF "novel" \in Given(R, c) THEN "novel"
    ELSE IF "operator" \in Given(R, c) THEN "confirmed" ELSE "plain"

Recompute(R, c) == IF Allows(R, c) THEN Compile[c][Mode(R, c)] ELSE NoCand

Promotable(R, c) == Recompute(R, c) \in Eligible

(***************************************************************************)
(* Changes to a book, applied to memory and, as SQL, to the rows           *)
(***************************************************************************)
NewCandidate(c, x) ==
    [status |-> IF x \in Eligible THEN "ready" ELSE "failed",
     err |-> IF x \in Eligible THEN "" ELSE "compile",
     case |-> c, support |-> {c}, pkg |-> NoCase, text |-> "raw"]

SetStatus(b, X, st, why) ==
    [b EXCEPT !.cand = [x \in Candidates |->
        IF x \in X THEN [b.cand[x] EXCEPT !.status = st, !.err = IF why = "" THEN @ ELSE why]
        ELSE b.cand[x]]]

RetireIn(b, P) ==
    [b EXCEPT !.pkg = [p \in Cases |->
        IF p \in P THEN [b.pkg[p] EXCEPT !.status = "retired"] ELSE b.pkg[p]]]

LinkIn(b, c, x) ==
    LET known == b.cand[x]
    IN  [b EXCEPT !.cand[x] = IF known.status = "absent" THEN NewCandidate(c, x)
                              ELSE [known EXCEPT !.support = @ \cup {c}]]

ReviveIn(b, x) ==
    [b EXCEPT !.cand[x] = [@ EXCEPT !.status = "ready", !.err = "", !.pkg = NoCase, !.text = "raw"]]

\* Memory and rows change together, from what memory says.
Both == [mem |-> mem, rows |-> rows]
\* Mutant: a retirement that never reaches the row.
DropInMemory(s, P) == [s EXCEPT !.mem = RetireIn(s.mem, P)]
Set(s, X, st, why) == [mem |-> SetStatus(s.mem, X, st, why), rows |-> SetStatus(s.rows, X, st, why)]
Drop(s, P)         == [mem |-> RetireIn(s.mem, P), rows |-> RetireIn(s.rows, P)]
Link(s, c, x)      == [mem |-> LinkIn(s.mem, c, x), rows |-> LinkIn(s.rows, c, x)]
Revive(s, x)       == [mem |-> ReviveIn(s.mem, x), rows |-> ReviveIn(s.rows, x)]

Supporting(b, c) == {x \in Candidates : c \in b.cand[x].support}

\* A failed or undecided sibling makes room for the candidate that replaces
\* it; the transactions of the candidates in lost fail.
SupersedeStale(s, c, keep, lost) ==
    LET stale == {x \in Supporting(s.mem, c) \ (lost \cup {keep}) : s.mem.cand[x].status = "failed"}
    IN  Set(s, stale, "superseded", "")

\* Mutant: withdrawing only what is still under review.
InvalidatedInReview(s, R, c, lost) ==
    LET gone == {x \in Supporting(s.mem, c) \ lost : s.mem.cand[x].status = "ready"}
    IN  IF Promotable(R, c) THEN s ELSE Set(s, gone, "failed", "review")

\* A case that no longer compiles withdraws what it supports.
Invalidated(s, R, c, lost) ==
    LET gone == {x \in Supporting(s.mem, c) \ lost : s.mem.cand[x].status \in LiveStatus}
        pkgs == {p \in Cases : s.mem.pkg[p].status \in Published /\ \E x \in gone : s.mem.cand[x].pkg = p}
    IN  IF Promotable(R, c) THEN s ELSE Drop(Set(s, gone, "failed", "review"), pkgs)

\* The SQL touches a row only in the status it expects.
RowIn(s, x, sts) == s.rows.cand[x].status \in sts

Revivable(s, x) ==
    /\ x \in Eligible
    /\ \/ s.mem.cand[x].status = "superseded"
       \/ s.mem.cand[x].status = "failed" /\ s.mem.cand[x].err = "review"

\* A withdrawn candidate returns only when all its cases confirm it again and
\* no live sibling took its place.
MayRevive(s, R, c, x) ==
    /\ RowIn(s, x, {"failed", "superseded"})
    /\ \A d \in s.mem.cand[x].support : Recompute(R, d) = x
    /\ \A y \in Supporting(s.mem, c) \ {x} : s.mem.cand[y].status \notin LiveStatus

\* Mutant: making room before the new candidate is on record.
GeneratedUnrecorded(s, R, c, lost) ==
    LET x == Recompute(R, c)
    IN  IF x = NoCand \/ snap[c] # "active" THEN s
        ELSE SupersedeStale(IF x \in lost THEN s ELSE Link(s, c, x), c, x, lost)

\* A successful outcome generates the candidate of an approved case.
Generated(s, R, c, lost) ==
    LET x == Recompute(R, c)
        Done(t) == SupersedeStale(t, c, x, lost)
    IN  IF x = NoCand \/ x \in lost \/ snap[c] # "active" THEN s
        ELSE IF s.mem.cand[x].status = "failed" /\ x \notin Eligible
        THEN IF RowIn(s, x, {"failed"}) THEN Done(Set(s, {x}, "failed", "compile")) ELSE s
        ELSE IF Revivable(s, x)
        THEN IF MayRevive(s, R, c, x) THEN Done(Revive(s, x)) ELSE s
        ELSE Done(Link(s, c, x))

Store(s) == mem' = s.mem /\ rows' = s.rows

Fail(n) == faults + n <= MaxFaults /\ faults' = faults + n

\* The sets of candidates of X whose transactions may still fail.
Losable(X) == {lost \in SUBSET X : faults + Cardinality(lost) <= MaxFaults}

(***************************************************************************)
(* Analyses                                                                *)
(***************************************************************************)
StartRun(i) ==
    /\ run[i].status # "analyzing" /\ started < MaxRuns
    /\ started' = started + 1
    /\ run' = [run EXCEPT ![i].status = "analyzing"]
    /\ UNCHANGED <<releasing, caseVars, bookVars, callVars, faults>>

\* Mutant: the tail of the goroutine that releases approvals is missing.
CompleteRunUnreleased(i, c) ==
    /\ run[i].status = "analyzing" /\ IncidentOf[c] = i
    /\ run' = [run EXCEPT ![i] = [status |-> "complete", case |-> c]]
    /\ UNCHANGED <<releasing, started, caseVars, bookVars, callVars, faults>>

\* The result is stored; its goroutine still has to release a superseded
\* approval.
CompleteRun(i, c) ==
    /\ run[i].status = "analyzing" /\ IncidentOf[c] = i
    /\ run' = [run EXCEPT ![i] = [status |-> "complete", case |-> c]]
    /\ releasing' = [releasing EXCEPT ![i] = @ \cup {c}]
    /\ UNCHANGED <<started, caseVars, bookVars, callVars, faults>>

\* A failed attempt keeps the text and the hash of the last success.
FailRun(i) ==
    /\ run[i].status = "analyzing"
    /\ run' = [run EXCEPT ![i].status = "failed"]
    /\ UNCHANGED <<releasing, started, caseVars, bookVars, callVars, faults>>

\* AutoRevokeSupersededApproval: a different result releases the approval,
\* deletes the reviews of the approved text and withdraws its knowledge.
ReleaseSuperseded(i, old, lost) ==
    LET R == [review EXCEPT ![old] = [r \in Reviewers |-> "none"]]
    IN  /\ Fail(Cardinality(lost))
        /\ snap' = [snap EXCEPT ![old] = "revoked"]
        /\ snapRow' = [snapRow EXCEPT ![old] = "revoked"]
        /\ active' = [active EXCEPT ![i] = NoCase]
        /\ approved' = approved \ {i}
        /\ review' = R /\ UNCHANGED saved
        /\ Store(Invalidated(Both, R, old, lost))

AutoRevoke(i, c) ==
    LET old == active[i] IN
    /\ c \in releasing[i]
    /\ releasing' = [releasing EXCEPT ![i] = @ \ {c}]
    /\ \/ /\ i \notin approved \/ old = c
          /\ UNCHANGED <<caseVars, bookVars, faults>>
       \/ /\ i \in approved /\ old = NoCase
          /\ approved' = approved \ {i}
          /\ UNCHANGED <<active, snap, snapRow, review, saved, bookVars, faults>>
       \/ /\ i \in approved /\ old \notin {c, NoCase}
          /\ \/ \E lost \in Losable(Supporting(mem, old)) : ReleaseSuperseded(i, old, lost)
             \/ Fail(1) /\ UNCHANGED <<caseVars, bookVars>>
    /\ UNCHANGED <<run, started, callVars>>

(***************************************************************************)
(* Approval of an incident: POST /incidents/{id}/resolve                   *)
(***************************************************************************)
\* Without a completed analysis the approval binds no case.
ApprovePlain(i) ==
    /\ i \notin approved /\ run[i].status # "complete"
    /\ approved' = approved \cup {i}
    /\ UNCHANGED <<active, snap, snapRow, review, saved, runVars, bookVars, callVars, faults>>

ApproveNew(i) ==
    LET c == run[i].case
        x == Recompute(review, c)
    IN  /\ i \notin approved /\ run[i].status = "complete" /\ snap[c] = "none"
        /\ approved' = approved \cup {i}
        /\ active' = [active EXCEPT ![i] = c]
        /\ snap' = [snap EXCEPT ![c] = "active"]
        /\ snapRow' = [snapRow EXCEPT ![c] = "active"]
        /\ IF x = NoCand THEN UNCHANGED bookVars ELSE Store(Link(Both, c, x))
        /\ UNCHANGED <<review, saved, runVars, callVars, faults>>

\* A snapshot that exists is activated again.  A case without a candidate
\* gets one, which replaces whatever memory holds under its id; the rows
\* only gain the link.
ApproveAgain(i) ==
    LET c == run[i].case
        x == Recompute(review, c)
        mint == Supporting(mem, c) = {} /\ x # NoCand
    IN  /\ i \notin approved /\ run[i].status = "complete" /\ snap[c] # "none"
        /\ snap' = [snap EXCEPT ![c] = "active"]
        /\ \/ /\ approved' = approved \cup {i}
              /\ active' = [active EXCEPT ![i] = c]
              /\ snapRow' = [snapRow EXCEPT ![c] = "active"]
              /\ IF mint THEN /\ mem' = [mem EXCEPT !.cand[x] = NewCandidate(c, x)]
                              /\ rows' = LinkIn(rows, c, x)
                 ELSE UNCHANGED bookVars
              /\ UNCHANGED faults
           \/ /\ Fail(1)
              /\ UNCHANGED <<approved, active, snapRow, bookVars>>
           \/ /\ mint /\ Fail(1)
              /\ active' = [active EXCEPT ![i] = c]
              /\ snapRow' = [snapRow EXCEPT ![c] = "active"]
              /\ UNCHANGED <<approved, bookVars>>
        /\ UNCHANGED <<review, saved, runVars, callVars>>

Unapprove(i) ==
    LET c == active[i] IN
    /\ i \in approved
    /\ approved' = approved \ {i}
    /\ active' = [active EXCEPT ![i] = NoCase]
    /\ snap' = [d \in Cases |-> IF d = c THEN "revoked" ELSE snap[d]]
    /\ snapRow' = [d \in Cases |-> IF d = c THEN "revoked" ELSE snapRow[d]]
    /\ UNCHANGED <<review, saved, runVars, bookVars, callVars, faults>>

(***************************************************************************)
(* Reviews                                                                 *)
(***************************************************************************)
\* UpsertEvaluationReview: a review is bound to the run's current hash, also
\* while a re-analysis runs.
SaveReview(i, r, kind) ==
    LET c == run[i].case
        R == [review EXCEPT ![c][r] = kind]
        Withdrawn(lost) == Invalidated(Both, R, c, lost)
    IN  /\ c # NoCase /\ saved < MaxReviews /\ saved' = saved + 1
        /\ review' = R
        /\ \E lost \in Losable((Supporting(mem, c) \cup {Recompute(R, c)}) \ {NoCand}) :
              /\ Store(IF kind \in Successes THEN Generated(Withdrawn(lost), R, c, lost)
                       ELSE Withdrawn(lost))
              /\ Fail(Cardinality(lost))
        /\ UNCHANGED <<approved, active, snap, snapRow, runVars, callVars>>

(***************************************************************************)
(* Decisions on candidates and packages                                    *)
(***************************************************************************)
Calls == Cardinality(refining) + Cardinality({x \in Candidates : checking[x] # Idle})

\* approve and shadow read the candidate without the lock and post its
\* compiled payload to the agent.
CheckStart(x, to) ==
    /\ mem.cand[x].status # "absent" /\ x \in Eligible
    /\ checking[x] = Idle /\ Calls < MaxCalls
    /\ checking' = [checking EXCEPT ![x] = [to |-> to, text |-> mem.cand[x].text]]
    /\ UNCHANGED <<refining, caseVars, runVars, bookVars, faults>>

Reviewable(k) == k.status = "ready" \/ (k.status = "failed" /\ k.err = "validator")

\* Active packages of the same fingerprint, other than the ones excluded.
Priors(x, own) ==
    {p \in Cases \ own : mem.pkg[p].status = "active" /\ mem.cand[mem.pkg[p].cand].status # "absent"
                                            /\ Fingerprint[mem.pkg[p].cand] = Fingerprint[x]}

\* Mutant: the prior package is not looked up.
ChoicesNone(S) == {{}}

Choices(S) == IF S = {} THEN {{}} ELSE {{p} : p \in S}

\* Memory supersedes the owner of the prior package whatever its status, the
\* rows only an active one.
SupersedePrior(b, P) ==
    SetStatus(RetireIn(b, P),
              {y \in {mem.pkg[p].cand : p \in P} : b = mem \/ b.cand[y].status = "active"}, "superseded", "")

PublishIn(b, x, to) ==
    LET c == mem.cand[x].case
        text == mem.cand[x].text
    IN  [b EXCEPT !.cand[x] = [@ EXCEPT !.status = to, !.err = "", !.pkg = c, !.text = text],
                  !.pkg[c] = [cand |-> x, status |-> to, text |-> text]]

\* A live package gives way only to its own candidate or to the candidate
\* that retires it in the same transaction.
RowAccepts(x, P) ==
    LET c == mem.cand[x].case
        q == rows.pkg[c]
    IN  /\ rows.cand[x].status \in {"ready", "failed"}
        /\ q.status \in {"none", "retired"} \/ q.cand = x \/ (c \in P /\ q.status = "active")

\* ApproveKnowledgeCandidate and ShadowKnowledgeCandidate, after validation.
CheckPasses(x) ==
    LET to   == checking[x].to
        mine == {p \in Cases : mem.pkg[p].cand = x}
    IN  /\ checking[x] # Idle
        /\ Reviewable(mem.cand[x])
        /\ Recompute(review, mem.cand[x].case) = x
        /\ \E P \in Choices(IF to = "active" THEN Priors(x, mine) ELSE {}) :
              /\ RowAccepts(x, P)
              /\ mem' = PublishIn(SupersedePrior(mem, P), x, to)
              /\ rows' = PublishIn(SupersedePrior(rows, P), x, to)
        /\ checking' = [checking EXCEPT ![x] = Idle]
        /\ UNCHANGED <<refining, caseVars, runVars, faults>>

\* The agent rejects the payload: FailKnowledgeCandidateValidation.
CheckRejects(x) ==
    /\ checking[x] # Idle
    /\ IF mem.cand[x].status \in {"ready", "failed"} THEN Store(Set(Both, {x}, "failed", "validator"))
       ELSE UNCHANGED bookVars
    /\ checking' = [checking EXCEPT ![x] = Idle]
    /\ UNCHANGED <<refining, caseVars, runVars, faults>>

\* The agent is unreachable, or the decision is refused or not persisted.
CheckFails(x) ==
    /\ checking[x] # Idle
    /\ checking' = [checking EXCEPT ![x] = Idle]
    /\ UNCHANGED <<refining, caseVars, runVars, bookVars, faults>>

ShadowPair(b, x) == b.cand[x].status = "shadow" /\ b.cand[x].pkg # NoCase /\ b.pkg[b.cand[x].pkg].status = "shadow"

Activate(x) ==
    LET p == mem.cand[x].pkg
        ActivateIn(b, P) == [SupersedePrior(b, P) EXCEPT !.cand[x].status = "active", !.pkg[p].status = "active"]
    IN  /\ ShadowPair(mem, x) /\ Recompute(review, mem.cand[x].case) = x
        /\ ShadowPair(rows, x)
        /\ \E P \in Choices(Priors(x, {p})) :
              /\ mem' = ActivateIn(mem, P)
              /\ rows' = ActivateIn(rows, P)
        /\ UNCHANGED <<caseVars, runVars, callVars, faults>>

RejectShadow(x) ==
    /\ ShadowPair(mem, x) /\ ShadowPair(rows, x)
    /\ Store(Drop(Set(Both, {x}, "rejected", ""), {mem.cand[x].pkg}))
    /\ UNCHANGED <<caseVars, runVars, callVars, faults>>

Reject(x) ==
    /\ mem.cand[x].status = "ready" /\ rows.cand[x].status = "ready"
    /\ Store(Set(Both, {x}, "rejected", ""))
    /\ UNCHANGED <<caseVars, runVars, callVars, faults>>

\* The package leaves the runtime; its candidate stays active.
Retire(p) ==
    /\ mem.pkg[p].status = "active" /\ rows.pkg[p].status = "active"
    /\ Store(Drop(Both, {p}))
    /\ UNCHANGED <<caseVars, runVars, callVars, faults>>

Delete(x) ==
    /\ mem.cand[x].status \in {"failed", "rejected"}
    /\ \A p \in Cases : mem.pkg[p].cand = x => mem.pkg[p].status = "retired"
    /\ mem' = [mem EXCEPT !.cand[x] = Absent]
    /\ rows' = [rows EXCEPT !.cand[x] = Absent]
    /\ UNCHANGED <<caseVars, runVars, callVars, faults>>

Curated(x, text) ==
    /\ mem' = [mem EXCEPT !.cand[x].text = text]
    /\ rows' = [rows EXCEPT !.cand[x].text = text]

\* A reviewer rewrites the actions of a candidate in review.
EditActions(x) ==
    /\ "human" \in Curators
    /\ mem.cand[x].status = "ready" /\ rows.cand[x].status = "ready"
    /\ Curated(x, "human")
    /\ UNCHANGED <<caseVars, runVars, callVars, faults>>

RefineStart(x) ==
    /\ "llm" \in Curators
    /\ mem.cand[x].status = "ready" /\ mem.cand[x].text = "raw" /\ x \notin refining
    /\ Calls < MaxCalls
    /\ refining' = refining \cup {x}
    /\ UNCHANGED <<checking, caseVars, runVars, bookVars, faults>>

\* Mutant: the rewriting applies to whatever text is there.
RefinableReady(x) == mem.cand[x].status = "ready"

\* The agent's rewriting applies only to the text it was asked about.
Refinable(x) == mem.cand[x].status = "ready" /\ mem.cand[x].text = "raw"

RefineEnd(x) ==
    /\ x \in refining
    /\ refining' = refining \ {x}
    /\ \/ Refinable(x) /\ rows.cand[x].status = "ready" /\ Curated(x, "llm")
       \/ UNCHANGED bookVars
    /\ UNCHANGED <<checking, caseVars, runVars, faults>>

\* A restart loads the rows; calls and goroutines in flight are gone.
Restart ==
    /\ Fail(1)
    /\ mem' = rows
    /\ snap' = snapRow
    /\ \E f \in [Incidents -> Cases \cup {NoCase}] :
          /\ \A i \in Incidents :
                LET bound == {c \in Cases : IncidentOf[c] = i /\ snapRow[c] = "active"}
                IN  f[i] \in IF bound = {} THEN {NoCase} ELSE bound
          /\ active' = f
    /\ releasing' = [i \in Incidents |-> {}]
    /\ checking' = [x \in Candidates |-> Idle]
    /\ refining' = {}
    /\ UNCHANGED <<approved, snapRow, review, saved, run, started, rows>>

Next ==
    \/ \E i \in Incidents :
          \/ StartRun(i) \/ FailRun(i)
          \/ ApprovePlain(i) \/ ApproveNew(i) \/ ApproveAgain(i) \/ Unapprove(i)
          \/ \E c \in Cases : CompleteRun(i, c) \/ AutoRevoke(i, c)
          \/ \E r \in Reviewers, kind \in ReviewKinds : SaveReview(i, r, kind)
    \/ \E x \in Candidates :
          \/ \E to \in Published : CheckStart(x, to)
          \/ CheckPasses(x) \/ CheckRejects(x) \/ CheckFails(x)
          \/ Activate(x) \/ RejectShadow(x) \/ Reject(x) \/ Delete(x)
          \/ EditActions(x) \/ RefineStart(x) \/ RefineEnd(x)
    \/ \E p \in Cases : Retire(p)
    \/ Restart

Spec == Init /\ [][Next]_vars

(***************************************************************************)
(* Properties                                                              *)
(***************************************************************************)
\* Every variable keeps its type.
TypeOK ==
    /\ approved \subseteq Incidents
    /\ active \in [Incidents -> Cases \cup {NoCase}]
    /\ snap \in [Cases -> {"none", "active", "revoked"}]
    /\ snapRow \in [Cases -> {"none", "active", "revoked"}]
    /\ review \in [Cases -> [Reviewers -> Kinds \cup {"none"}]]
    /\ run \in [Incidents -> [status : {"none", "analyzing", "complete", "failed"}, case : Cases \cup {NoCase}]]
    /\ releasing \in [Incidents -> SUBSET Cases]
    /\ mem \in Book /\ rows \in Book
    /\ checking \in [Candidates -> Call]
    /\ refining \subseteq Candidates
    /\ faults \in 0..MaxFaults /\ started \in 0..MaxRuns /\ saved \in 0..MaxReviews

\* The runtime gets at most one active package for a family and mechanism:
\* approving or activating a candidate retires the prior package, whichever
\* incident it came from (knowledge.go:1516, 1640).  This, LiveIsConfirmed,
\* StatusMatchesRow and ReplacedOnRecord are promised while no two cases compile
\* to the same candidate; with content shared between cases the code keeps none
\* of them (CK_stated.cfg).
OneActivePackage ==
    \A p, q \in Cases :
        /\ mem.pkg[p].status = "active" /\ mem.pkg[q].status = "active"
        /\ Fingerprint[mem.pkg[p].cand] = Fingerprint[mem.pkg[q].cand]
        => p = q

\* Rejection is an operator's decision: no review, approval or late answer of
\* the agent brings a rejected candidate back (evaluation.go:343).
RejectedTerminal ==
    [][\A x \in Candidates :
          mem.cand[x].status = "rejected" => mem'.cand[x].status \in {"rejected", "absent"}]_vars

\* The agent's rewriting never replaces what a reviewer wrote meanwhile
\* (knowledge.go:467).
HumanEditWins ==
    [][\A x \in Candidates : mem.cand[x].text = "human" => mem'.cand[x].text # "llm"]_vars

\* While every transaction succeeds, a candidate under review or in use is
\* confirmed by the reviews of every case that supports it (evaluation.go:451).
LiveIsConfirmed ==
    faults = 0 =>
        \A x \in Candidates : mem.cand[x].status \in LiveStatus =>
            \A c \in mem.cand[x].support : Promotable(review, c)

\* An approval that names another analysis than the current one is about to
\* be released (analysis_runs.go:176), unless a restart or a failed write
\* came between.
ApprovalIsCurrent ==
    faults = 0 =>
        \A i \in approved : active[i] \notin {NoCase, run[i].case} => releasing[i] # {}

\* Memory and Postgres agree on every candidate and package
\* (store_postgres.go:1790).
StatusMatchesRow ==
    /\ \A x \in Candidates : mem.cand[x].status = rows.cand[x].status
    /\ \A c \in Cases : mem.pkg[c] = rows.pkg[c]

\* A failed write never takes a candidate off the review queue before the one
\* that replaces it is on record (evaluation.go:397).
ReplacedOnRecord ==
    [][\A x \in Candidates :
          /\ mem.cand[x].status = "failed" /\ mem'.cand[x].status = "superseded"
          => \E y \in Candidates \ {x} : rows'.cand[y].support \cap mem.cand[x].support # {}]_vars

(***************************************************************************)
(* What the comments say and the code does not do                          *)
(***************************************************************************)
\* What is published is what the agent validated (handlers_knowledge.go:298).
PublishedWasValidated ==
    [][\A x \in Candidates :
          /\ checking[x] # Idle /\ checking'[x] = Idle
          /\ mem.cand[x].status \notin Published /\ mem'.cand[x].status \in Published
          => mem'.cand[x].text = checking[x].text]_vars

=============================================================================
