---------------------------- MODULE AgentPipeline ---------------------------
(***************************************************************************)
(* One run of the analysis agent after its target is known: collect,       *)
(* rank, self-check, bounded targeted re-analysis, failover from a refuted *)
(* leader, synthesis, and the harness that publishes or abstains.          *)
(***************************************************************************)
EXTENDS RcaReview

CONSTANTS
    Settings,    \* the configurations and alerts a run may start from
    Boards,      \* the first sets of cards the collectors may bring
    Finds,       \* what one targeted follow-up may add: sets of cards
    Hypotheses,  \* the novel hypotheses an investigator may support
    Opinions,    \* what the self-check model may answer
    MaxRepairs   \* max_rca_repair_attempts

\* The catalog holds the hardware fault and the families of the typed container
\* states (load_family_catalog, _DISPOSITIVE_TYPED_REASONS) and never the verdict
\* of no cause; boards are finite lists of numbered cards.
Entries == Seq([name : STRING, fam : STRING, strong : BOOLEAN, alert : BOOLEAN])
PipelineAssumption ==
    /\ Catalog \in Seq(STRING) /\ GpuFault \in Families /\ {Insufficient, ""} \cap Families = {}
    /\ Issues \in Entries /\ Symptoms \in Entries
    /\ \A board \in Boards \cup Finds :
         /\ IsFiniteSet(board)
         /\ \A c \in board : c.id \in Nat /\ c.typed \in Families \cup {""}
    /\ IsFiniteSet(Hypotheses)
    /\ \A s \in Settings : s.rounds \in Nat /\ IsFiniteSet(s.ctx.blastAgents)
ASSUME PipelineAssumption

VARIABLES
    stage,      \* where the run is
    env,        \* its settings and its alert
    cards,      \* the cards on the board
    ledger,     \* the supported novel hypotheses of the investigation
    late,       \* the time reserved for finalization has begun
    cands,      \* root_cause_candidates
    refuted,    \* self_check_refuted
    asks,       \* a caveat and a next check are recorded
    attempted,  \* the families the re-analysis aimed at
    fresh,      \* the families the last follow-up brought support for
    round,
    probe,      \* the follow-up in progress: [fam, refuted]
    note,       \* the family the last re-analysis note concluded
    doc,        \* the report: the cards it cites, its unguarded actions...
    left,       \* context["evidence_links"] of the last evaluation
    repairs,
    resp,       \* the response
    judged      \* per family, its latest self-check in this run

vars == <<stage, env, cards, ledger, late, cands, refuted, asks, attempted, fresh,
          round, probe, note, doc, left, repairs, resp, judged>>

NoProbe == [fam |-> "", refuted |-> ""]
NoDoc   == [cites |-> {}, trace |-> FALSE, unsafe |-> FALSE, checks |-> FALSE,
            actions |-> FALSE]
NoResp  == [status |-> "none", fam |-> "", top |-> NoCause, also |-> <<>>,
            gates |-> {}, support |-> {}, lastWord |-> ""]

Top == cands[1]
Headline == IF cands = <<>> THEN "" ELSE Top.fam
AllFamilies == Families \cup {h.fam : h \in Hypotheses} \cup {Insufficient}
                 \cup {Issues[i].fam : i \in DOMAIN Issues}
Judge(f, bad) == [judged EXCEPT ![f] = IF bad THEN "refuted" ELSE "passed"]
Answers == IF env.llm THEN Opinions
           ELSE {[answered |-> FALSE, supported |-> TRUE, conf |-> High, asks |-> FALSE]}

Init ==
    /\ stage = "evidence"
    /\ env \in Settings
    /\ cards = {} /\ ledger = {} /\ late = FALSE
    /\ cands = <<>> /\ refuted = FALSE /\ asks = FALSE
    /\ attempted = {} /\ fresh = {} /\ round = 0 /\ probe = NoProbe /\ note = ""
    /\ doc = NoDoc /\ left = NoLinks /\ repairs = 0 /\ resp = NoResp
    /\ judged = [f \in AllFamilies |-> "unchecked"]

reviewVars  == <<refuted, asks, judged>>
loopVars    == <<attempted, fresh, round, probe, note>>
outputVars  == <<doc, left, repairs, resp>>

-----------------------------------------------------------------------------
(* Evidence and ranking *)

\* evidence_stage: the investigator where it is enabled, every collector
\* otherwise; only the investigator fills the ledger.
Collect ==
    /\ stage = "evidence"
    /\ cards' \in Boards
    /\ ledger' \in IF env.loop THEN SUBSET Hypotheses ELSE {{}}
    /\ stage' = "rank"
    /\ UNCHANGED <<env, late, cands, reviewVars, loopVars, outputVars>>

\* The evidence deadline passes; it leaves the time finalization needs.
Expire ==
    /\ env.deadline /\ ~late
    /\ stage \in {"loop", "probe"}
    /\ late' = TRUE
    /\ UNCHANGED <<stage, env, cards, ledger, cands, reviewVars, loopVars, outputVars>>

Promoted(ranked, board) == PromoteSignature(ranked, board, env.alert, Issues, Symptoms)
Merged(known, board, hypotheses) ==
    IF env.mode = "authoritative" THEN MergeOpenWorld(known, hypotheses, board) ELSE known

RankStage ==
    /\ stage = "rank"
    /\ cands' = Merged(Promoted(Rank(cards, env.down, env.ctx, 3), cards), cards, ledger)
    /\ stage' = "check"
    /\ UNCHANGED <<env, cards, ledger, late, reviewVars, loopVars, outputVars>>

SelfCheckStage ==
    /\ stage = "check"
    /\ \E v \in Answers :
         LET check == SelfCheck(Top, cards, v)
         IN  /\ cands' = [cands EXCEPT ![1].conf = check.conf]
             /\ refuted' = check.refuted
             /\ asks' = check.asks
             /\ judged' = Judge(Top.fam, check.refuted)
    /\ stage' = IF env.loop THEN "loop" ELSE "resolve"
    /\ UNCHANGED <<env, cards, ledger, late, loopVars, outputVars>>

-----------------------------------------------------------------------------
(* Targeted re-analysis *)

NeedsMore ==
    \/ refuted
    \/ Top.fam = Insufficient
    \/ Top.conf = Low
    \/ Top.conf = Medium /\ asks

RefutedFamily == IF refuted THEN Top.fam ELSE ""

FirstNotIn(seq, out) ==
    LET open == SelectSeq(seq, LAMBDA f : f \notin out)
    IN  IF open = <<>> THEN {} ELSE {open[1]}

\* Where the next pass may aim: support that just arrived, then what remains
\* after a refutation, then the leader, the plan, and the gaps of the evidence.
Targets ==
    LET out    == attempted \cup {RefutedFamily, Insufficient}
        names(cs) == [i \in DOMAIN cs |-> cs[i].fam]
        others == IF ~refuted THEN {}
                  ELSE LET behind == FirstNotIn(names(Tail(cands)), out)
                       IN  IF behind # {} THEN behind
                           ELSE FirstNotIn(names(Rank(cards, env.down, env.ctx, 5)), out)
    IN  IF fresh \ out # {} THEN fresh \ out
        ELSE IF others # {} THEN others
        ELSE FirstNotIn(<<Top.fam>> \o env.plan
                          \o IF env.gaps THEN <<"evidence_gap">> ELSE <<>>, out)

Aim ==
    /\ stage = "loop"
    /\ round < env.rounds
    /\ NeedsMore /\ ~late
    /\ \E f \in Targets :
         /\ probe' = [fam |-> f, refuted |-> RefutedFamily]
         /\ attempted' = attempted \cup {f}
    /\ round' = round + 1
    /\ stage' = "probe"
    /\ UNCHANGED <<env, cards, ledger, late, cands, reviewVars, fresh, note, outputVars>>

Settle ==
    /\ stage = "loop"
    /\ \/ round = env.rounds
       \/ ~NeedsMore
       \/ late
       \/ Targets = {}
    /\ stage' = "resolve"
    /\ UNCHANGED <<env, cards, ledger, late, cands, reviewVars, loopVars, outputVars>>

\* The follow-up raised: the first result is kept and the loop ends.
ProbeFails ==
    /\ stage = "probe"
    /\ stage' = "resolve"
    /\ UNCHANGED <<env, cards, ledger, late, cands, reviewVars, loopVars, outputVars>>

Checked(list, board, v) ==
    IF late THEN [conf |-> list[1].conf, refuted |-> FALSE, asks |-> FALSE]
    ELSE SelfCheck(list[1], board, v)

\* One follow-up: its cards join the board, everything is ranked again without
\* the refuted family, and the new leader is checked unless time ran out.
Reanalyze ==
    /\ stage = "probe"
    /\ \E found \in Finds, more \in {{}, Hypotheses}, v \in Answers :
         LET board == cards \cup found
         IN  /\ cards' = board
             /\ ledger' = ledger \cup more
             /\ fresh' = {f \in Families : Backing(f, board \ cards) # {}}
             /\ \E list \in {ExcludeRefuted(Promoted(Rank(board, env.down, env.ctx, 3), board),
                                             probe.refuted)} :
                \E check \in {Checked(list, board, v)} :
                  /\ note' = list[1].fam
                  /\ refuted' = check.refuted
                  /\ asks' = check.asks
                  /\ judged' = IF late THEN judged ELSE Judge(list[1].fam, check.refuted)
                  /\ cands' = Merged([list EXCEPT ![1].conf = check.conf], board, ledger')
             /\ stage' = IF cands'[1].fam = Top.fam /\ found \subseteq cards
                         THEN "resolve" ELSE "loop"
    /\ probe' = NoProbe
    /\ UNCHANGED <<env, late, attempted, round, outputVars>>

-----------------------------------------------------------------------------
(* Failover from a refuted leader *)

Alternatives(list) == Others(Tail(list), Insufficient)
AsLow(c) == [c EXCEPT !.conf = Low]

\* The first sound alternative leads; those checked before it keep the
\* confidence their check left, the old leader goes last at low.
Replaced(list, alts, check, first) ==
    LET graded(i) == [alts[i] EXCEPT !.conf = check[i].conf]
        kept == Others([i \in DOMAIN alts |-> IF i <= first THEN graded(i) ELSE alts[i]],
                       alts[first].fam)
    IN  [list |-> <<graded(first)>> \o Named(Tail(list), Insufficient)
                    \o kept \o <<AsLow(list[1])>>,
         refuted |-> FALSE, asks |-> check[first].asks,
         bad |-> {alts[i].fam : i \in 1..(first - 1)}, good |-> {alts[first].fam}]

\* No alternative holds: the ranking abstains and keeps them all at low.
Exhausted(list, alts, check) ==
    [list |-> <<NoCause, AsLow(list[1])>> \o [i \in DOMAIN alts |-> AsLow(alts[i])],
     refuted |-> TRUE, asks |-> IF alts = <<>> THEN asks ELSE check[Len(alts)].asks,
     bad |-> {alts[i].fam : i \in DOMAIN alts}, good |-> {}]

FirstSound(list, alts, check) ==
    LET sound == {i \in DOMAIN alts : ~check[i].refuted}
    IN  IF sound = {} THEN Exhausted(list, alts, check)
        ELSE Replaced(list, alts, check, Min(sound))

\* Each alternative is checked, in order, before it may become the headline.
\* The result: the list, whether it stays refuted, and the families checked.
Failover(list, board, views) ==
    FirstSound(list, Alternatives(list),
               [i \in DOMAIN Alternatives(list) |->
                  SelfCheck(Alternatives(list)[i], board, views[i])])

Record(old, out) == [f \in AllFamilies |-> IF f \in out.bad THEN "refuted"
                                           ELSE IF f \in out.good THEN "passed" ELSE old[f]]

Views(list) == [1..Len(list) -> Answers]

\* Mutant: only the investigation loop moves off a refuted leader.
ResolveOnlyInLoop ==
    /\ stage = "resolve"
    /\ IF refuted /\ env.loop
       THEN \E views \in Views(cands) :
              LET out == Failover(cands, cards, views)
              IN  /\ cands' = out.list /\ refuted' = out.refuted /\ asks' = out.asks
                  /\ judged' = Record(judged, out)
       ELSE UNCHANGED <<cands, reviewVars>>
    /\ stage' = "synthesize"
    /\ UNCHANGED <<env, cards, ledger, late, loopVars, outputVars>>

Resolve ==
    /\ stage = "resolve"
    /\ IF refuted
       THEN \E views \in Views(cands) :
              LET out == Failover(cands, cards, views)
              IN  /\ cands' = out.list /\ refuted' = out.refuted /\ asks' = out.asks
                  /\ judged' = Record(judged, out)
       ELSE UNCHANGED <<cands, reviewVars>>
    /\ stage' = "synthesize"
    /\ UNCHANGED <<env, cards, ledger, late, loopVars, outputVars>>

-----------------------------------------------------------------------------
(* Synthesis *)

MatchNames == {e.name : e \in {m \in ToSet(Issues) \cup ToSet(Symptoms) : Matches(m, cards)}}
                \cup IF Xid(cards, env.alert) THEN {"XID"} ELSE {}

\* The matches the model does not find in the evidence leave the list; a leader
\* that this brings to the top is checked, and failed over, like the first.
Verified(names, v, views) ==
    LET kept  == DropRefuted(cands, names)
        check == SelfCheck(kept[1], cards, v)
        list  == [kept EXCEPT ![1].conf = check.conf]
        out   == Failover(list, cards, views)
    IN  IF kept[1].fam \in {Insufficient, Top.fam}
        THEN [list |-> kept, refuted |-> refuted, asks |-> asks, judged |-> judged]
        ELSE IF ~check.refuted
        THEN [list |-> list, refuted |-> FALSE, asks |-> check.asks,
              judged |-> Judge(kept[1].fam, FALSE)]
        ELSE [list |-> out.list, refuted |-> out.refuted, asks |-> out.asks,
              judged |-> Record(Judge(kept[1].fam, TRUE), out)]

\* The report may cite every eligible card or leave some uncited, and its
\* wording may hold an action no guardrail precedes.
Reports == {[NoDoc EXCEPT !.cites = IF full THEN {c.id : c \in {d \in cards : d.ok}} ELSE {},
                          !.unsafe = unsafe, !.checks = TRUE, !.actions = full] :
              full \in BOOLEAN, unsafe \in BOOLEAN}

Synthesize ==
    /\ stage = "synthesize"
    /\ \E names \in IF env.llm THEN {{}, MatchNames} \cup {{n} : n \in MatchNames} ELSE {{}},
          v \in Answers, views \in Views(cands) :
         LET out == Verified(names, v, views)
         IN  /\ cands' = out.list /\ refuted' = out.refuted
             /\ asks' = out.asks /\ judged' = out.judged
    /\ doc' \in Reports
    /\ stage' = "harness"
    /\ UNCHANGED <<env, cards, ledger, late, loopVars, left, repairs, resp>>

-----------------------------------------------------------------------------
(* The output harness *)

Claim       == Links(Top, left)
FailedGates == Gates(Top, cards, doc, Claim, env.generic)
Score       == QualityScore(Top, cands, cards, doc, Claim, asks)
Repair      == Repaired(doc, FailedGates, Top, cards, Claim)
Improves    == Repair # doc \/ Downgraded(cands, FailedGates) # cands

Repairable ==
    /\ FailedGates # {} \/ Score < env.passScore
    /\ repairs < MaxRepairs
    /\ Improves

\* An evaluation leaves the links of its claim in the response.
Evaluated == [given |-> TRUE, supp |-> IdsOf(Supporting(Top, cards, Claim)),
              contra |-> IdsOf(ValidAgainst(Top, cards, Claim))]

RepairRound ==
    /\ stage = "harness" /\ env.harness
    /\ Repairable
    /\ doc' = Repair
    /\ cands' = Downgraded(cands, FailedGates)
    /\ left' = Evaluated
    /\ repairs' = repairs + 1
    /\ UNCHANGED <<stage, env, cards, ledger, late, reviewVars, loopVars, resp>>

Response(list, status, gates, support) ==
    [status |-> status, fam |-> list[1].fam, top |-> list[1], also |-> Tail(list),
     gates |-> gates, support |-> support, lastWord |-> ""]

\* The last conclusion the report states: the note of the re-analysis, unless
\* the headline moved on and the report says so at its end.
LastWord(final) == IF note # "" /\ note # final THEN final ELSE note

Publish ==
    /\ stage = "harness" /\ env.harness
    /\ ~Repairable /\ FailedGates = {}
    /\ resp' = [Response(cands, IF Score < env.passScore THEN "degraded" ELSE "pass",
                         {}, Supporting(Top, cards, Claim))
                 EXCEPT !.lastWord = LastWord(Top.fam)]
    /\ stage' = "done"
    /\ UNCHANGED <<env, cards, ledger, late, cands, reviewVars, loopVars, doc, left, repairs>>

\* The report becomes a stub; it is scored anew, the gates that failed stay those of the report
\* it replaced, the leader stays as a provisional hypothesis.
Abstain ==
    /\ stage = "harness" /\ env.harness
    /\ ~Repairable /\ FailedGates # {}
    /\ cands' = Abstained(cands, cards, Claim)
    /\ doc' = [NoDoc EXCEPT !.checks = TRUE]
    /\ resp' = [Response(Abstained(cands, cards, Claim), "abstained", FailedGates, {})
                 EXCEPT !.lastWord = LastWord(Insufficient)]
    /\ stage' = "done"
    /\ UNCHANGED <<env, cards, ledger, late, reviewVars, loopVars, left, repairs>>

\* Without the harness the synthesized report goes out as it is.
PassThrough ==
    /\ stage = "harness" /\ ~env.harness
    /\ resp' = [Response(cands, "disabled", {}, {})
                 EXCEPT !.lastWord = note]
    /\ stage' = "done"
    /\ UNCHANGED <<env, cards, ledger, late, cands, reviewVars, loopVars, doc, left, repairs>>

Done == stage = "done" /\ UNCHANGED vars

Next ==
    \/ Collect \/ Expire \/ RankStage \/ SelfCheckStage
    \/ Aim \/ Settle \/ ProbeFails \/ Reanalyze \/ Resolve
    \/ Synthesize \/ RepairRound \/ Publish \/ Abstain \/ PassThrough
    \/ Done

Spec == Init /\ [][Next]_vars

-----------------------------------------------------------------------------
(* Properties *)

\* What the harness lets out under a family is supported by eligible cards that
\* the report cites, nothing eligible speaks against it, high confidence has two
\* telemetry planes or an exact signature, and a generic alert has a card of the
\* target itself: however ranking, signatures, failover and repairs got there.
PublishedIsGrounded ==
    stage = "done" /\ resp.status \in {"pass", "degraded"} /\ resp.fam # Insufficient =>
       /\ resp.support # {}
       /\ IdsOf(resp.support) \subseteq doc.cites
       /\ ~doc.unsafe
       /\ \A c \in cards : Permits(c, "contradict") => c.id \notin resp.top.contra
       /\ resp.top.conf = High =>
            ~(Cardinality({c.group : c \in resp.support}) < 2 /\ resp.top.sigs = {})
       /\ env.generic => \E c \in resp.support : c.own

\* A family whose latest self-check refuted it does not reach synthesis as the
\* headline, whatever the loop found, as long as the time was not cut short and
\* the hypotheses of the open world do not reorder a list after its leader was
\* checked (merge_open_world_candidates): a family that an earlier round refuted
\* and this one ranks second could otherwise take the headline unchecked.  With
\* one round the refuted family is still out of the list.
RefutedNeverSynthesized ==
    stage \in {"synthesize", "harness"} => judged[Headline] # "refuted"
CheckedLast == env.mode = "authoritative" => env.rounds <= 1
RefutedNeverSynthesizedInTime ==
    ~env.deadline /\ CheckedLast => RefutedNeverSynthesized
=============================================================================
