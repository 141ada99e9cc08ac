------------------------------ MODULE RcaReview -----------------------------
(***************************************************************************)
(* What may change the ranked list after it exists: an exact signature, a  *)
(* novel hypothesis, the self-check of the leader, the verification of the *)
(* matched signatures and the hard gates of the output harness.            *)
(***************************************************************************)
EXTENDS RcaRanking

Sig(kind, name) == [kind |-> kind, name |-> name]
Kinds(c) == {s.kind : s \in c.sigs}

Others(cands, f) == Picked(cands, {i \in DOMAIN cands : cands[i].fam # f})
Named(cands, f)  == Picked(cands, {i \in DOMAIN cands : cands[i].fam = f})
Listed(cands, f) == \E i \in DOMAIN cands : cands[i].fam = f
Entry(cands, f)  == cands[CHOOSE i \in DOMAIN cands : cands[i].fam = f]

-----------------------------------------------------------------------------
(* Signatures *)

\* The eligible cards whose text carries the keywords of a known issue or symptom.
Carrying(entry, cards) ==
    {c \in cards : Permits(c, "support") /\ entry.name \in c.marks}

Matches(entry, cards) == entry.alert \/ Carrying(entry, cards) # {}

WithSupport(c, sig, floor, carrying) ==
    [c EXCEPT !.conf   = IF @ = Low /\ c.contra = {} THEN Medium ELSE @,
              !.score  = MostOf(@, floor),
              !.agents = @ \cup {"signature"} \cup {d.agent : d \in carrying},
              !.supp   = @ \cup {d.id : d \in carrying},
              !.groups = @ \cup {d.group : d \in carrying},
              !.sigs   = @ \cup {sig}]

\* A match strengthens the leader, or leads itself unless the leader scores
\* higher on cards of its own; a family outside the catalog needs a card.
Lead(cands, e, kind, floor, cards) ==
    LET base == IF Listed(cands, e.fam) THEN Entry(cands, e.fam) ELSE Cause(e.fam, Medium, floor)
    IN  WithSupport(base, Sig(kind, e.name), floor, Carrying(e, cards))

Leads(cands, e, kind, floor, cards) ==
    /\ e.strong
    /\ kind = "known_issue" /\ e.fam \notin Families => Carrying(e, cards) # {}
    /\ kind = "curated_symptom" => e.fam \in Families
    /\ \/ cands = <<>>
       \/ cands[1].fam = e.fam
       \/ cands[1].score <= Lead(cands, e, kind, floor, cards).score
       \/ cands[1].supp = {}

Leading(cands, entries, kind, floor, cards) ==
    {i \in DOMAIN entries : /\ Matches(entries[i], cards)
                            /\ Leads(cands, entries[i], kind, floor, cards)}

\* The first match that may lead does.
PromotedBy(cands, entries, kind, floor, cards) ==
    LET leading == Leading(cands, entries, kind, floor, cards)
        first   == entries[Min(leading)]
    IN  IF leading = {} THEN cands
        ELSE <<Lead(cands, first, kind, floor, cards)>> \o Others(cands, first.fam)

\* A container state the kubelet itself reports for the target, on an eligible card.
TypedStates(cards) == {c \in cards : c.typed # "" /\ c.own /\ Permits(c, "support")}

PromoteTyped(cands, c) ==
    LET base == IF Listed(cands, c.typed) THEN Entry(cands, c.typed)
                ELSE Cause(c.typed, High, 72)
        lead == [base EXCEPT !.conf = High, !.score = MostOf(@, 72),
                             !.agents = @ \cup {"signature", "kubernetes"},
                             !.supp = @ \cup {c.id},
                             !.sigs = @ \cup {Sig("typed_container_state", c.typed)}]
    IN  <<lead>> \o Others(cands, c.typed)

PromoteXid(cands) ==
    LET base == IF Listed(cands, GpuFault) THEN Entry(cands, GpuFault)
                ELSE Cause(GpuFault, High, 80)
        lead == [base EXCEPT !.conf = High, !.score = 80, !.agents = @ \cup {"alert"},
                             !.sigs = @ \cup {Sig("nvidia_xid", "XID")}]
    IN  <<lead>> \o Others(cands, GpuFault)

Xid(cards, alert) ==
    \/ alert.xid
    \/ \E c \in cards : c.xid /\ Permits(c, "support")

PromoteSignature(cands, cards, alert, issues, symptoms) ==
    LET typed == TypedStates(cards)
    IN  IF Xid(cards, alert) THEN PromoteXid(cands)
        ELSE IF typed # {}
        THEN PromoteTyped(cands, CHOOSE c \in typed : \A d \in typed : c.id <= d.id)
        ELSE IF Leading(cands, issues, "known_issue", 64, cards) # {}
        THEN PromotedBy(cands, issues, "known_issue", 64, cards)
        ELSE PromotedBy(cands, symptoms, "curated_symptom", 56, cards)

-----------------------------------------------------------------------------
(* Novel hypotheses of the open world *)

\* A hypothesis of the ledger enters the ranking only if every citation
\* resolves to an eligible card and two planes observe it independently.
Admissible(h, cards) ==
    /\ h.status = "supported"
    /\ h.fam \notin Families
    /\ h.supp # {}
    /\ h.supp \subseteq {c.id : c \in {d \in cards : Permits(d, "support")}}
    /\ Cardinality({c.group : c \in {d \in cards : d.id \in h.supp}}) >= 2

Novel(h, cards) ==
    LET planes == {c.group : c \in {d \in cards : d.id \in h.supp}}
        n      == Cardinality(planes)
    IN  [Cause(h.fam, IF h.contra # {} THEN Low ELSE IF n >= 3 THEN High ELSE Medium, 24 * n)
           EXCEPT !.agents = planes, !.supp = h.supp, !.contra = h.contra, !.novel = TRUE]

Grounded(c) == ~c.novel /\ Kinds(c) \cap {"known_issue", "nvidia_xid"} # {}
MergeKey(c) == <<IF Grounded(c) THEN 1 ELSE 0, IF c.conf = High THEN 1 ELSE 0,
                 IF c.contra = {} THEN 1 ELSE 0, c.score>>

\* The sort is stable: equal keys keep the order of the known list.
Sorted(all) ==
    LET Less(i, j) == \/ KeyLess(MergeKey(all[j]), MergeKey(all[i]))
                      \/ MergeKey(all[i]) = MergeKey(all[j]) /\ i < j
        order == Ordered(DOMAIN all, Less)
    IN  [i \in DOMAIN all |-> all[order[i]]]

MergeOpenWorld(cands, ledger, cards) ==
    LET novel == {Novel(h, cards) : h \in {g \in ledger : Admissible(g, cards)}}
    IN  IF novel = {} THEN cands
        ELSE First(Sorted(cands \o SetToSeq(novel)), MostOf(3, Len(cands)))

-----------------------------------------------------------------------------
(* The self-check *)

Dispositive == {"nvidia_xid", "typed_container_state"}

HasEvidence(f, cards)      == f \in Families /\ Backing(f, cards) # {}
HasContradiction(f, cards) == f \in Families /\ Against(f, cards) # {}

\* Only the deterministic layer refutes: an eligible contradiction, or a
\* dispositive signature with no eligible card behind it.
Refutes(c, cards) ==
    \/ HasContradiction(c.fam, cards)
    \/ ~HasEvidence(c.fam, cards) /\ Kinds(c) \cap Dispositive # {}

\* The model's opinion v may lower the confidence it is shown, never raise it.
Weigh(c, cards, v) ==
    LET unproven == ~HasEvidence(c.fam, cards) \/ HasContradiction(c.fam, cards)
        doubted  == v.answered /\ ~v.supported
        gated    == IF unproven \/ doubted THEN Lower(c.conf) ELSE c.conf
    IN  IF v.answered THEN LeastOf(gated, v.conf) ELSE gated

SelfCheck(c, cards, v) ==
    IF c.fam = Insufficient THEN [conf |-> c.conf, refuted |-> FALSE, asks |-> FALSE]
    ELSE [conf    |-> Weigh(c, cards, v),
          refuted |-> Refutes(c, cards),
          asks    |-> \/ v.answered /\ v.asks
                      \/ ~HasEvidence(c.fam, cards)
                      \/ ~v.answered /\ HasContradiction(c.fam, cards)]

\* The verification of the matches drops every candidate that claims one of
\* them, an XID claim only when its codes are all among them.
DropRefuted(cands, names) ==
    LET kept == Picked(cands, {i \in DOMAIN cands : ~\E s \in cands[i].sigs :
                   s.kind # "typed_container_state" /\ s.name \in names})
    IN  IF names = {} THEN cands ELSE IF kept = <<>> THEN <<NoCause>> ELSE kept

\* A re-analysis does not let the family it set out from, refuted, win again.
ExcludeRefuted(cands, f) ==
    LET kept == Others(cands, f)
    IN  IF f = "" THEN cands ELSE IF kept = <<>> THEN <<NoCause>> ELSE kept

-----------------------------------------------------------------------------
(* The output harness *)

\* A card may be cited for the candidate: its family's rule accepts it, or it
\* carries the keywords of the signature that promoted the candidate.
SupportsCandidate(top, c) ==
    \/ top.fam \in Families /\ SupportsFamily(top.fam, c)
    \/ \E s \in top.sigs : /\ s.name \in c.marks
                           /\ s.kind = "curated_symptom" => c.id \in top.supp

NoLinks == [given |-> FALSE, supp |-> {}, contra |-> {}]

\* The links of the claim: those of the candidate, else those an earlier
\* evaluation left in the response, else none at all.
Links(top, left) ==
    IF top.supp \cup top.contra # {}
    THEN [given |-> TRUE, supp |-> top.supp, contra |-> top.contra] ELSE left

ValidSupport(top, cards, links) ==
    {c \in cards : c.id \in links.supp /\ Permits(c, "support")
                     /\ (top.novel \/ SupportsCandidate(top, c))}
ValidAgainst(top, cards, links) ==
    {c \in cards : c.id \in links.contra /\ Permits(c, "contradict")
                     /\ (top.fam \in Families => ContradictsFamily(top.fam, c))}

\* Without links, the cards of the agents the candidate names stand in.
ByAgent(top, cards) ==
    {c \in cards : /\ Permits(c, "support") /\ SupportsCandidate(top, c)
                    /\ (c.agent \in top.agents \/ top.sigs # {})}

Supporting(top, cards, links) ==
    IF links.given THEN ValidSupport(top, cards, links) ELSE ByAgent(top, cards)

IdsOf(S) == {c.id : c \in S}

\* High confidence on one telemetry plane, and no signature that evidence carries.
UnsupportedHigh(top, support) ==
    /\ top.conf = High
    /\ Cardinality({c.group : c \in support}) < 2
    /\ (top.sigs = {} \/ support = {})

\* Mutant: any support counts as a trace, cited or not.
AnySupportIsATrace(support, against, doc) == support = {}
Untraced(support, against, doc) ==
    support = {} \/ ~(IdsOf(support) \cup IdsOf(against) \subseteq doc.cites)

InvalidLinks(support, against, links) ==
    links.given /\ <<IdsOf(support), IdsOf(against)>> # <<links.supp, links.contra>>

GatesOf(top, support, against, doc, links, generic) ==
    LET named == top.fam # Insufficient
        On(fails, gate) == IF fails THEN {gate} ELSE {}
    IN  On(named /\ UnsupportedHigh(top, support), "unsupported_high_confidence")
        \cup On(named /\ Untraced(support, against, doc), "missing_evidence_trace")
        \cup On(InvalidLinks(support, against, links), "invalid_evidence_links")
        \cup On(named /\ against # {}, "unresolved_contradiction")
        \cup On(named /\ generic /\ ~\E c \in support : c.own,
                "generic_alert_without_target_evidence")
        \cup On(doc.unsafe, "unsafe_action_without_guardrail")

Gates(top, cards, doc, links, generic) ==
    GatesOf(top, Supporting(top, cards, links), ValidAgainst(top, cards, links),
            doc, links, generic)

\* The weighted rubric, each dimension of five points.
QualityScore(top, cands, cards, doc, links, next) ==
    LET support == Supporting(top, cards, links)
        planes  == Cardinality({c.group : c \in support})
    IN    (IF support # {} THEN 25 ELSE 0)
        + (IF Len(cands) > 1 THEN 16 ELSE 8)
        + (IF next THEN 20 ELSE IF doc.checks THEN 12 ELSE 4)
        + (IF top.conf # High \/ planes >= 2 THEN 15 ELSE 6)
        + (IF doc.actions THEN 12 ELSE 6)
        + (IF doc.unsafe THEN 0 ELSE 5)

\* One round of the bounded repairs: cite the trace, guard the actions, and
\* present no high confidence that one plane alone supports.
Repaired(doc, gates, top, cards, links) ==
    [doc EXCEPT
       !.cites = IF "missing_evidence_trace" \in gates
                 THEN @ \cup IdsOf(Supporting(top, cards, links))
                        \cup IdsOf(ValidAgainst(top, cards, links)) ELSE @,
       !.trace = @ \/ ("missing_evidence_trace" \in gates /\ Supporting(top, cards, links) # {}),
       !.unsafe = @ /\ "unsafe_action_without_guardrail" \notin gates]
Downgraded(cands, gates) ==
    IF "unsupported_high_confidence" \in gates THEN [cands EXCEPT ![1].conf = Medium] ELSE cands

\* No cause, the former leader kept behind it as a provisional hypothesis.
Abstained(cands, cards, links) ==
    LET named == Others(cands, Insufficient)
    IN  IF named = <<>> THEN <<NoCause>>
        ELSE <<NoCause, [named[1] EXCEPT
                 !.conf = Low,
                 !.supp = IdsOf(Supporting(cands[1], cards, links)),
                 !.contra = IdsOf(ValidAgainst(cands[1], cards, links))]>>
=============================================================================
