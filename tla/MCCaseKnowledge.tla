-------------------------- MODULE MCCaseKnowledge --------------------------
EXTENDS CaseKnowledge, TLC

CONSTANTS i1, i2, c1, c2, f1, x1, n1, x2, r1, r2

Modal(plain, confirmed, novel) == [plain |-> plain, confirmed |-> confirmed, novel |-> novel]

\* One incident whose run has two hashes: the first has an open-world cause,
\* the second replaces the knowledge of the first.
OneInc      == {i1}
TwoHashes   == {c1, c2}
OfOne       == [c \in Cases |-> i1]
OwnCands    == {x1, n1, x2}
OwnEligible == OwnCands
OwnCompile  == c1 :> Modal(x1, x1, n1) @@ c2 :> Modal(x2, x2, NoCand)
OwnPrint    == x1 :> "known" @@ n1 :> "novel" @@ x2 :> "known"

\* The same incident without the open-world cause; its first hash compiles
\* only on the operator's authority, its second has no reasoning trace and
\* compiles to nothing.
FewCands    == {f1, x1}
FewEligible == {x1}
FewCompile  == c1 :> Modal(f1, x1, NoCand) @@ c2 :> Modal(NoCand, NoCand, NoCand)
FewPrint    == f1 :> "none" @@ x1 :> "known"

\* Two incidents whose analyses compile to the same content.
TwoIncs     == {i1, i2}
OneEach     == c1 :> i1 @@ c2 :> i2
SharedCands == {x1}
SameCompile == [c \in Cases |-> Modal(x1, x1, NoCand)]
SharedPrint == x1 :> "known"
=============================================================================
