------------------------ MODULE AgentPipeline_proofs ------------------------
(***************************************************************************)
(* What the harness guarantees of a published report, and that no family   *)
(* whose latest self-check refuted it is synthesized in a run that keeps   *)
(* its time: for any catalog, boards, hypotheses, opinions, rounds and     *)
(* number of repairs.                                                      *)
(***************************************************************************)
EXTENDS AgentPipeline, FiniteSetTheorems, SequenceTheorems, TLAPS

\* No gate of the harness fails: what that says of the leader, the cards found
\* in support of it and the report (_quality_gates of harness.py).
LEMMA PassedGates ==
    ASSUME NEW top, NEW board, NEW report, NEW links, NEW generic,
           Gates(top, board, report, links, generic) = {}
    PROVE  LET support == Supporting(top, board, links)
               against == ValidAgainst(top, board, links) IN
           /\ top.fam # Insufficient =>
                /\ ~UnsupportedHigh(top, support) /\ ~Untraced(support, against, report)
                /\ against = {}
                /\ generic => \E c \in support : c.own
           /\ ~InvalidLinks(support, against, links)
           /\ ~report.unsafe
<1> DEFINE support == Supporting(top, board, links)
           against == ValidAgainst(top, board, links)
<1>1. GatesOf(top, support, against, report, links, generic) = {}
  BY DEF Gates
<1> HIDE DEF support, against
<1>2. QED
  BY <1>1 DEF GatesOf, support, against

\* A card that may contradict and is linked against the leader is found against
\* it, or the links are invalid: with no gate failed there is none.
LEMMA NothingAgainst ==
    ASSUME NEW top, NEW board, NEW before, NEW c \in board,
           ValidAgainst(top, board, Links(top, before)) = {},
           ~InvalidLinks(Supporting(top, board, Links(top, before)),
                         ValidAgainst(top, board, Links(top, before)), Links(top, before))
    PROVE  c.id \notin top.contra
<1> SUFFICES ASSUME c.id \in top.contra PROVE FALSE
  OBVIOUS
<1>1. Links(top, before) = [given |-> TRUE, supp |-> top.supp, contra |-> top.contra]
  BY DEF Links
<1>2. IdsOf(ValidAgainst(top, board, Links(top, before))) = {}
  BY DEF IdsOf
<1>3. QED
  BY <1>1, <1>2 DEF InvalidLinks

\* The step that publishes.
LEMMA PublishGrounds ==
    ASSUME Publish
    PROVE  PublishedIsGrounded'
<1> DEFINE support == Supporting(Top, cards, Claim)
           against == ValidAgainst(Top, cards, Claim)
<1>1. /\ FailedGates = {} /\ UNCHANGED <<env, cards, cands, doc>>
      /\ resp'.fam = Top.fam /\ resp'.top = Top /\ resp'.support = support
  BY DEF Publish, Response, Top
<1> SUFFICES ASSUME Top.fam # Insufficient
             PROVE  /\ support # {}
                    /\ IdsOf(support) \subseteq doc.cites
                    /\ ~doc.unsafe
                    /\ \A c \in cards : Permits(c, "contradict") => c.id \notin Top.contra
                    /\ Top.conf = High =>
                         ~(Cardinality({c.group : c \in support}) < 2 /\ Top.sigs = {})
                    /\ env.generic => \E c \in support : c.own
  BY <1>1 DEF PublishedIsGrounded, IdsOf, Permits
<1>2. /\ ~UnsupportedHigh(Top, support) /\ ~Untraced(support, against, doc)
      /\ against = {} /\ ~InvalidLinks(support, against, Claim) /\ ~doc.unsafe
      /\ env.generic => \E c \in support : c.own
  BY <1>1, PassedGates DEF FailedGates
<1>3. \A c \in cards : c.id \notin Top.contra
  BY <1>2, NothingAgainst DEF Claim
<1> HIDE DEF support, against
<1>4. support # {} /\ IdsOf(support) \subseteq doc.cites
  BY <1>2 DEF Untraced
<1>5. Top.conf = High => ~(Cardinality({c.group : c \in support}) < 2 /\ Top.sigs = {})
  BY <1>2 DEF UnsupportedHigh
<1>6. QED
  BY <1>2, <1>3, <1>4, <1>5

\* A report that leaves the harness under a family is grounded, however the
\* ranking, the self-checks, the failover and the repairs made it.
THEOREM PublishedIsGroundedHolds == Spec => []PublishedIsGrounded
<1>1. Init => PublishedIsGrounded
  BY DEF Init, PublishedIsGrounded
<1>2. ASSUME PublishedIsGrounded, [Next]_vars PROVE PublishedIsGrounded'
  <2>1. CASE UNCHANGED vars
    <3>1. UNCHANGED <<stage, env, cards, doc, resp>>
      BY <2>1 DEF vars
    <3>2. QED
      BY <1>2, <3>1 DEF PublishedIsGrounded
  <2>2. CASE Publish
    BY <2>2, PublishGrounds
  <2>3. CASE Abstain \/ PassThrough
    <3>1. ASSUME Abstain PROVE resp'.status = "abstained"
      BY <3>1 DEF Abstain, Response
    <3>2. ASSUME PassThrough PROVE resp'.status = "disabled"
      BY <3>2 DEF PassThrough, Response
    <3>3. resp'.status \notin {"pass", "degraded"}
      BY <2>3, <3>1, <3>2
    <3>4. QED
      BY <3>3 DEF PublishedIsGrounded
  <2>4. ASSUME stage' # "done" PROVE PublishedIsGrounded'
    BY <2>4 DEF PublishedIsGrounded
  <2>5. CASE Collect \/ Expire \/ RankStage \/ SelfCheckStage \/ Aim \/ Settle \/ ProbeFails
    BY <2>4, <2>5 DEF Collect, Expire, RankStage, SelfCheckStage, Aim, Settle, ProbeFails
  <2>6. CASE Reanalyze
    BY <2>4, <2>6 DEF Reanalyze
  <2>7. CASE Resolve \/ Synthesize \/ RepairRound
    BY <2>4, <2>7 DEF Resolve, Synthesize, RepairRound
  <2>8. CASE Done
    BY <2>1, <2>8 DEF Done
  <2>9. QED
    BY <1>2, <2>1, <2>2, <2>3, <2>5, <2>6, <2>7, <2>8 DEF Next
<1>3. QED
  BY <1>1, <1>2, PTL DEF Spec

-----------------------------------------------------------------------------
(* Finite sets in an order, and lists *)

\* R orders S strictly and completely.
StrictOrder(R, S) ==
    /\ \A a \in S : <<a, a>> \notin R
    /\ \A a, b, c \in S : <<a, b>> \in R /\ <<b, c>> \in R => <<a, c>> \in R
    /\ \A a, b \in S : a = b \/ <<a, b>> \in R \/ <<b, a>> \in R

\* The members of S that R puts before c.
Ahead(S, R, c) == {d \in S : <<d, c>> \in R}

\* A finite ordered set has a member for every place of the order.
LEMMA EveryPlaceIsTaken ==
    ASSUME NEW S, IsFiniteSet(S), NEW R, StrictOrder(R, S)
    PROVE  /\ Cardinality(S) \in Nat
           /\ \A k \in 1..Cardinality(S) : \E c \in S : Cardinality(Ahead(S, R, c)) = k - 1
<1> DEFINE before(c) == Ahead(S, R, c)
           size      == Cardinality(S)
           place(c)  == Cardinality(before(c)) + 1
           f         == [c \in S |-> place(c)]
<1>1. size \in Nat
  BY FS_CardinalityType
<1>2. \A c \in S : /\ before(c) \in SUBSET S /\ c \notin before(c)
                   /\ IsFiniteSet(before(c)) /\ Cardinality(before(c)) \in Nat
                   /\ Cardinality(before(c)) < size
  <2> SUFFICES ASSUME NEW c \in S
               PROVE  /\ before(c) \in SUBSET S /\ c \notin before(c)
                      /\ IsFiniteSet(before(c)) /\ Cardinality(before(c)) \in Nat
                      /\ Cardinality(before(c)) < size
    OBVIOUS
  <2>1. before(c) \in SUBSET S /\ c \notin before(c)
    BY DEF StrictOrder, Ahead
  <2> HIDE DEF before
  <2>2. /\ IsFiniteSet(before(c)) /\ Cardinality(before(c)) <= size
        /\ (size = Cardinality(before(c)) => before(c) = S)
    BY <2>1, FS_Subset
  <2>3. Cardinality(before(c)) \in Nat
    BY <2>2, FS_CardinalityType
  <2>4. Cardinality(before(c)) # size
    BY <2>1, <2>2
  <2> HIDE DEF size
  <2>5. QED
    BY <1>1, <2>1, <2>2, <2>3, <2>4
<1>3. \A b, c \in S : <<b, c>> \in R => place(b) # place(c)
  <2> SUFFICES ASSUME NEW b \in S, NEW c \in S, <<b, c>> \in R, place(b) = place(c) PROVE FALSE
    OBVIOUS
  <2>1. before(b) \in SUBSET before(c) /\ b \in before(c) /\ b \notin before(b)
    BY DEF StrictOrder, Ahead
  <2>2. IsFiniteSet(before(c)) /\ Cardinality(before(b)) = Cardinality(before(c))
    <3>1. Cardinality(before(b)) \in Nat /\ Cardinality(before(c)) \in Nat
      BY <1>2
    <3> HIDE DEF before
    <3>2. Cardinality(before(b)) = Cardinality(before(c))
      BY <3>1
    <3>3. QED
      BY <1>2, <3>2
  <2> HIDE DEF before
  <2>3. before(b) = before(c)
    BY <2>1, <2>2, FS_Subset
  <2>4. QED
    BY <2>1, <2>3
<1>4. \A b, c \in S : b # c => place(b) # place(c)
  <2> HIDE DEF place
  <2>1. QED
    BY <1>3 DEF StrictOrder
<1>5. \A c \in S : place(c) \in 1..size
  <2> HIDE DEF before, size
  <2>1. QED
    BY <1>1, <1>2
<1> HIDE DEF place, size
<1>6. f \in Injection(S, 1..size)
  BY <1>4, <1>5 DEF Injection, IsInjective
<1>7. IsFiniteSet(1..size) /\ Cardinality(1..size) = Cardinality(S)
  BY <1>1, FS_Interval DEF size
<1>8. f \in Surjection(S, 1..size)
  BY <1>6, <1>7, FS_Injection
<1>9. \A k \in 1..size : \E c \in S : place(c) = k
  BY <1>8 DEF Surjection
<1>10. \A k \in 1..size : \E c \in S : Cardinality(before(c)) = k - 1
  <2> SUFFICES ASSUME NEW k \in 1..size PROVE \E c \in S : Cardinality(before(c)) = k - 1
    OBVIOUS
  <2>1. PICK c \in S : place(c) = k
    BY <1>9
  <2>2. Cardinality(before(c)) \in Nat /\ Cardinality(before(c)) + 1 = k
    BY <1>2, <2>1 DEF place
  <2> HIDE DEF before
  <2>3. QED
    BY <2>2
<1>11. QED
  BY <1>1, <1>10 DEF size

\* A finite set of integers has a least and a greatest member.
LEMMA Extremes ==
    ASSUME NEW S \in SUBSET Int, IsFiniteSet(S), S # {}
    PROVE  /\ Min(S) \in S /\ \A n \in S : Min(S) <= n
           /\ Max(S) \in S /\ \A n \in S : Max(S) >= n
<1>1. ASSUME NEW R, StrictOrder(R, S)
      PROVE  \E c \in S : \A d \in S : <<d, c>> \notin R
  <2>1. Cardinality(S) \in Nat /\ Cardinality(S) # 0
    BY FS_CardinalityType, FS_EmptySet
  <2>2. 1 \in 1..Cardinality(S)
    BY <2>1
  <2>3. PICK c \in S : Cardinality(Ahead(S, R, c)) = 1 - 1
    BY <1>1, <2>2, EveryPlaceIsTaken
  <2>4. Ahead(S, R, c) \in SUBSET S
    BY DEF Ahead
  <2>5. Ahead(S, R, c) = {}
    BY <2>3, <2>4, FS_Subset, FS_EmptySet
  <2>6. QED
    BY <2>5 DEF Ahead
<1>2. \E c \in S : \A n \in S : c <= n
  <2> DEFINE R == {p \in S \X S : p[1] < p[2]}
  <2>1. \A a, b : <<a, b>> \in R <=> a \in S /\ b \in S /\ a < b
    OBVIOUS
  <2> HIDE DEF R
  <2>2. StrictOrder(R, S)
    BY <2>1 DEF StrictOrder
  <2>3. PICK c \in S : \A n \in S : <<n, c>> \notin R
    BY <1>1, <2>2
  <2>4. \A n \in S : ~(n < c)
    BY <2>1, <2>3
  <2>5. QED
    BY <2>4
<1>3. \E c \in S : \A n \in S : c >= n
  <2> DEFINE R == {p \in S \X S : p[1] > p[2]}
  <2>1. \A a, b : <<a, b>> \in R <=> a \in S /\ b \in S /\ a > b
    OBVIOUS
  <2> HIDE DEF R
  <2>2. StrictOrder(R, S)
    BY <2>1 DEF StrictOrder
  <2>3. PICK c \in S : \A n \in S : <<n, c>> \notin R
    BY <1>1, <2>2
  <2>4. \A n \in S : ~(n > c)
    BY <2>1, <2>3
  <2>5. QED
    BY <2>4
<1>4. Min(S) \in S /\ \A n \in S : Min(S) <= n
  BY <1>2 DEF Min
<1>5. Max(S) \in S /\ \A n \in S : Max(S) >= n
  BY <1>3 DEF Max
<1>6. QED
  BY <1>4, <1>5

\* A list: a sequence of its own members.
IsList(s) == s \in Seq(ToSet(s))

\* The length, places and members of a list.
LEMMA ListIs ==
    ASSUME NEW s, IsList(s)
    PROVE  /\ Len(s) \in Nat /\ DOMAIN s = 1..Len(s)
           /\ \A i \in DOMAIN s : s[i] \in ToSet(s)
           /\ s # <<>> => 1 \in DOMAIN s /\ s[1] \in ToSet(s)
<1>1. Len(s) \in Nat /\ DOMAIN s = 1..Len(s)
  BY LenProperties DEF IsList
<1>2. \A i \in DOMAIN s : s[i] \in ToSet(s)
  BY DEF ToSet
<1>3. s # <<>> => Len(s) \in Nat \ {0}
  BY EmptySeq DEF IsList
<1>4. QED
  BY <1>1, <1>2, <1>3

\* A sequence of members of S is a list of them.
LEMMA ListOf ==
    ASSUME NEW S, NEW s \in Seq(S)
    PROVE  IsList(s) /\ ToSet(s) \subseteq S
<1>1. Len(s) \in Nat /\ s \in [1..Len(s) -> S] /\ DOMAIN s = 1..Len(s)
  BY LenProperties
<1>2. \A i \in 1..Len(s) : s[i] \in S /\ s[i] \in ToSet(s)
  BY <1>1 DEF ToSet
<1>3. s \in [1..Len(s) -> ToSet(s)]
  BY <1>1, <1>2
<1>4. ToSet(s) \subseteq S
  BY <1>1 DEF ToSet
<1>5. QED
  BY <1>1, <1>3, <1>4, SeqDef DEF IsList

\* A function from an initial interval of the numbers is a list.
LEMMA FunctionIsList ==
    ASSUME NEW n \in Nat, NEW S, NEW s \in [1..n -> S]
    PROVE  IsList(s) /\ ToSet(s) \subseteq S /\ DOMAIN s = 1..n
<1>1. s \in Seq(S)
  BY SeqDef
<1>2. QED
  BY <1>1, ListOf

\* A list of one.
LEMMA SingletonIs ==
    ASSUME NEW c
    PROVE  IsList(<<c>>) /\ ToSet(<<c>>) = {c} /\ <<c>> # <<>> /\ <<c>>[1] = c
<1>1. <<c>> \in [1..1 -> {c}] /\ <<c>> # <<>> /\ <<c>>[1] = c /\ DOMAIN <<c>> = 1..1
  OBVIOUS
<1>2. IsList(<<c>>)
  BY <1>1, FunctionIsList
<1>3. ToSet(<<c>>) = {c}
  BY <1>1 DEF ToSet
<1>4. QED
  BY <1>1, <1>2, <1>3

\* Two lists on end: no new member, and the first one's head.
LEMMA ConcatIs ==
    ASSUME NEW s, IsList(s), NEW t, IsList(t)
    PROVE  /\ IsList(s \o t) /\ ToSet(s \o t) \subseteq ToSet(s) \cup ToSet(t)
           /\ s # <<>> => s \o t # <<>> /\ (s \o t)[1] = s[1]
           /\ t # <<>> => s \o t # <<>>
<1> DEFINE S == ToSet(s) \cup ToSet(t)
<1>1. s \in Seq(S) /\ t \in Seq(S)
  BY SeqMonotonic DEF IsList
<1>2. IsList(s \o t) /\ ToSet(s \o t) \subseteq S
  <2> HIDE DEF S
  <2>1. s \o t \in Seq(S)
    BY <1>1, ConcatProperties
  <2>2. QED
    BY <2>1, ListOf
<1>3. ASSUME s # <<>> PROVE s \o t # <<>> /\ (s \o t)[1] = s[1]
  <2> HIDE DEF S
  <2>1. Len(s) \in Nat /\ Len(t) \in Nat /\ 1 \in 1..Len(s)
    BY <1>3, ListIs
  <2>2. (s \o t)[1] = IF 1 <= Len(s) THEN s[1] ELSE t[1 - Len(s)]
    BY <1>1, <2>1, ConcatProperties
  <2>3. s \o t # <<>>
    BY <1>1, <1>3, ConcatEqualIffEmpty
  <2>4. QED
    BY <2>1, <2>2, <2>3
<1>4. ASSUME t # <<>> PROVE s \o t # <<>>
  <2> HIDE DEF S
  <2>1. QED
    BY <1>1, <1>4, ConcatEqualIffEmpty
<1>5. QED
  BY <1>2, <1>3, <1>4

\* The first n of a list (SubSeq of a slice).
LEMMA FirstIs ==
    ASSUME NEW s, IsList(s), NEW n \in Nat \ {0}
    PROVE  /\ IsList(First(s, n)) /\ ToSet(First(s, n)) \subseteq ToSet(s)
           /\ s # <<>> => First(s, n) # <<>> /\ First(s, n)[1] = s[1]
<1> DEFINE m == LeastOf(n, Len(s))
           e == SubSeq(s, 1, m)
<1>1. Len(s) \in Nat /\ m \in Nat /\ m <= Len(s) /\ (Len(s) # 0 => m # 0)
  BY ListIs DEF LeastOf
<1> HIDE DEF m
<1>2. \A i \in 1..m : s[i] \in ToSet(s)
  BY <1>1, ListIs
<1>3. /\ e \in Seq(ToSet(s)) /\ Len(e) = (IF 1 <= m THEN m - 1 + 1 ELSE 0)
      /\ \A i \in 1..(m - 1 + 1) : e[i] = s[1 + i - 1]
  <2>1. 1 \in Int /\ m \in Int
    BY <1>1
  <2>2. QED
    BY <1>2, <2>1, SubSeqProperties
<1>4. First(s, n) = e
  BY DEF First, m
<1> HIDE DEF e
<1>5. ASSUME s # <<>> PROVE e # <<>> /\ e[1] = s[1]
  <2>1. Len(s) # 0
    BY <1>5, ListIs
  <2>2. m - 1 + 1 = m /\ 1 \in 1..m /\ Len(e) = m
    BY <1>1, <1>3, <2>1
  <2>3. e[1] = s[1]
    BY <1>3, <2>2
  <2>4. e # <<>>
    BY <1>1, <2>1, <2>2, EmptySeq
  <2>5. QED
    BY <2>3, <2>4
<1>6. QED
  BY <1>3, <1>4, <1>5, ListOf

\* What follows the head.
LEMMA TailIs ==
    ASSUME NEW s, IsList(s), s # <<>>
    PROVE  IsList(Tail(s)) /\ ToSet(Tail(s)) \subseteq ToSet(s)
<1>1. Tail(s) \in Seq(ToSet(s))
  BY HeadTailProperties DEF IsList
<1>2. QED
  BY <1>1, ListOf

\* Ordering a finite set of numbers lists its members.
LEMMA PlacesAre ==
    ASSUME NEW I \in SUBSET Int, IsFiniteSet(I)
    PROVE  /\ Cardinality(I) \in Nat
           /\ \A k \in 1..Cardinality(I) : Ordered(I, LAMBDA i, j : i < j)[k] \in I
<1> DEFINE R == {p \in I \X I : p[1] < p[2]}
<1>1. \A i, j : <<i, j>> \in R <=> i \in I /\ j \in I /\ i < j
  OBVIOUS
<1> HIDE DEF R
<1>2. StrictOrder(R, I)
  BY <1>1 DEF StrictOrder
<1>3. \A j \in I : Ahead(I, R, j) = {i \in I : i < j}
  BY <1>1 DEF Ahead
<1>4. /\ Cardinality(I) \in Nat
      /\ \A k \in 1..Cardinality(I) : \E j \in I : Cardinality({i \in I : i < j}) = k - 1
  <2>1. /\ Cardinality(I) \in Nat
        /\ \A k \in 1..Cardinality(I) : \E j \in I : Cardinality(Ahead(I, R, j)) = k - 1
    BY <1>2, EveryPlaceIsTaken
  <2>2. QED
    BY <1>3, <2>1
<1>5. \A k \in 1..Cardinality(I) :
         (CHOOSE j \in I : Cardinality({i \in I : i < j}) = k - 1) \in I
  BY <1>4
<1>6. QED
  BY <1>4, <1>5 DEF Ordered

\* The places of I, in the list's order.
LEMMA PickedIs ==
    ASSUME NEW list, IsList(list), NEW I \in SUBSET DOMAIN list
    PROVE  IsList(Picked(list, I)) /\ ToSet(Picked(list, I)) \subseteq {list[i] : i \in I}
<1> DEFINE at == Ordered(I, LAMBDA i, j : i < j)
           S  == {list[i] : i \in I}
<1>1. I \in SUBSET Int /\ IsFiniteSet(I)
  <2>1. Len(list) \in Nat /\ DOMAIN list = 1..Len(list)
    BY ListIs
  <2>2. IsFiniteSet(1..Len(list)) /\ I \in SUBSET (1..Len(list))
    BY <2>1, FS_Interval
  <2>3. QED
    BY <2>2, FS_Subset
<1>2. Cardinality(I) \in Nat /\ \A k \in 1..Cardinality(I) : at[k] \in I
  BY <1>1, PlacesAre
<1>3. Picked(list, I) = [k \in 1..Cardinality(I) |-> list[at[k]]]
  BY DEF Picked
<1> HIDE DEF at
<1>4. \A k \in 1..Cardinality(I) : list[at[k]] \in S
  BY <1>2
<1> HIDE DEF S
<1>5. Picked(list, I) \in [1..Cardinality(I) -> S]
  BY <1>3, <1>4
<1>6. QED
  BY <1>2, <1>5, FunctionIsList DEF S

Keys == Int \X Int \X Int \X Int

\* Two sort keys compare at the first place where they differ.
LEMMA KeyLessIs ==
    ASSUME NEW k \in Keys, NEW l \in Keys
    PROVE  KeyLess(k, l) <=>
             \/ k[1] < l[1]
             \/ k[1] = l[1] /\ k[2] < l[2]
             \/ k[1] = l[1] /\ k[2] = l[2] /\ k[3] < l[3]
             \/ k[1] = l[1] /\ k[2] = l[2] /\ k[3] = l[3] /\ k[4] < l[4]
<1>1. 1..4 = {1, 2, 3, 4} /\ 1..(1 - 1) = {} /\ 1..(2 - 1) = {1} /\ 1..(3 - 1) = {1, 2}
      /\ 1..(4 - 1) = {1, 2, 3}
  OBVIOUS
<1>2. \A j \in 1..0 : k[j] = l[j]
  OBVIOUS
<1>3. QED
  BY <1>1, <1>2 DEF KeyLess

\* No two keys of distinct places tie: the order of sorted() is strict and total.
LEMMA KeyOrder ==
    ASSUME NEW k \in Keys, NEW l \in Keys, NEW m \in Keys
    PROVE  /\ ~KeyLess(k, k)
           /\ KeyLess(k, l) /\ KeyLess(l, m) => KeyLess(k, m)
           /\ k = l \/ KeyLess(k, l) \/ KeyLess(l, k)
<1>1. /\ k[1] \in Int /\ k[2] \in Int /\ k[3] \in Int /\ k[4] \in Int
      /\ l[1] \in Int /\ l[2] \in Int /\ l[3] \in Int /\ l[4] \in Int
      /\ m[1] \in Int /\ m[2] \in Int /\ m[3] \in Int /\ m[4] \in Int
  BY DEF Keys
<1>2. k[1] = l[1] /\ k[2] = l[2] /\ k[3] = l[3] /\ k[4] = l[4] => k = l
  BY DEF Keys
<1>3. ~KeyLess(k, k)
  BY <1>1, KeyLessIs
<1>4. KeyLess(k, l) /\ KeyLess(l, m) => KeyLess(k, m)
  BY <1>1, KeyLessIs
<1>5. k = l \/ KeyLess(k, l) \/ KeyLess(l, k)
  BY <1>1, <1>2, KeyLessIs
<1>6. QED
  BY <1>3, <1>4, <1>5

\* The stable sort only moves the members of a list.
LEMMA SortedIs ==
    ASSUME NEW all, IsList(all), \A i \in DOMAIN all : MergeKey(all[i]) \in Keys
    PROVE  /\ IsList(Sorted(all)) /\ ToSet(Sorted(all)) \subseteq ToSet(all)
           /\ all # <<>> => Sorted(all) # <<>>
<1> DEFINE I == DOMAIN all
           key(i) == MergeKey(all[i])
           Less(i, j) == KeyLess(key(j), key(i)) \/ (key(i) = key(j) /\ i < j)
           R == {p \in I \X I : Less(p[1], p[2])}
           order == Ordered(I, Less)
<1>1. Len(all) \in Nat /\ I = 1..Len(all) /\ IsFiniteSet(I) /\ Cardinality(I) = Len(all)
  <2>1. Len(all) \in Nat /\ I = 1..Len(all)
    BY ListIs
  <2>2. IsFiniteSet(1..Len(all)) /\ Cardinality(1..Len(all)) = Len(all)
    BY <2>1, FS_Interval
  <2> HIDE DEF I
  <2>3. QED
    BY <2>1, <2>2
<1>2. \A i \in I : i \in Int /\ key(i) \in Keys
  BY <1>1
<1>3. \A i, j : <<i, j>> \in R <=> i \in I /\ j \in I /\ Less(i, j)
  <2> HIDE DEF Less
  <2>1. QED
    OBVIOUS
<1> HIDE DEF R, I, key
<1>4. StrictOrder(R, I)
  <2>1. \A i \in I : ~Less(i, i)
    BY <1>2, KeyOrder
  <2>2. \A i, j, k \in I : Less(i, j) /\ Less(j, k) => Less(i, k)
    <3> SUFFICES ASSUME NEW i \in I, NEW j \in I, NEW k \in I, Less(i, j), Less(j, k)
                 PROVE  Less(i, k)
      OBVIOUS
    <3>1. key(i) \in Keys /\ key(j) \in Keys /\ key(k) \in Keys /\ i \in Int /\ j \in Int /\ k \in Int
      BY <1>2
    <3>2. KeyLess(key(k), key(j)) /\ KeyLess(key(j), key(i)) => KeyLess(key(k), key(i))
      BY <3>1, KeyOrder
    <3>3. QED
      BY <3>1, <3>2
  <2>3. \A i, j \in I : i = j \/ Less(i, j) \/ Less(j, i)
    <3> SUFFICES ASSUME NEW i \in I, NEW j \in I PROVE i = j \/ Less(i, j) \/ Less(j, i)
      OBVIOUS
    <3>1. key(i) \in Keys /\ key(j) \in Keys /\ i \in Int /\ j \in Int
      BY <1>2
    <3>2. key(i) = key(j) \/ KeyLess(key(i), key(j)) \/ KeyLess(key(j), key(i))
      BY <3>1, KeyOrder
    <3>3. QED
      BY <3>1, <3>2
  <2> HIDE DEF Less
  <2>4. QED
    BY <1>3, <2>1, <2>2, <2>3 DEF StrictOrder
<1>5. \A n \in 1..Cardinality(I) : order[n] \in I
  <2>1. \A j \in I : Ahead(I, R, j) = {i \in I : Less(i, j)}
    <3> HIDE DEF Less
    <3>1. QED
      BY <1>3 DEF Ahead
  <2>2. \A n \in 1..Cardinality(I) : \E j \in I : Cardinality(Ahead(I, R, j)) = n - 1
    BY <1>1, <1>4, EveryPlaceIsTaken
  <2>3. \A n \in 1..Cardinality(I) : \E j \in I : Cardinality({i \in I : Less(i, j)}) = n - 1
    BY <2>1, <2>2
  <2>4. \A n \in 1..Cardinality(I) :
           (CHOOSE j \in I : Cardinality({i \in I : Less(i, j)}) = n - 1) \in I
    BY <2>3
  <2>5. QED
    BY <1>1, <2>4 DEF Ordered
<1>6. Sorted(all) = [i \in I |-> all[order[i]]]
  BY DEF Sorted, I, key
<1> HIDE DEF order
<1>7. \A i \in 1..Len(all) : order[i] \in I /\ all[order[i]] \in ToSet(all)
  BY <1>1, <1>5 DEF ToSet, I
<1>8. Sorted(all) \in [1..Len(all) -> ToSet(all)]
  BY <1>1, <1>6, <1>7
<1>9. IsList(Sorted(all)) /\ ToSet(Sorted(all)) \subseteq ToSet(all) /\ DOMAIN Sorted(all) = 1..Len(all)
  BY <1>1, <1>8, FunctionIsList
<1>10. ASSUME all # <<>>, Sorted(all) = <<>> PROVE FALSE
  <2>1. 1 \in DOMAIN all
    BY <1>10, ListIs
  <2>2. 1 \in DOMAIN Sorted(all) /\ DOMAIN <<>> = {}
    BY <1>1, <1>9, <2>1 DEF I
  <2>3. QED
    BY <1>10, <2>2
<1>11. QED
  BY <1>9, <1>10

\* The order of the ranked list, over candidates of families of the catalog,
\* one each.
LEMMA OrderedCandidates ==
    ASSUME NEW S, IsFiniteSet(S), Catalog \in Seq(STRING),
           \A c \in S : Key(c) \in Keys /\ c.fam \in Families,
           \A c, d \in S : c.fam = d.fam => c = d
    PROVE  IsList(Ordered(S, Before)) /\ ToSet(Ordered(S, Before)) \subseteq S
<1> DEFINE R == {p \in S \X S : Before(p[1], p[2])}
           pos(c) == Place(c.fam)
<1>1. \A c, d : <<c, d>> \in R <=> c \in S /\ d \in S /\ Before(c, d)
  OBVIOUS
<1>2. \A c \in S : pos(c) \in Int /\ Catalog[pos(c)] = c.fam
  <2> SUFFICES ASSUME NEW c \in S PROVE pos(c) \in Int /\ Catalog[pos(c)] = c.fam
    OBVIOUS
  <2>1. Len(Catalog) \in Nat /\ DOMAIN Catalog = 1..Len(Catalog)
    BY LenProperties
  <2>2. \E i \in DOMAIN Catalog : Catalog[i] = c.fam
    BY DEF Families, ToSet
  <2>3. pos(c) = CHOOSE i \in DOMAIN Catalog : Catalog[i] = c.fam
    BY DEF Place
  <2>4. pos(c) \in DOMAIN Catalog /\ Catalog[pos(c)] = c.fam
    BY <2>2, <2>3
  <2>5. QED
    BY <2>1, <2>4
<1>3. \A c, d \in S : pos(c) = pos(d) => c = d
  BY <1>2
<1>4. \A c, d \in S :
         Before(c, d) <=> KeyLess(Key(d), Key(c)) \/ (Key(c) = Key(d) /\ pos(c) < pos(d))
  BY DEF Before
<1> HIDE DEF R, pos
<1>5. StrictOrder(R, S)
  <2>1. \A c \in S : ~Before(c, c)
    BY <1>2, <1>4, KeyOrder
  <2>2. \A c, d, e \in S : Before(c, d) /\ Before(d, e) => Before(c, e)
    <3> SUFFICES ASSUME NEW c \in S, NEW d \in S, NEW e \in S, Before(c, d), Before(d, e)
                 PROVE  Before(c, e)
      OBVIOUS
    <3>1. /\ Key(c) \in Keys /\ Key(d) \in Keys /\ Key(e) \in Keys
          /\ pos(c) \in Int /\ pos(d) \in Int /\ pos(e) \in Int
      BY <1>2
    <3>2. KeyLess(Key(e), Key(d)) /\ KeyLess(Key(d), Key(c)) => KeyLess(Key(e), Key(c))
      BY <3>1, KeyOrder
    <3>3. QED
      BY <1>4, <3>1, <3>2
  <2>3. \A c, d \in S : c = d \/ Before(c, d) \/ Before(d, c)
    <3> SUFFICES ASSUME NEW c \in S, NEW d \in S PROVE c = d \/ Before(c, d) \/ Before(d, c)
      OBVIOUS
    <3>1. Key(c) \in Keys /\ Key(d) \in Keys /\ pos(c) \in Int /\ pos(d) \in Int
      BY <1>2
    <3>2. Key(c) = Key(d) \/ KeyLess(Key(c), Key(d)) \/ KeyLess(Key(d), Key(c))
      BY <3>1, KeyOrder
    <3>3. QED
      BY <1>3, <1>4, <3>1, <3>2
  <2>4. QED
    BY <1>1, <2>1, <2>2, <2>3 DEF StrictOrder
<1>6. \A c \in S : Ahead(S, R, c) = {d \in S : Before(d, c)}
  BY <1>1 DEF Ahead
<1>7. /\ Cardinality(S) \in Nat
      /\ \A n \in 1..Cardinality(S) : \E c \in S : Cardinality({d \in S : Before(d, c)}) = n - 1
  <2>1. /\ Cardinality(S) \in Nat
        /\ \A n \in 1..Cardinality(S) : \E c \in S : Cardinality(Ahead(S, R, c)) = n - 1
    BY <1>5, EveryPlaceIsTaken
  <2>2. QED
    BY <1>6, <2>1
<1>8. \A n \in 1..Cardinality(S) :
         (CHOOSE c \in S : Cardinality({d \in S : Before(d, c)}) = n - 1) \in S
  BY <1>7
<1>9. Ordered(S, Before) \in [1..Cardinality(S) -> S]
  BY <1>8 DEF Ordered
<1>10. QED
  BY <1>7, <1>9, FunctionIsList

\* SetToSeq lists the members of a finite set.
LEMMA SetToSeqIs ==
    ASSUME NEW S, IsFiniteSet(S)
    PROVE  IsList(SetToSeq(S)) /\ ToSet(SetToSeq(S)) \subseteq S
<1>1. Cardinality(S) \in Nat /\ ExistsBijection(1..Cardinality(S), S)
  BY FS_CardinalityType
<1>2. \E f \in [1..Cardinality(S) -> S] : IsInjective(f)
  BY <1>1 DEF ExistsBijection, Bijection, Injection, Surjection
<1>3. SetToSeq(S) \in [1..Cardinality(S) -> S]
  BY <1>2 DEF SetToSeq
<1>4. QED
  BY <1>1, <1>3, FunctionIsList

\* The values of a function on a finite set are finitely many.
LEMMA ImageIsFinite ==
    ASSUME NEW f, IsFiniteSet(DOMAIN f)
    PROVE  IsFiniteSet({f[x] : x \in DOMAIN f})
<1> DEFINE T == {f[x] : x \in DOMAIN f}
           g == [x \in DOMAIN f |-> f[x]]
<1>1. g \in Surjection(DOMAIN f, T)
  BY DEF Surjection
<1> HIDE DEF T, g
<1>2. QED
  BY <1>1, FS_Surjection DEF T

-----------------------------------------------------------------------------
(* The scores and the ranked list *)

BoardIs(board) ==
    /\ IsFiniteSet(board)
    /\ \A c \in board : c.id \in Nat /\ c.typed \in Families \cup {""}

IsScore(s) ==
    /\ DOMAIN s = {"points", "evidence", "force", "agents", "supp", "groups", "contra"}
    /\ s.points \in Int /\ s.evidence \in Int /\ IsFiniteSet(s.agents) /\ IsFiniteSet(s.groups)
AreScores(S) == S = [f \in Families |-> S[f]] /\ \A f \in Families : IsScore(S[f])

\* A catalog is a finite list.
LEMMA FamiliesAreFinite ==
    ASSUME PipelineAssumption
    PROVE  IsFiniteSet(Families)
<1>1. Len(Catalog) \in Nat /\ DOMAIN Catalog = 1..Len(Catalog)
  BY LenProperties DEF PipelineAssumption
<1>2. IsFiniteSet(DOMAIN Catalog)
  BY <1>1, FS_Interval
<1>3. QED
  BY <1>2, ImageIsFinite DEF Families, ToSet

\* The points of one direction of evidence are a whole number.
LEMMA TallyIs ==
    ASSUME NEW f, NEW S, IsFiniteSet(S), NEW T
    PROVE  IsScore(Tally(f, S, T))
<1> DEFINE at(w) == w * Cardinality({c \in S : Weight(f, c) = w})
           points == at(8) + at(16) + at(24)
<1>1. \A w \in {8, 16, 24} : Cardinality({c \in S : Weight(f, c) = w}) \in Nat
  <2> SUFFICES ASSUME NEW w \in {8, 16, 24}
               PROVE  Cardinality({c \in S : Weight(f, c) = w}) \in Nat
    OBVIOUS
  <2> DEFINE W == {c \in S : Weight(f, c) = w}
  <2>1. W \in SUBSET S
    OBVIOUS
  <2> HIDE DEF W
  <2>2. IsFiniteSet(W)
    BY <2>1, FS_Subset
  <2>3. Cardinality(W) \in Nat
    BY <2>2, FS_CardinalityType
  <2>4. QED
    BY <2>3 DEF W
<1>2. points \in Int
  BY <1>1
<1>3. IsFiniteSet({c.agent : c \in S}) /\ IsFiniteSet({c.group : c \in S})
  <2> DEFINE g == [c \in S |-> c.agent]
             h == [c \in S |-> c.group]
  <2>1. DOMAIN g = S /\ DOMAIN h = S
    OBVIOUS
  <2>2. {c.agent : c \in S} = {g[c] : c \in DOMAIN g} /\ {c.group : c \in S} = {h[c] : c \in DOMAIN h}
    OBVIOUS
  <2> HIDE DEF g, h
  <2>3. QED
    BY <2>1, <2>2, ImageIsFinite
<1>4. Tally(f, S, T) =
        [points |-> points, evidence |-> points, force |-> FALSE,
         agents |-> {c.agent : c \in S}, supp |-> {c.id : c \in S},
         groups |-> {c.group : c \in S}, contra |-> {c.id : c \in T}]
  BY DEF Tally
<1> HIDE DEF points
<1>5. QED
  BY <1>2, <1>3, <1>4 DEF IsScore

\* The cards alone score a family.
LEMMA EvidenceIs ==
    ASSUME NEW board, IsFiniteSet(board), NEW f
    PROVE  IsScore(Evidence(f, board))
<1>1. Counted(f, board) \in SUBSET board
  BY DEF Counted, FirstThree, Backing
<1>2. IsFiniteSet(Counted(f, board))
  BY <1>1, FS_Subset
<1>3. QED
  BY <1>2, TallyIs DEF Evidence

\* A bonus leaves a score.
LEMMA PlusIs ==
    ASSUME NEW s, IsScore(s), NEW n \in Int
    PROVE  IsScore(Plus(s, n))
BY DEF Plus, IsScore

\* The bonuses of the alert's context leave scores (score_root_causes).
LEMMA BonusesAre ==
    ASSUME NEW S, AreScores(S), NEW ctx, IsFiniteSet(ctx.blastAgents)
    PROVE  AreScores(Bonuses(S, ctx))
<1> DEFINE blasted == /\ S[NodePressure].points > 0
                      /\ ctx.blast >= 2
                      /\ ctx.component \in {"", NodePressure}
                      /\ ~ctx.rollout
                      /\ ctx.nodeCondition
           node == IF blasted
                   THEN [Plus(S[NodePressure], 24) EXCEPT !.force = TRUE,
                                                             !.agents = @ \cup ctx.blastAgents]
                   ELSE S[NodePressure]
           quiet == S[Startup].points > 0 /\ S[ControlPlane].points = 0
           metered == S[Quota].points > 0 /\ S[Quota].agents \cap {"prometheus", "runai"} # {}
           flap(s) == IF ctx.flapping /\ s.points > 0 THEN 4 ELSE 0
           n == Plus(node, flap(node))
           u == Plus(S[Startup], (IF quiet THEN 8 ELSE 0) + flap(S[Startup]))
           q == Plus(S[Quota], IF metered THEN 4 ELSE 0)
<1>1. NodePressure \in Families => IsScore(node)
  <2> SUFFICES ASSUME NodePressure \in Families PROVE IsScore(node)
    OBVIOUS
  <2>1. IsScore(S[NodePressure]) /\ IsScore(Plus(S[NodePressure], 24))
    BY PlusIs DEF AreScores
  <2>2. IsFiniteSet(Plus(S[NodePressure], 24).agents \cup ctx.blastAgents)
    BY <2>1, FS_Union DEF IsScore
  <2>3. IsScore([Plus(S[NodePressure], 24) EXCEPT !.force = TRUE,
                                                   !.agents = @ \cup ctx.blastAgents])
    BY <2>1, <2>2 DEF IsScore
  <2>4. QED
    BY <2>1, <2>3
<1>2. \A s : flap(s) \in Int
  OBVIOUS
<1>3. (IF quiet THEN 8 ELSE 0) + flap(S[Startup]) \in Int /\ (IF metered THEN 4 ELSE 0) \in Int
  OBVIOUS
<1>4. Bonuses(S, ctx) = [S EXCEPT ![NodePressure] = n, ![Startup] = u, ![Quota] = q]
  BY DEF Bonuses, NodePressure, Startup, Quota
<1> HIDE DEF node, quiet, metered, flap
<1>5. /\ NodePressure \in Families => IsScore(n)
      /\ Startup \in Families => IsScore(u)
      /\ Quota \in Families => IsScore(q)
  BY <1>1, <1>2, <1>3, PlusIs DEF AreScores
<1> HIDE DEF n, u, q
<1>6. QED
  BY <1>4, <1>5 DEF AreScores

\* A leading agent raises its family's score and leaves the others'.
LEMMA LedIs ==
    ASSUME PipelineAssumption, NEW S, AreScores(S), NEW f, NEW agent
    PROVE  AreScores(Led(S, f, agent))
<1> DEFINE weak  == {g \in Families \ {f} : Cardinality(Observers(S[g])) < 2}
           rival == IF weak = {} THEN 0 ELSE Max({S[g].points : g \in weak})
<1>1. rival \in Int
  <2> DEFINE P == {S[g].points : g \in weak}
             h == [g \in weak |-> S[g].points]
  <2>1. weak \in SUBSET Families
    OBVIOUS
  <2> HIDE DEF weak
  <2>2. DOMAIN h = weak /\ P = {h[g] : g \in DOMAIN h}
    OBVIOUS
  <2>3. IsFiniteSet(weak)
    BY <2>1, FamiliesAreFinite, FS_Subset
  <2>4. P \in SUBSET Int
    BY <2>1 DEF AreScores, IsScore
  <2> HIDE DEF h
  <2>5. IsFiniteSet(P)
    BY <2>2, <2>3, ImageIsFinite
  <2>6. weak # {} => P # {}
    OBVIOUS
  <2> HIDE DEF P
  <2>7. weak # {} => Max(P) \in Int
    BY <2>4, <2>5, <2>6, Extremes
  <2>8. QED
    BY <2>7 DEF P
<1>2. Led(S, f, agent) = [S EXCEPT ![f].points = MostOf(@ + 32, rival + 8),
                                   ![f].agents = @ \cup {agent}]
  BY DEF Led
<1> HIDE DEF rival
<1>3. ASSUME f \in Families
      PROVE  MostOf(S[f].points + 32, rival + 8) \in Int /\ IsFiniteSet(S[f].agents \cup {agent})
  <2>1. S[f].points \in Int /\ IsFiniteSet(S[f].agents)
    BY <1>3 DEF AreScores, IsScore
  <2>2. QED
    BY <1>1, <2>1, FS_AddElement DEF MostOf
<1>4. QED
  BY <1>2, <1>3 DEF AreScores, IsScore

\* So does the context of the alert, whichever rule applies.
LEMMA WithContextIs ==
    ASSUME PipelineAssumption, NEW S, AreScores(S), NEW ctx
    PROVE  AreScores(WithContext(S, ctx))
<1> DEFINE named  == IF ctx.component \in Families THEN Led(S, ctx.component, "topology") ELSE S
           rolled == Led(named, Lifecycle, "change")
<1>1. AreScores(named)
  BY LedIs
<1>2. WithContext(S, ctx) =
        IF ctx.rollout THEN [rolled EXCEPT ![Lifecycle].force = @ \/ ctx.ownRollout] ELSE named
  BY DEF WithContext
<1> HIDE DEF named
<1>3. AreScores(rolled)
  BY <1>1, LedIs
<1> HIDE DEF rolled
<1>4. AreScores([rolled EXCEPT ![Lifecycle].force = @ \/ ctx.ownRollout])
  BY <1>3 DEF AreScores, IsScore
<1>5. QED
  BY <1>1, <1>2, <1>4

\* And the operators' priors.
LEMMA WithPriorsIs ==
    ASSUME NEW S, AreScores(S), NEW board, NEW ctx
    PROVE  AreScores(WithPriors(S, board, ctx))
<1> DEFINE nudged(f) == IF f = ctx.prior /\ S[f].evidence > 0 /\ OwnObservation(S[f], board, ctx)
                        THEN Plus(S[f], (S[f].evidence * 3) \div 4) ELSE S[f]
           moved(f) == IF f = ctx.graphFamily /\ nudged(f).points > 0
                       THEN Plus(nudged(f), 8) ELSE nudged(f)
<1>1. ASSUME NEW f \in Families PROVE IsScore(moved(f))
  <2>1. IsScore(S[f]) /\ (S[f].evidence * 3) \div 4 \in Int
    BY DEF AreScores, IsScore
  <2>2. IsScore(nudged(f))
    BY <2>1, PlusIs
  <2> HIDE DEF nudged
  <2>3. QED
    BY <2>2, PlusIs
<1>2. WithPriors(S, board, ctx) = [f \in Families |-> moved(f)]
  BY DEF WithPriors
<1> HIDE DEF moved
<1>3. QED
  BY <1>1, <1>2 DEF AreScores

\* Every family has a score.
LEMMA ScoresAre ==
    ASSUME PipelineAssumption, NEW board, IsFiniteSet(board), NEW ctx, IsFiniteSet(ctx.blastAgents)
    PROVE  AreScores(Scores(board, ctx))
<1> DEFINE first == [f \in Families |-> Evidence(f, board)]
<1>1. AreScores(first)
  BY EvidenceIs DEF AreScores
<1>2. Scores(board, ctx) = WithPriors(WithContext(Bonuses(first, ctx), ctx), board, ctx)
  BY DEF Scores
<1> HIDE DEF first
<1>3. QED
  BY <1>1, <1>2, BonusesAre, WithContextIs, WithPriorsIs

\* A family and its score make a candidate with a sort key and no signature.
LEMMA CandidateIs ==
    ASSUME NEW f, NEW s, IsScore(s), NEW down
    PROVE  LET c == Candidate(f, s, down)
           IN  /\ DOMAIN c = DOMAIN NoCause /\ c.fam = f /\ c.sigs = {} /\ c.score \in Int
               /\ Key(c) \in Keys
<1> DEFINE c == Candidate(f, s, down)
           planes == IF s.groups # {} THEN s.groups ELSE Observers(s)
<1>1. Confidence(f, s, down) \in Int
  BY DEF Confidence, Lower, Low, Medium, High
<1>2. c = [fam |-> f, conf |-> Confidence(f, s, down), score |-> s.points,
           agents |-> s.agents, supp |-> s.supp, contra |-> s.contra, groups |-> planes,
           sigs |-> {}, novel |-> FALSE]
  <2> DEFINE level == Confidence(f, s, down)
             b     == Cause(f, level, s.points)
  <2>1. c = [b EXCEPT !.agents = s.agents, !.supp = s.supp, !.contra = s.contra,
                      !.groups = planes]
    BY DEF Candidate
  <2> HIDE DEF c, planes, level
  <2>2. b = [fam |-> f, conf |-> level, score |-> s.points, agents |-> {}, supp |-> {},
             contra |-> {}, groups |-> {}, sigs |-> {}, novel |-> FALSE]
    BY DEF Cause
  <2> HIDE DEF b
  <2>3. QED
    BY <2>1, <2>2 DEF level
<1>3. IsFiniteSet(planes)
  <2> DEFINE g == [a \in s.agents \ Synthetic |-> Group[a]]
             O == Observers(s)
  <2>1. s.agents \ Synthetic \in SUBSET s.agents /\ IsFiniteSet(s.agents)
    BY DEF IsScore
  <2>2. DOMAIN g = s.agents \ Synthetic /\ IsFiniteSet(DOMAIN g)
    BY <2>1, FS_Subset
  <2>3. O = {g[a] : a \in DOMAIN g}
    BY DEF Observers
  <2> HIDE DEF g, O
  <2>4. IsFiniteSet(O)
    BY <2>2, <2>3, ImageIsFinite
  <2>5. QED
    BY <2>4 DEF O, IsScore
<1> HIDE DEF planes
<1>4. Cardinality(planes) \in Int
  BY <1>3, FS_CardinalityType
<1>5. s.points \in Int
  BY DEF IsScore
<1> HIDE DEF c
<1>6. DOMAIN c = DOMAIN NoCause
  BY <1>2 DEF NoCause, Cause
<1>7. Key(c) \in Keys
  BY <1>1, <1>2, <1>4, <1>5 DEF Key, Keys
<1>8. QED
  BY <1>2, <1>5, <1>6, <1>7 DEF c

-----------------------------------------------------------------------------
(* Sound candidates *)

Disp(c) == Kinds(c) \cap Dispositive # {}

\* A candidate: its family is known, and only a family of the catalog has a
\* dispositive signature.
IsCause(c) ==
    /\ DOMAIN c = DOMAIN NoCause /\ c.fam \in AllFamilies /\ c.score \in Int
    /\ Disp(c) => c.fam \in Families

\* Candidates of one family have a dispositive signature together or not at all.
Agree(C) == \A c, d \in C : c.fam = d.fam => (Disp(c) <=> Disp(d))
AreCauses(C) == (\A c \in C : IsCause(c)) /\ Agree(C)
IsRanking(list) == IsList(list) /\ list # <<>> /\ AreCauses(ToSet(list))

\* The verdict of no cause is a candidate with no dispositive signature.
LEMMA NoCauseIs == IsCause(NoCause) /\ NoCause.fam = Insufficient /\ ~Disp(NoCause)
<1>1. NoCause.fam = Insufficient /\ NoCause.score = 0 /\ NoCause.sigs = {}
  BY DEF NoCause, Cause
<1>2. ~Disp(NoCause)
  BY <1>1 DEF Disp, Kinds
<1>3. QED
  BY <1>1, <1>2 DEF IsCause, AllFamilies

\* The families above the threshold, as candidates.
LEMMA CandidatesAre ==
    ASSUME PipelineAssumption, NEW S, AreScores(S), NEW down
    PROVE  /\ IsList(Candidates(S, down))
           /\ \A c \in ToSet(Candidates(S, down)) : IsCause(c) /\ ~Disp(c)
<1> DEFINE G == {g \in Families : S[g].points > 0}
           C == {Candidate(f, S[f], down) : f \in G}
<1>1. \A f \in G : f \in Families /\ IsScore(S[f])
  BY DEF AreScores
<1>2. IsFiniteSet(C)
  <2> DEFINE h == [f \in G |-> Candidate(f, S[f], down)]
  <2>1. G \in SUBSET Families
    OBVIOUS
  <2> HIDE DEF G
  <2>2. DOMAIN h = G /\ C = {h[f] : f \in DOMAIN h}
    OBVIOUS
  <2> HIDE DEF h, C
  <2>3. QED
    BY <2>1, <2>2, FamiliesAreFinite, FS_Subset, ImageIsFinite
<1> HIDE DEF G
<1>3. \A c \in C : /\ DOMAIN c = DOMAIN NoCause /\ c.fam \in Families /\ c.sigs = {}
                   /\ c.score \in Int /\ Key(c) \in Keys
                   /\ c = Candidate(c.fam, S[c.fam], down)
  <2> SUFFICES ASSUME NEW f \in G
               PROVE  LET c == Candidate(f, S[f], down) IN
                      /\ DOMAIN c = DOMAIN NoCause /\ c.fam \in Families /\ c.sigs = {}
                      /\ c.score \in Int /\ Key(c) \in Keys
                      /\ c = Candidate(c.fam, S[c.fam], down)
    OBVIOUS
  <2>1. IsScore(S[f]) /\ f \in Families
    BY <1>1
  <2>2. LET c == Candidate(f, S[f], down)
        IN  /\ DOMAIN c = DOMAIN NoCause /\ c.fam = f /\ c.sigs = {} /\ c.score \in Int
            /\ Key(c) \in Keys
    BY <2>1, CandidateIs
  <2>3. QED
    BY <2>1, <2>2
<1>4. Candidates(S, down) = Ordered(C, Before)
  BY DEF Candidates, G
<1> HIDE DEF C
<1>5. IsList(Ordered(C, Before)) /\ ToSet(Ordered(C, Before)) \subseteq C
  <2>1. \A c, d \in C : c.fam = d.fam => c = d
    BY <1>3
  <2>2. Catalog \in Seq(STRING)
    BY DEF PipelineAssumption
  <2>3. \A c \in C : Key(c) \in Keys /\ c.fam \in Families
    BY <1>3
  <2>4. QED
    BY <1>2, <2>1, <2>2, <2>3, OrderedCandidates
<1>6. \A c \in C : IsCause(c) /\ ~Disp(c)
  BY <1>3 DEF IsCause, Disp, Kinds, AllFamilies
<1>7. QED
  BY <1>4, <1>5, <1>6

Like(c, d) == DOMAIN c = DOMAIN d /\ c.fam = d.fam /\ c.score = d.score /\ c.sigs = d.sigs

\* Members that a ranking has, but for their confidence and links, and the
\* verdict of no cause make a ranking.
LEMMA CausesLike ==
    ASSUME PipelineAssumption, NEW D, AreCauses(D), NEW C,
           \A c \in C : c = NoCause \/ \E d \in D : Like(c, d)
    PROVE  AreCauses(C)
<1>1. \A c \in C : IsCause(c)
  BY NoCauseIs DEF AreCauses, IsCause, Like, Disp, Kinds
<1>2. \A c \in C : c.fam = Insufficient => ~Disp(c)
  BY <1>1 DEF IsCause, PipelineAssumption
<1>3. \A c \in C : c = NoCause \/ \E d \in D : c.fam = d.fam /\ (Disp(c) <=> Disp(d))
  BY DEF Like, Disp, Kinds
<1>4. ASSUME NEW c \in C, NEW e \in C, c.fam = e.fam PROVE Disp(c) <=> Disp(e)
  <2>1. CASE c.fam = Insufficient
    BY <1>2, <1>4, <2>1
  <2>2. CASE c.fam # Insufficient
    <3>1. c # NoCause /\ e # NoCause
      BY <1>4, <2>2, NoCauseIs
    <3>2. PICK d \in D : c.fam = d.fam /\ (Disp(c) <=> Disp(d))
      BY <1>3, <3>1
    <3>3. PICK g \in D : e.fam = g.fam /\ (Disp(e) <=> Disp(g))
      BY <1>3, <3>1
    <3>4. QED
      BY <1>4, <3>2, <3>3 DEF AreCauses, Agree
  <2>3. QED
    BY <2>1, <2>2
<1>5. QED
  BY <1>1, <1>4 DEF AreCauses, Agree

\* Some of a set of sound candidates are sound.
LEMMA SomeCauses ==
    ASSUME NEW D, AreCauses(D), NEW C \in SUBSET D
    PROVE  AreCauses(C)
BY DEF AreCauses, Agree

\* A sound leader ahead of candidates of other families.
LEMMA LedBy ==
    ASSUME NEW lead, IsCause(lead), NEW rest, IsList(rest), AreCauses(ToSet(rest)),
           \A c \in ToSet(rest) : c.fam # lead.fam
    PROVE  IsRanking(<<lead>> \o rest) /\ (<<lead>> \o rest)[1] = lead
<1>1. IsList(<<lead>>) /\ ToSet(<<lead>>) = {lead} /\ <<lead>> # <<>> /\ <<lead>>[1] = lead
  BY SingletonIs
<1>2. /\ IsList(<<lead>> \o rest) /\ <<lead>> \o rest # <<>> /\ (<<lead>> \o rest)[1] = lead
      /\ ToSet(<<lead>> \o rest) \subseteq {lead} \cup ToSet(rest)
  BY <1>1, ConcatIs
<1>3. AreCauses({lead} \cup ToSet(rest))
  BY DEF AreCauses, Agree
<1>4. QED
  BY <1>2, <1>3, SomeCauses DEF IsRanking

\* The list without a family.
LEMMA OthersAre ==
    ASSUME NEW list, IsList(list), NEW f
    PROVE  /\ IsList(Others(list, f))
           /\ ToSet(Others(list, f)) \subseteq {c \in ToSet(list) : c.fam # f}
<1> DEFINE I == {i \in DOMAIN list : list[i].fam # f}
<1>1. I \in SUBSET DOMAIN list /\ Others(list, f) = Picked(list, I)
  BY DEF Others
<1>2. {list[i] : i \in I} \subseteq {c \in ToSet(list) : c.fam # f}
  BY DEF ToSet
<1> HIDE DEF I
<1>3. QED
  BY <1>1, <1>2, PickedIs

\* The list's members of a family.
LEMMA NamedAre ==
    ASSUME NEW list, IsList(list), NEW f
    PROVE  IsList(Named(list, f)) /\ ToSet(Named(list, f)) \subseteq ToSet(list)
<1> DEFINE I == {i \in DOMAIN list : list[i].fam = f}
<1>1. I \in SUBSET DOMAIN list /\ Named(list, f) = Picked(list, I)
  BY DEF Named
<1>2. {list[i] : i \in I} \subseteq ToSet(list)
  BY DEF ToSet
<1> HIDE DEF I
<1>3. QED
  BY <1>1, <1>2, PickedIs

\* The ranking of a board.
LEMMA RankIs ==
    ASSUME PipelineAssumption, NEW board, IsFiniteSet(board), NEW down,
           NEW ctx, IsFiniteSet(ctx.blastAgents), NEW n \in Nat \ {0}
    PROVE  IsRanking(Rank(board, down, ctx, n))
<1> DEFINE ranked == Candidates(Scores(board, ctx), down)
           I == {i \in DOMAIN ranked : Live(ranked[i])}
           live == Picked(ranked, I)
           other == Picked(ranked, DOMAIN ranked \ I)
           whole == Headed(live, other, ranked)
<1>1. IsList(ranked) /\ \A c \in ToSet(ranked) : IsCause(c) /\ ~Disp(c)
  BY ScoresAre, CandidatesAre
<1>2. Rank(board, down, ctx, n) = First(whole, n)
  BY DEF Rank, Headlined
<1> HIDE DEF ranked
<1>3. I \in SUBSET DOMAIN ranked /\ DOMAIN ranked \ I \in SUBSET DOMAIN ranked
  OBVIOUS
<1>4. \A J \in SUBSET DOMAIN ranked : {ranked[i] : i \in J} \subseteq ToSet(ranked)
  BY DEF ToSet
<1> HIDE DEF I
<1>5. /\ IsList(live) /\ ToSet(live) \subseteq ToSet(ranked)
      /\ IsList(other) /\ ToSet(other) \subseteq ToSet(ranked)
  BY <1>1, <1>3, <1>4, PickedIs
<1> HIDE DEF live, other
<1>6. whole = <<NoCause>> \o ranked \/ (live # <<>> /\ whole = live \o other)
  BY DEF Headed
<1> HIDE DEF whole
<1>7. IsList(whole) /\ whole # <<>> /\ ToSet(whole) \subseteq {NoCause} \cup ToSet(ranked)
  <2>1. IsList(<<NoCause>>) /\ ToSet(<<NoCause>>) = {NoCause} /\ <<NoCause>> # <<>>
    BY SingletonIs
  <2>2. /\ IsList(<<NoCause>> \o ranked) /\ <<NoCause>> \o ranked # <<>>
        /\ ToSet(<<NoCause>> \o ranked) \subseteq {NoCause} \cup ToSet(ranked)
    BY <1>1, <2>1, ConcatIs
  <2>3. live # <<>> => /\ IsList(live \o other) /\ live \o other # <<>>
                       /\ ToSet(live \o other) \subseteq ToSet(live) \cup ToSet(other)
    BY <1>5, ConcatIs
  <2>4. QED
    BY <1>5, <1>6, <2>2, <2>3
<1>8. IsList(First(whole, n)) /\ First(whole, n) # <<>> /\ ToSet(First(whole, n)) \subseteq ToSet(whole)
  BY <1>7, FirstIs
<1>9. AreCauses({NoCause} \cup ToSet(ranked))
  BY <1>1, NoCauseIs DEF AreCauses, Agree
<1>10. QED
  BY <1>2, <1>7, <1>8, <1>9, SomeCauses DEF IsRanking

\* A member of a ranking that its family names.
LEMMA EntryIs ==
    ASSUME NEW list, IsRanking(list), NEW f, Listed(list, f)
    PROVE  Entry(list, f) \in ToSet(list) /\ Entry(list, f).fam = f /\ IsCause(Entry(list, f))
<1>1. Entry(list, f) \in ToSet(list) /\ Entry(list, f).fam = f
  BY DEF Entry, Listed, ToSet
<1>2. QED
  BY <1>1 DEF IsRanking, AreCauses

\* A candidate made for a signature whose family was not ranked.
LEMMA FreshCauseIs ==
    ASSUME NEW f \in AllFamilies, NEW conf, NEW score \in Int
    PROVE  LET c == Cause(f, conf, score) IN IsCause(c) /\ c.fam = f /\ ~Disp(c)
<1>1. LET c == Cause(f, conf, score)
      IN  /\ c.fam = f /\ c.score = score /\ c.sigs = {}
          /\ DOMAIN c = DOMAIN NoCause
  BY DEF Cause, NoCause
<1>2. QED
  BY <1>1 DEF IsCause, Disp, Kinds

\* The candidate a promotion lifts ahead of the others of the list.
LEMMA LiftedIs ==
    ASSUME NEW list, IsRanking(list), NEW lead, IsCause(lead)
    PROVE  IsRanking(<<lead>> \o Others(list, lead.fam))
<1>1. /\ IsList(Others(list, lead.fam))
      /\ ToSet(Others(list, lead.fam)) \subseteq {c \in ToSet(list) : c.fam # lead.fam}
  BY OthersAre DEF IsRanking
<1>2. AreCauses(ToSet(Others(list, lead.fam)))
  BY <1>1, SomeCauses DEF IsRanking
<1>3. QED
  BY <1>1, <1>2, LedBy

\* A signature that is not dispositive leaves its candidate sound.
LEMMA SupportedIs ==
    ASSUME NEW base, IsCause(base), NEW sig, sig.kind \notin Dispositive, NEW floor \in Int,
           NEW carrying
    PROVE  LET c == WithSupport(base, sig, floor, carrying)
           IN  IsCause(c) /\ c.fam = base.fam
<1> DEFINE c == WithSupport(base, sig, floor, carrying)
<1>1. DOMAIN base = DOMAIN NoCause /\ base.fam \in AllFamilies /\ base.score \in Int
  BY DEF IsCause
<1>2. DOMAIN NoCause = {"fam", "conf", "score", "agents", "supp", "contra", "groups", "sigs", "novel"}
  BY DEF NoCause, Cause
<1>3. /\ DOMAIN c = DOMAIN NoCause /\ c.fam = base.fam
      /\ c.score = MostOf(base.score, floor) /\ c.sigs = base.sigs \cup {sig}
  BY <1>1, <1>2 DEF WithSupport
<1> HIDE DEF c
<1>4. c.score \in Int
  BY <1>1, <1>3 DEF MostOf
<1>5. Disp(c) => Disp(base)
  BY <1>3 DEF Disp, Kinds
<1>6. IsCause(c)
  BY <1>1, <1>3, <1>4, <1>5 DEF IsCause
<1>7. QED
  BY <1>3, <1>6 DEF c

\* A catalog match (known issue or curated symptom) leaves a ranking.
LEMMA PromotedByIs ==
    ASSUME NEW list, IsRanking(list), NEW entries, IsList(entries),
           NEW kind \in {"known_issue", "curated_symptom"}, NEW floor \in Int, NEW board,
           \A i \in DOMAIN entries : Leads(list, entries[i], kind, floor, board)
                                      => entries[i].fam \in AllFamilies
    PROVE  IsRanking(PromotedBy(list, entries, kind, floor, board))
<1> DEFINE leading == Leading(list, entries, kind, floor, board)
           e    == entries[Min(leading)]
           base == IF Listed(list, e.fam) THEN Entry(list, e.fam) ELSE Cause(e.fam, Medium, floor)
           lead == Lead(list, e, kind, floor, board)
<1>1. CASE leading = {}
  BY <1>1 DEF PromotedBy
<1>2. CASE leading # {}
  <2>1. Min(leading) \in leading
    <3>1. leading \in SUBSET DOMAIN entries
      BY DEF Leading
    <3>2. Len(entries) \in Nat /\ DOMAIN entries = 1..Len(entries)
      BY ListIs
    <3>3. IsFiniteSet(DOMAIN entries)
      BY <3>2, FS_Interval
    <3> HIDE DEF leading
    <3>4. IsFiniteSet(leading) /\ leading \in SUBSET Int
      BY <3>1, <3>2, <3>3, FS_Subset
    <3>5. QED
      BY <1>2, <3>4, Extremes
  <2>2. e.fam \in AllFamilies
    BY <2>1 DEF Leading
  <2>3. PromotedBy(list, entries, kind, floor, board) = <<lead>> \o Others(list, e.fam)
    BY <1>2 DEF PromotedBy
  <2>4. lead = WithSupport(base, Sig(kind, e.name), floor, Carrying(e, board))
    BY DEF Lead
  <2> HIDE DEF leading, e, lead
  <2>5. IsCause(base) /\ base.fam = e.fam
    BY <2>2, EntryIs, FreshCauseIs
  <2>6. Sig(kind, e.name).kind \notin Dispositive
    BY DEF Sig, Dispositive
  <2> HIDE DEF base
  <2>7. IsCause(lead) /\ lead.fam = e.fam
    BY <2>4, <2>5, <2>6, SupportedIs
  <2>8. QED
    BY <2>3, <2>7, LiftedIs
<1>3. QED
  BY <1>1, <1>2

\* So does a typed container state, whose family is the catalog's.
LEMMA PromotedTypedIs ==
    ASSUME NEW list, IsRanking(list), NEW c, c.typed \in Families
    PROVE  IsRanking(PromoteTyped(list, c))
<1> DEFINE f    == c.typed
           base == IF Listed(list, f) THEN Entry(list, f) ELSE Cause(f, High, 72)
           lead == [base EXCEPT !.conf = High, !.score = MostOf(@, 72),
                                !.agents = @ \cup {"signature", "kubernetes"},
                                !.supp = @ \cup {c.id},
                                !.sigs = @ \cup {Sig("typed_container_state", c.typed)}]
<1>1. PromoteTyped(list, c) = <<lead>> \o Others(list, f)
  BY DEF PromoteTyped
<1>2. f \in AllFamilies
  BY DEF AllFamilies
<1>3. IsCause(base) /\ base.fam = f
  BY <1>2, EntryIs, FreshCauseIs
<1> HIDE DEF base
<1>4. DOMAIN base = DOMAIN NoCause /\ base.score \in Int
      /\ DOMAIN NoCause = {"fam", "conf", "score", "agents", "supp", "contra", "groups", "sigs", "novel"}
  BY <1>3 DEF IsCause, NoCause, Cause
<1>5. DOMAIN lead = DOMAIN NoCause /\ lead.fam = f /\ lead.score = MostOf(base.score, 72)
  BY <1>3, <1>4
<1> HIDE DEF lead
<1>6. IsCause(lead)
  BY <1>2, <1>4, <1>5 DEF IsCause, MostOf
<1>7. QED
  BY <1>1, <1>5, <1>6, LiftedIs

\* So does an XID of the hardware fault.
LEMMA PromotedXidIs ==
    ASSUME PipelineAssumption, NEW list, IsRanking(list)
    PROVE  IsRanking(PromoteXid(list))
<1> DEFINE base == IF Listed(list, GpuFault) THEN Entry(list, GpuFault)
                   ELSE Cause(GpuFault, High, 80)
           lead == [base EXCEPT !.conf = High, !.score = 80, !.agents = @ \cup {"alert"},
                                !.sigs = @ \cup {Sig("nvidia_xid", "XID")}]
<1>1. PromoteXid(list) = <<lead>> \o Others(list, GpuFault)
  BY DEF PromoteXid
<1>2. GpuFault \in Families /\ GpuFault \in AllFamilies
  BY DEF AllFamilies, PipelineAssumption
<1>3. IsCause(base) /\ base.fam = GpuFault
  BY <1>2, EntryIs, FreshCauseIs
<1> HIDE DEF base
<1>4. DOMAIN base = DOMAIN NoCause
      /\ DOMAIN NoCause = {"fam", "conf", "score", "agents", "supp", "contra", "groups", "sigs", "novel"}
  BY <1>3 DEF IsCause, NoCause, Cause
<1>5. DOMAIN lead = DOMAIN NoCause /\ lead.fam = GpuFault /\ lead.score = 80
  BY <1>3, <1>4
<1> HIDE DEF lead
<1>6. IsCause(lead)
  BY <1>2, <1>5 DEF IsCause
<1>7. QED
  BY <1>1, <1>5, <1>6, LiftedIs

\* An exact signature takes the headline over and leaves a ranking.
LEMMA PromotedIs ==
    ASSUME PipelineAssumption, NEW list, IsRanking(list), NEW board, BoardIs(board)
    PROVE  IsRanking(Promoted(list, board))
<1> DEFINE states == TypedStates(board)
           one   == CHOOSE c \in states : \A d \in states : c.id <= d.id
           known == PromotedBy(list, Issues, "known_issue", 64, board)
           told  == PromotedBy(list, Symptoms, "curated_symptom", 56, board)
<1>1. states # {} => one.typed \in Families
  <2> SUFFICES ASSUME states # {} PROVE one.typed \in Families
    OBVIOUS
  <2>1. states \in SUBSET board /\ \A c \in states : c.typed # ""
    BY DEF TypedStates
  <2> DEFINE g == [c \in states |-> c.id]
             ids == {g[c] : c \in DOMAIN g}
  <2> HIDE DEF states
  <2>2. IsFiniteSet(DOMAIN g) /\ ids \in SUBSET Int /\ ids # {}
    <3>1. IsFiniteSet(states)
      BY <2>1, FS_Subset DEF BoardIs
    <3>2. DOMAIN g = states
      OBVIOUS
    <3>3. \A c \in states : c.id \in Int
      <4> HIDE DEF g, ids, one
      <4>1. \A c \in board : c.id \in Nat
        BY DEF BoardIs
      <4>2. \A c \in states : c \in board
        BY <2>1
      <4>3. QED
        BY <4>1, <4>2
    <3>4. QED
      BY <3>1, <3>2, <3>3
  <2>3. Min(ids) \in ids /\ \A n \in ids : Min(ids) <= n
    <3>1. IsFiniteSet(ids)
      BY <2>2, ImageIsFinite
    <3> HIDE DEF ids
    <3>2. QED
      BY <2>2, <3>1, Extremes
  <2>4. PICK c \in states : c.id = Min(ids)
    BY <2>3
  <2>5. \A d \in states : d.id \in ids
    OBVIOUS
  <2>6. \A d \in states : c.id <= d.id
    BY <2>3, <2>4, <2>5
  <2>7. one \in states
    BY <2>6
  <2>8. QED
    BY <2>1, <2>7 DEF BoardIs
<1>2. IsList(Issues) /\ IsList(Symptoms)
  BY ListOf DEF PipelineAssumption, Entries
<1>3. IsRanking(known)
  <2>1. \A i \in DOMAIN Issues : Issues[i].fam \in AllFamilies
    BY DEF AllFamilies
  <2>2. QED
    BY <1>2, <2>1, PromotedByIs
<1>4. IsRanking(told)
  <2>1. \A i \in DOMAIN Symptoms :
           Leads(list, Symptoms[i], "curated_symptom", 56, board) => Symptoms[i].fam \in AllFamilies
    BY DEF AllFamilies, Leads
  <2>2. QED
    BY <1>2, <2>1, PromotedByIs
<1>5. Promoted(list, board) \in {PromoteXid(list), known, told}
        \/ (states # {} /\ Promoted(list, board) = PromoteTyped(list, one))
  BY DEF Promoted, PromoteSignature
<1> HIDE DEF states, one, known, told
<1>6. QED
  BY <1>1, <1>3, <1>4, <1>5, PromotedXidIs, PromotedTypedIs

\* A re-analysis of a refuted family ranks the others.
LEMMA ExcludedIs ==
    ASSUME PipelineAssumption, NEW list, IsRanking(list), NEW f
    PROVE  /\ IsRanking(ExcludeRefuted(list, f))
           /\ f # "" => \A c \in ToSet(ExcludeRefuted(list, f)) : c.fam # f \/ c.fam = Insufficient
<1> DEFINE kept == Others(list, f)
<1>1. IsList(kept) /\ ToSet(kept) \subseteq {c \in ToSet(list) : c.fam # f}
  BY OthersAre DEF IsRanking
<1>2. ExcludeRefuted(list, f) = IF f = "" THEN list ELSE IF kept = <<>> THEN <<NoCause>> ELSE kept
  BY DEF ExcludeRefuted
<1>3. IsRanking(<<NoCause>>) /\ ToSet(<<NoCause>>) = {NoCause}
  <2>1. IsList(<<NoCause>>) /\ ToSet(<<NoCause>>) = {NoCause} /\ <<NoCause>> # <<>>
    BY SingletonIs
  <2>2. QED
    BY <2>1, NoCauseIs DEF IsRanking, AreCauses, Agree
<1>4. kept # <<>> => IsRanking(kept)
  BY <1>1, SomeCauses DEF IsRanking
<1> HIDE DEF kept
<1>5. QED
  BY <1>1, <1>2, <1>3, <1>4, NoCauseIs

\* The check grades the leader; nothing else of the list moves.
LEMMA GradedIs ==
    ASSUME PipelineAssumption, NEW list, IsRanking(list), NEW conf
    PROVE  LET graded == [list EXCEPT ![1].conf = conf]
           IN  /\ IsRanking(graded) /\ graded[1].fam = list[1].fam
               /\ \A c \in ToSet(graded) : \E d \in ToSet(list) : c.fam = d.fam
<1> DEFINE graded == [list EXCEPT ![1].conf = conf]
<1>1. IsList(list) /\ Len(list) \in Nat /\ DOMAIN list = 1..Len(list) /\ 1 \in DOMAIN list
  BY ListIs DEF IsRanking
<1>2. /\ DOMAIN graded = DOMAIN list /\ graded[1] = [list[1] EXCEPT !.conf = conf]
      /\ \A i \in DOMAIN list : i # 1 => graded[i] = list[i]
      /\ graded = [i \in DOMAIN list |-> graded[i]]
  BY <1>1
<1> HIDE DEF graded
<1>3. \A i \in DOMAIN list : DOMAIN list[i] = DOMAIN NoCause
  BY DEF IsRanking, AreCauses, IsCause, ToSet
<1>4. DOMAIN NoCause = {"fam", "conf", "score", "agents", "supp", "contra", "groups", "sigs", "novel"}
  BY DEF NoCause, Cause
<1>5. Like(graded[1], list[1])
  BY <1>1, <1>2, <1>3, <1>4 DEF Like
<1>6. \A i \in DOMAIN list : Like(graded[i], list[i])
  BY <1>2, <1>5 DEF Like
<1>7. \A c \in ToSet(graded) : \E d \in ToSet(list) : Like(c, d)
  BY <1>2, <1>6 DEF ToSet
<1>8. IsList(graded)
  <2>1. graded \in [1..Len(list) -> ToSet(graded)]
    BY <1>1, <1>2 DEF ToSet
  <2>2. QED
    BY <1>1, <2>1, FunctionIsList
<1>9. graded # <<>>
  BY <1>1, <1>2
<1>10. AreCauses(ToSet(graded))
  BY <1>7, CausesLike DEF IsRanking
<1>11. IsRanking(graded) /\ graded[1].fam = list[1].fam
       /\ \A c \in ToSet(graded) : \E d \in ToSet(list) : c.fam = d.fam
  BY <1>1, <1>6, <1>7, <1>8, <1>9, <1>10 DEF IsRanking, Like
<1>12. QED
  BY <1>11 DEF graded

\* A hypothesis of the open world enters under a family outside the catalog.
LEMMA NovelIs ==
    ASSUME NEW board, IsFiniteSet(board), NEW h \in Hypotheses, Admissible(h, board)
    PROVE  LET c == Novel(h, board) IN IsCause(c) /\ ~Disp(c) /\ c.fam \notin Families
<1> DEFINE cited  == {d \in board : d.id \in h.supp}
           planes == {c.group : c \in cited}
           n      == Cardinality(planes)
           level  == IF h.contra # {} THEN Low ELSE IF n >= 3 THEN High ELSE Medium
           base   == Cause(h.fam, level, 24 * n)
           c      == Novel(h, board)
<1>1. n \in Nat
  <2> DEFINE g == [d \in cited |-> d.group]
  <2>1. cited \in SUBSET board
    OBVIOUS
  <2> HIDE DEF cited
  <2>2. IsFiniteSet(cited) /\ DOMAIN g = cited /\ planes = {g[d] : d \in DOMAIN g}
    BY <2>1, FS_Subset
  <2> HIDE DEF g, planes
  <2>3. IsFiniteSet(planes)
    BY <2>2, ImageIsFinite
  <2>4. QED
    BY <2>3, FS_CardinalityType
<1>2. c = [base EXCEPT !.agents = planes, !.supp = h.supp, !.contra = h.contra, !.novel = TRUE]
  BY DEF Novel
<1> HIDE DEF n, planes, level, c
<1>3. h.fam \in AllFamilies /\ h.fam \notin Families
  BY DEF AllFamilies, Admissible
<1>4. base = [fam |-> h.fam, conf |-> level, score |-> 24 * n, agents |-> {}, supp |-> {},
              contra |-> {}, groups |-> {}, sigs |-> {}, novel |-> FALSE]
  BY DEF Cause
<1> HIDE DEF base
<1>5. DOMAIN c = DOMAIN base /\ c.fam = h.fam /\ c.score = 24 * n /\ c.sigs = {}
  BY <1>2, <1>4
<1>6. DOMAIN base = DOMAIN NoCause
  BY <1>4 DEF NoCause, Cause
<1>7. c.score \in Int
  BY <1>1, <1>5
<1>8. ~Disp(c)
  BY <1>5 DEF Disp, Kinds
<1>9. QED
  BY <1>3, <1>5, <1>6, <1>7, <1>8 DEF IsCause, c

\* The open world's merge leaves a ranking, and adds only families outside the
\* catalog: no family of the catalog comes back by it (merge_open_world_candidates).
LEMMA MergedIs ==
    ASSUME PipelineAssumption, NEW list, IsRanking(list), NEW board, IsFiniteSet(board),
           NEW hypotheses \in SUBSET Hypotheses
    PROVE  LET merged == MergeOpenWorld(list, hypotheses, board)
           IN  /\ IsRanking(merged)
               /\ \A c \in ToSet(merged) : c \in ToSet(list) \/ c.fam \notin Families
<1> DEFINE H      == {h \in hypotheses : Admissible(h, board)}
           novel  == {Novel(h, board) : h \in H}
           all    == list \o SetToSeq(novel)
           size   == MostOf(3, Len(list))
           merged == First(Sorted(all), size)
<1>1. \A c \in novel : IsCause(c) /\ ~Disp(c) /\ c.fam \notin Families
  BY NovelIs
<1>2. IsFiniteSet(novel)
  <2> DEFINE g == [h \in H |-> Novel(h, board)]
  <2>1. H \in SUBSET Hypotheses
    OBVIOUS
  <2> HIDE DEF H
  <2>2. DOMAIN g = H /\ novel = {g[h] : h \in DOMAIN g}
    OBVIOUS
  <2> HIDE DEF g, novel, all, size
  <2>3. IsFiniteSet(Hypotheses)
    BY DEF PipelineAssumption
  <2>4. IsFiniteSet(H)
    BY <2>1, <2>3, FS_Subset
  <2>5. QED
    BY <2>2, <2>4, ImageIsFinite
<1>3. MergeOpenWorld(list, hypotheses, board) = IF novel = {} THEN list ELSE merged
  BY DEF MergeOpenWorld
<1> HIDE DEF novel
<1>4. IsList(all) /\ all # <<>> /\ ToSet(all) \subseteq ToSet(list) \cup novel
  <2>1. IsList(SetToSeq(novel)) /\ ToSet(SetToSeq(novel)) \subseteq novel
    BY <1>2, SetToSeqIs
  <2>2. /\ IsList(all) /\ ToSet(all) \subseteq ToSet(list) \cup ToSet(SetToSeq(novel))
        /\ all # <<>>
    BY <2>1, ConcatIs DEF IsRanking
  <2>3. QED
    BY <2>1, <2>2
<1>5. AreCauses(ToSet(list) \cup novel)
  <2>1. \A c \in ToSet(list) \cup novel : IsCause(c)
    BY <1>1 DEF IsRanking, AreCauses
  <2>2. \A c \in ToSet(list) \cup novel : c.fam \notin Families => ~Disp(c)
    BY <2>1 DEF IsCause
  <2>3. \A c, d \in ToSet(list) \cup novel :
           c.fam = d.fam /\ c.fam \in Families => c \in ToSet(list) /\ d \in ToSet(list)
    BY <1>1
  <2>4. \A c, d \in ToSet(list) \cup novel : c.fam = d.fam => (Disp(c) <=> Disp(d))
    BY <2>2, <2>3 DEF IsRanking, AreCauses, Agree
  <2>5. QED
    BY <2>1, <2>4 DEF AreCauses, Agree
<1> HIDE DEF all
<1>6. \A i \in DOMAIN all : MergeKey(all[i]) \in Keys
  <2> SUFFICES ASSUME NEW i \in DOMAIN all PROVE MergeKey(all[i]) \in Keys
    OBVIOUS
  <2>1. IsCause(all[i])
    BY <1>4, <1>5 DEF AreCauses, ToSet
  <2>2. all[i].score \in Int
    BY <2>1 DEF IsCause
  <2>3. QED
    BY <2>2 DEF MergeKey, Keys
<1>7. IsList(Sorted(all)) /\ Sorted(all) # <<>> /\ ToSet(Sorted(all)) \subseteq ToSet(list) \cup novel
  BY <1>4, <1>6, SortedIs
<1>8. size \in Nat \ {0}
  <2>1. Len(list) \in Nat
    BY ListIs DEF IsRanking
  <2>2. QED
    BY <2>1 DEF MostOf
<1> HIDE DEF size
<1>9. IsList(merged) /\ merged # <<>> /\ ToSet(merged) \subseteq ToSet(list) \cup novel
  BY <1>7, <1>8, FirstIs
<1>10. IsRanking(merged)
  BY <1>5, <1>9, SomeCauses DEF IsRanking
<1>11. \A c \in ToSet(merged) : c \in ToSet(list) \/ c.fam \notin Families
  BY <1>1, <1>9
<1> HIDE DEF merged
<1>12. QED
  BY <1>3, <1>10, <1>11

\* Dropping the matches the model did not verify leaves a ranking.
LEMMA DroppedIs ==
    ASSUME NEW list, IsRanking(list), NEW names
    PROVE  IsRanking(DropRefuted(list, names))
<1> DEFINE I == {i \in DOMAIN list : ~\E s \in list[i].sigs :
                   s.kind # "typed_container_state" /\ s.name \in names}
           kept == Picked(list, I)
<1>1. DropRefuted(list, names) = IF names = {} THEN list ELSE IF kept = <<>> THEN <<NoCause>> ELSE kept
  BY DEF DropRefuted
<1>2. IsList(kept) /\ ToSet(kept) \subseteq ToSet(list)
  <2>1. I \in SUBSET DOMAIN list
    OBVIOUS
  <2> HIDE DEF I
  <2>2. IsList(kept) /\ ToSet(kept) \subseteq {list[i] : i \in I}
    BY <2>1, PickedIs DEF IsRanking
  <2>3. {list[i] : i \in I} \subseteq ToSet(list)
    BY <2>1 DEF ToSet
  <2>4. QED
    BY <2>2, <2>3
<1> HIDE DEF kept
<1>3. IsRanking(<<NoCause>>)
  <2>1. IsList(<<NoCause>>) /\ ToSet(<<NoCause>>) = {NoCause} /\ <<NoCause>> # <<>>
    BY SingletonIs
  <2>2. QED
    BY <2>1, NoCauseIs DEF IsRanking, AreCauses, Agree
<1>4. kept # <<>> => IsRanking(kept)
  BY <1>2, SomeCauses DEF IsRanking
<1>5. QED
  BY <1>1, <1>3, <1>4

\* Only a family of the catalog is refuted.
LEMMA VerdictIs ==
    ASSUME PipelineAssumption, NEW c, IsCause(c), NEW board, NEW v,
           SelfCheck(c, board, v).refuted
    PROVE  c.fam \in Families /\ c.fam # Insufficient
<1>1. c.fam # Insufficient /\ Refutes(c, board)
  BY DEF SelfCheck
<1>2. HasContradiction(c.fam, board) \/ Disp(c)
  BY <1>1 DEF Refutes, Disp
<1>3. QED
  BY <1>1, <1>2 DEF HasContradiction, IsCause

\* The evidence refutes every candidate of a family, or none.
LEMMA SameVerdict ==
    ASSUME NEW c, NEW d, c.fam = d.fam, Disp(c) <=> Disp(d), NEW board, NEW v, NEW w
    PROVE  SelfCheck(c, board, v).refuted <=> SelfCheck(d, board, w).refuted
<1>1. Refutes(c, board) <=> Refutes(d, board)
  BY DEF Refutes, Disp
<1>2. QED
  BY <1>1 DEF SelfCheck

\* A candidate with another confidence.
LEMMA LowIs ==
    ASSUME NEW c, IsCause(c), NEW conf
    PROVE  Like([c EXCEPT !.conf = conf], c)
<1>1. DOMAIN c = {"fam", "conf", "score", "agents", "supp", "contra", "groups", "sigs", "novel"}
  BY DEF IsCause, NoCause, Cause
<1>2. QED
  BY <1>1 DEF Like

\* A list of two.
LEMMA PairIs ==
    ASSUME NEW c, NEW d
    PROVE  IsList(<<c, d>>) /\ ToSet(<<c, d>>) = {c, d} /\ <<c, d>> # <<>> /\ <<c, d>>[1] = c
<1>1. <<c, d>> \in [1..2 -> {c, d}] /\ <<c, d>> # <<>> /\ <<c, d>>[1] = c /\ <<c, d>>[2] = d
      /\ DOMAIN <<c, d>> = 1..2
  OBVIOUS
<1>2. IsList(<<c, d>>)
  BY <1>1, FunctionIsList
<1>3. ToSet(<<c, d>>) = {c, d}
  <2>1. 1..2 = {1, 2}
    OBVIOUS
  <2>2. QED
    BY <1>1, <2>1 DEF ToSet
<1>4. QED
  BY <1>1, <1>2, <1>3

\* What a failover leaves: a ranking, led by an alternative the evidence does
\* not refute or by the verdict of no cause.
Resolved(out) ==
    /\ IsRanking(out.list) /\ out.bad \subseteq Families
    /\ out.list[1].fam \in (out.good \cup {Insufficient}) \ out.bad

\* The alternatives of a list and their checks.
AreChecks(list, alts, check, board) ==
    /\ IsList(alts) /\ \A i \in DOMAIN alts : alts[i] \in ToSet(list) /\ alts[i].fam # Insufficient
    /\ \A i \in DOMAIN alts : \E v : check[i] = SelfCheck(alts[i], board, v)

\* Where no alternative holds, the verdict of no cause leads.
LEMMA ExhaustedIs ==
    ASSUME PipelineAssumption, NEW list, IsRanking(list), NEW alts, NEW check, NEW board,
           AreChecks(list, alts, check, board), \A i \in DOMAIN alts : check[i].refuted
    PROVE  Resolved(Exhausted(list, alts, check))
<1> DEFINE out  == Exhausted(list, alts, check)
           head == <<NoCause, AsLow(list[1])>>
           tail == [i \in DOMAIN alts |-> AsLow(alts[i])]
<1>1. out.list = head \o tail /\ out.bad = {alts[i].fam : i \in DOMAIN alts}
  BY DEF Exhausted
<1>2. \A c \in ToSet(list) : IsCause(c)
  BY DEF IsRanking, AreCauses
<1>3. list[1] \in ToSet(list)
  BY ListIs DEF IsRanking
<1>4. \A c \in ToSet(list) : Like(AsLow(c), c)
  BY <1>2, LowIs DEF AsLow
<1>5. IsList(head) /\ ToSet(head) = {NoCause, AsLow(list[1])} /\ head # <<>> /\ head[1] = NoCause
  BY PairIs
<1>6. IsList(tail) /\ \A c \in ToSet(tail) : \E d \in ToSet(list) : Like(c, d)
  <2>1. Len(alts) \in Nat /\ DOMAIN alts = 1..Len(alts)
    BY ListIs DEF AreChecks
  <2>2. \A i \in DOMAIN alts : alts[i] \in ToSet(list) /\ tail[i] = AsLow(alts[i])
    BY DEF AreChecks
  <2>3. tail \in [1..Len(alts) -> ToSet(tail)] /\ DOMAIN tail = DOMAIN alts
    BY <2>1 DEF ToSet
  <2> HIDE DEF tail
  <2>4. IsList(tail)
    BY <2>1, <2>3, FunctionIsList
  <2>5. QED
    BY <1>4, <2>2, <2>3, <2>4 DEF ToSet
<1> HIDE DEF head, tail, out
<1>7. /\ IsList(head \o tail) /\ head \o tail # <<>> /\ (head \o tail)[1] = NoCause
      /\ ToSet(head \o tail) \subseteq {NoCause, AsLow(list[1])} \cup ToSet(tail)
  BY <1>5, <1>6, ConcatIs
<1>8. \A c \in ToSet(head \o tail) : c = NoCause \/ \E d \in ToSet(list) : Like(c, d)
  BY <1>3, <1>4, <1>6, <1>7
<1>9. IsRanking(head \o tail)
  BY <1>7, <1>8, CausesLike DEF IsRanking
<1>10. \A i \in DOMAIN alts : alts[i].fam \in Families
  BY <1>2, VerdictIs DEF AreChecks
<1>11. out.bad \subseteq Families
  BY <1>1, <1>10
<1>12. out.list[1].fam = Insufficient /\ Insufficient \notin out.bad
  BY <1>1, <1>7, <1>11, NoCauseIs DEF PipelineAssumption
<1>13. QED
  BY <1>1, <1>9, <1>11, <1>12 DEF Resolved, out

\* Where one holds, it leads, and it is not among those refuted before it.
LEMMA ReplacedIs ==
    ASSUME PipelineAssumption, NEW list, IsRanking(list), NEW alts, NEW check, NEW board,
           AreChecks(list, alts, check, board), NEW first \in DOMAIN alts,
           ~check[first].refuted, \A i \in DOMAIN alts : i < first => check[i].refuted
    PROVE  Resolved(Replaced(list, alts, check, first))
<1> DEFINE out   == Replaced(list, alts, check, first)
           graded(i) == [alts[i] EXCEPT !.conf = check[i].conf]
           lead  == graded(first)
           all   == [i \in DOMAIN alts |-> IF i <= first THEN graded(i) ELSE alts[i]]
           none  == Named(Tail(list), Insufficient)
           kept  == Others(all, alts[first].fam)
           last  == <<AsLow(list[1])>>
           whole == <<lead>> \o none \o kept \o last
<1>1. /\ out.list = whole /\ out.bad = {alts[i].fam : i \in 1..(first - 1)}
      /\ out.good = {alts[first].fam}
  BY DEF Replaced
<1>2. \A c \in ToSet(list) : IsCause(c) /\ Like(c, c)
  BY DEF IsRanking, AreCauses, Like
<1>3. list[1] \in ToSet(list) /\ Like(AsLow(list[1]), list[1])
  <2>1. list[1] \in ToSet(list)
    BY ListIs DEF IsRanking
  <2>2. QED
    BY <1>2, <2>1, LowIs DEF AsLow
<1>4. Len(alts) \in Nat /\ DOMAIN alts = 1..Len(alts) /\ \A i \in DOMAIN alts : alts[i] \in ToSet(list)
  BY ListIs DEF AreChecks
<1>5. \A i \in DOMAIN alts : Like(graded(i), alts[i])
  BY <1>2, <1>4, LowIs
<1>6. IsList(all) /\ \A c \in ToSet(all) : \E d \in ToSet(list) : Like(c, d)
  <2>1. \A i \in DOMAIN alts : all[i] = graded(i) \/ all[i] = alts[i]
    OBVIOUS
  <2>2. \A i \in DOMAIN alts : Like(all[i], alts[i])
    <3> HIDE DEF all, graded
    <3>1. QED
      BY <1>2, <1>4, <1>5, <2>1
  <2>3. all \in [1..Len(alts) -> ToSet(all)] /\ DOMAIN all = DOMAIN alts
    BY <1>4 DEF ToSet
  <2> HIDE DEF all
  <2>4. IsList(all)
    BY <1>4, <2>3, FunctionIsList
  <2>5. QED
    BY <1>4, <2>2, <2>3, <2>4 DEF ToSet
<1> HIDE DEF all
<1>7. IsList(kept) /\ ToSet(kept) \subseteq ToSet(all)
  BY <1>6, OthersAre
<1>8. IsList(none) /\ ToSet(none) \subseteq ToSet(list)
  <2>1. IsList(Tail(list)) /\ ToSet(Tail(list)) \subseteq ToSet(list)
    BY TailIs DEF IsRanking
  <2>2. QED
    BY <2>1, NamedAre
<1>9. IsList(<<lead>>) /\ ToSet(<<lead>>) = {lead} /\ <<lead>> # <<>> /\ <<lead>>[1] = lead
      /\ IsList(last) /\ ToSet(last) = {AsLow(list[1])}
  BY SingletonIs
<1>10. \E d \in ToSet(list) : Like(lead, d) /\ lead.fam = alts[first].fam
  BY <1>4, <1>5 DEF Like
<1> HIDE DEF kept, none, last, lead
<1>11. /\ IsList(<<lead>> \o none) /\ <<lead>> \o none # <<>> /\ (<<lead>> \o none)[1] = lead
       /\ ToSet(<<lead>> \o none) \subseteq {lead} \cup ToSet(list)
  BY <1>8, <1>9, ConcatIs
<1>12. /\ IsList((<<lead>> \o none) \o kept) /\ (<<lead>> \o none) \o kept # <<>>
       /\ ((<<lead>> \o none) \o kept)[1] = lead
       /\ ToSet((<<lead>> \o none) \o kept) \subseteq {lead} \cup ToSet(list) \cup ToSet(all)
  BY <1>7, <1>11, ConcatIs
<1>13. /\ IsList(whole) /\ whole # <<>> /\ whole[1] = lead
       /\ ToSet(whole) \subseteq {lead, AsLow(list[1])} \cup ToSet(list) \cup ToSet(all)
  BY <1>9, <1>12, ConcatIs
<1> HIDE DEF whole, out
<1>14. \A c \in ToSet(whole) : \E d \in ToSet(list) : Like(c, d)
  BY <1>2, <1>3, <1>6, <1>10, <1>13
<1>15. IsRanking(whole)
  BY <1>13, <1>14, CausesLike DEF IsRanking
<1>16. \A i \in 1..(first - 1) : i \in DOMAIN alts /\ check[i].refuted
  BY <1>4
<1>17. out.bad \subseteq Families
  <2>1. \A i \in 1..(first - 1) : alts[i].fam \in Families
    BY <1>2, <1>4, <1>16, VerdictIs DEF AreChecks
  <2>2. QED
    BY <1>1, <2>1
<1>18. \A i \in 1..(first - 1) : alts[i].fam # alts[first].fam
  <2> SUFFICES ASSUME NEW i \in 1..(first - 1), alts[i].fam = alts[first].fam PROVE FALSE
    OBVIOUS
  <2>1. Disp(alts[i]) <=> Disp(alts[first])
    BY <1>4, <1>16 DEF IsRanking, AreCauses, Agree
  <2>2. check[i].refuted <=> check[first].refuted
    BY <1>16, <2>1, SameVerdict DEF AreChecks
  <2>3. QED
    BY <1>16, <2>2
<1>19. out.list[1].fam \in out.good \ out.bad
  BY <1>1, <1>10, <1>13, <1>18
<1>20. QED
  BY <1>1, <1>15, <1>17, <1>19 DEF Resolved, out

\* Whatever the alternatives are and the model says of them, the failover ends
\* under a family it found sound or under none.
LEMMA FailoverIs ==
    ASSUME PipelineAssumption, NEW list, IsRanking(list), NEW board, NEW views
    PROVE  Resolved(Failover(list, board, views))
<1> DEFINE alts  == Alternatives(list)
           check == [i \in DOMAIN alts |-> SelfCheck(alts[i], board, views[i])]
           sound == {i \in DOMAIN alts : ~check[i].refuted}
<1>1. IsList(alts) /\ \A i \in DOMAIN alts : alts[i] \in ToSet(list) /\ alts[i].fam # Insufficient
  <2>1. IsList(Tail(list)) /\ ToSet(Tail(list)) \subseteq ToSet(list)
    BY TailIs DEF IsRanking
  <2>2. IsList(alts) /\ ToSet(alts) \subseteq {c \in ToSet(Tail(list)) : c.fam # Insufficient}
    BY <2>1, OthersAre DEF Alternatives
  <2> HIDE DEF alts
  <2>3. \A i \in DOMAIN alts : alts[i] \in ToSet(alts)
    BY DEF ToSet
  <2>4. QED
    BY <2>1, <2>2, <2>3
<1>2. Failover(list, board, views) = FirstSound(list, alts, check)
  BY DEF Failover
<1> HIDE DEF alts
<1>3. \A i \in DOMAIN alts : check[i] = SelfCheck(alts[i], board, views[i])
  OBVIOUS
<1> HIDE DEF check
<1>4. AreChecks(list, alts, check, board)
  BY <1>1, <1>3 DEF AreChecks
<1>5. FirstSound(list, alts, check) =
        IF sound = {} THEN Exhausted(list, alts, check) ELSE Replaced(list, alts, check, Min(sound))
  BY DEF FirstSound
<1>6. CASE sound = {}
  <2>1. \A i \in DOMAIN alts : check[i].refuted
    BY <1>6
  <2>2. QED
    BY <1>2, <1>4, <1>5, <1>6, <2>1, ExhaustedIs
<1>7. CASE sound # {}
  <2>1. sound \in SUBSET DOMAIN alts /\ Len(alts) \in Nat /\ DOMAIN alts = 1..Len(alts)
    BY <1>1, ListIs
  <2>2. IsFiniteSet(sound) /\ sound \in SUBSET Int
    <3> HIDE DEF sound
    <3>1. IsFiniteSet(1..Len(alts)) /\ sound \in SUBSET (1..Len(alts))
      BY <2>1, FS_Interval
    <3>2. IsFiniteSet(sound)
      BY <3>1, FS_Subset
    <3>3. QED
      BY <3>1, <3>2
  <2>3. Min(sound) \in sound /\ \A i \in sound : Min(sound) <= i
    BY <1>7, <2>2, Extremes
  <2>4. Min(sound) \in DOMAIN alts /\ ~check[Min(sound)].refuted
    BY <2>3
  <2>5. \A i \in DOMAIN alts : i < Min(sound) => check[i].refuted
    <3> SUFFICES ASSUME NEW i \in DOMAIN alts, i < Min(sound), ~check[i].refuted PROVE FALSE
      OBVIOUS
    <3>1. i \in sound
      OBVIOUS
    <3> HIDE DEF sound
    <3>2. Min(sound) <= i /\ i \in Int /\ Min(sound) \in Int
      BY <2>1, <2>2, <2>3, <3>1
    <3>3. QED
      BY <3>2
  <2>6. Resolved(Replaced(list, alts, check, Min(sound)))
    BY <1>4, <2>4, <2>5, ReplacedIs
  <2>7. QED
    BY <1>2, <1>5, <1>7, <2>6
<1>8. QED
  BY <1>6, <1>7

-----------------------------------------------------------------------------
(* No refuted family is synthesized in time *)

Verdicts == {"unchecked", "passed", "refuted"}
Refuted(f) == judged[f] = "refuted"

\* What every step keeps: a run cut short is one with a deadline, boards are
\* finite and only families of the catalog are refuted.
RunInv ==
    /\ env \in Settings /\ (late => env.deadline)
    /\ BoardIs(cards) /\ ledger \subseteq Hypotheses /\ round \in Nat
    /\ judged \in [AllFamilies -> Verdicts]
    /\ \A f \in AllFamilies : Refuted(f) => f \in Families

\* The list is a ranking from the first check on; before it nothing is judged.
ListInv ==
    /\ stage \in {"check", "loop", "probe", "resolve", "synthesize", "harness"} => IsRanking(cands)
    /\ stage \in {"evidence", "rank", "check"} =>
         round = 0 /\ \A f \in AllFamilies : ~Refuted(f)
    /\ stage = "probe" => round # 0

\* In time, a refuted leader is known to be refuted; a follow-up that may be
\* reordered by the open world leaves out the one family refuted before it.
InTime == ~env.deadline /\ CheckedLast
LeaderInv ==
    InTime =>
      /\ stage \in {"loop", "probe", "resolve"} => (Refuted(Top.fam) => refuted)
      /\ stage = "loop" /\ env.mode = "authoritative" /\ round = 0 =>
           \A f \in AllFamilies : Refuted(f) => refuted /\ f = Top.fam
      /\ stage = "probe" /\ env.mode = "authoritative" =>
           \A f \in AllFamilies : Refuted(f) => f = probe.refuted
      /\ stage \in {"synthesize", "harness"} => ~Refuted(Top.fam)

RefutedInv == RunInv /\ ListInv /\ LeaderInv

\* The leader of a ranking.
LEMMA LeaderIs ==
    ASSUME NEW list, IsRanking(list)
    PROVE  list[1] \in ToSet(list) /\ IsCause(list[1]) /\ list[1].fam \in AllFamilies
<1>1. list[1] \in ToSet(list)
  BY ListIs DEF IsRanking
<1>2. QED
  BY <1>1 DEF IsRanking, AreCauses, IsCause

\* A self-check changes what is recorded of its own family only.
LEMMA JudgeIs ==
    ASSUME judged \in [AllFamilies -> Verdicts], NEW f \in AllFamilies, NEW bad
    PROVE  /\ Judge(f, bad) \in [AllFamilies -> Verdicts]
           /\ (Judge(f, bad)[f] = "refuted") <=> bad
           /\ \A g \in AllFamilies : g # f => Judge(f, bad)[g] = judged[g]
BY DEF Judge, Verdicts

\* After a failover the new leader is not recorded as refuted.
LEMMA RecordIs ==
    ASSUME NEW old \in [AllFamilies -> Verdicts], NEW out,
           ~\E f \in AllFamilies : old[f] = "refuted" /\ f \notin Families, Resolved(out),
           PipelineAssumption
    PROVE  /\ Record(old, out) \in [AllFamilies -> Verdicts]
           /\ \A f \in AllFamilies : Record(old, out)[f] = "refuted" => f \in Families
           /\ Record(old, out)[out.list[1].fam] # "refuted"
<1>1. Record(old, out) \in [AllFamilies -> Verdicts]
  BY DEF Record, Verdicts
<1>2. \A f \in AllFamilies : Record(old, out)[f] = "refuted" => f \in Families
  BY DEF Record, Resolved
<1>3. out.list[1].fam \in AllFamilies
  BY LeaderIs DEF Resolved
<1>4. Record(old, out)[out.list[1].fam] # "refuted"
  <2>1. CASE out.list[1].fam \in out.good
    BY <1>3, <2>1 DEF Record, Resolved
  <2>2. CASE out.list[1].fam = Insufficient
    BY <1>2, <1>3, <2>2 DEF PipelineAssumption
  <2>3. QED
    BY <2>1, <2>2 DEF Resolved
<1>5. QED
  BY <1>1, <1>2, <1>4

\* The leader of a check, refuted, belongs to the catalog.
LEMMA CheckedIs ==
    ASSUME PipelineAssumption, NEW list, IsRanking(list), NEW board, NEW v
    PROVE  SelfCheck(list[1], board, v).refuted => list[1].fam \in Families
BY LeaderIs, VerdictIs

\* Before anything is ranked nothing is refuted.
LEMMA RefutedInit ==
    ASSUME PipelineAssumption, Init
    PROVE  RefutedInv
<1>1. BoardIs(cards)
  BY FS_EmptySet DEF Init, BoardIs
<1>2. RunInv
  BY <1>1 DEF Init, RunInv, Refuted, Verdicts
<1>3. ListInv /\ LeaderInv
  BY DEF Init, ListInv, LeaderInv, Refuted
<1>4. QED
  BY <1>2, <1>3 DEF RefutedInv

\* Evidence brings a finite board and judges nothing.
LEMMA CollectStep ==
    ASSUME PipelineAssumption, RefutedInv, Collect
    PROVE  RefutedInv'
<1>1. /\ stage = "evidence" /\ stage' = "rank" /\ cards' \in Boards /\ ledger' \subseteq Hypotheses
      /\ UNCHANGED <<env, late, judged, round>>
  BY DEF Collect, reviewVars, loopVars
<1>2. BoardIs(cards')
  BY <1>1 DEF PipelineAssumption, BoardIs
<1>3. RunInv'
  BY <1>1, <1>2 DEF RefutedInv, RunInv, Refuted
<1>4. ListInv' /\ LeaderInv'
  BY <1>1 DEF RefutedInv, ListInv, LeaderInv, Refuted
<1>5. QED
  BY <1>3, <1>4 DEF RefutedInv

\* Ranking, the signatures and the merge leave a ranking; nothing is judged yet.
LEMMA RankStep ==
    ASSUME PipelineAssumption, RefutedInv, RankStage
    PROVE  RefutedInv'
<1> DEFINE ranked == Rank(cards, env.down, env.ctx, 3)
           known  == Promoted(ranked, cards)
<1>1. /\ stage = "rank" /\ stage' = "check" /\ cands' = Merged(known, cards, ledger)
      /\ UNCHANGED <<env, cards, ledger, late, judged, round>>
  BY DEF RankStage, reviewVars, loopVars
<1>2. IsFiniteSet(cards) /\ BoardIs(cards) /\ ledger \subseteq Hypotheses
      /\ IsFiniteSet(env.ctx.blastAgents)
  BY DEF RefutedInv, RunInv, BoardIs, PipelineAssumption
<1>3. IsRanking(ranked)
  BY <1>2, RankIs
<1> HIDE DEF ranked
<1>4. IsRanking(known)
  BY <1>2, <1>3, PromotedIs
<1> HIDE DEF known
<1>5. IsRanking(cands')
  BY <1>1, <1>2, <1>4, MergedIs DEF Merged
<1>6. RunInv'
  BY <1>1 DEF RefutedInv, RunInv, Refuted
<1>7. ListInv' /\ LeaderInv'
  BY <1>1, <1>5 DEF RefutedInv, ListInv, LeaderInv, Refuted
<1>8. QED
  BY <1>6, <1>7 DEF RefutedInv

\* The first self-check refutes no family but the leader.
LEMMA CheckStep ==
    ASSUME PipelineAssumption, RefutedInv, SelfCheckStage
    PROVE  RefutedInv'
<1>1. PICK v \in Answers :
        LET check == SelfCheck(Top, cards, v)
        IN  /\ cands' = [cands EXCEPT ![1].conf = check.conf]
            /\ refuted' = check.refuted
            /\ judged' = Judge(Top.fam, check.refuted)
  BY DEF SelfCheckStage
<1> DEFINE check == SelfCheck(Top, cards, v)
           f     == Top.fam
<1>2. /\ cands' = [cands EXCEPT ![1].conf = check.conf] /\ refuted' = check.refuted
      /\ judged' = Judge(f, check.refuted) /\ stage = "check" /\ stage' \in {"loop", "resolve"}
      /\ UNCHANGED <<env, cards, ledger, late, round>>
  BY <1>1 DEF SelfCheckStage, loopVars
<1>3. IsRanking(cands) /\ round = 0 /\ \A g \in AllFamilies : judged[g] # "refuted"
  BY <1>2 DEF RefutedInv, ListInv, Refuted
<1>4. f \in AllFamilies /\ (check.refuted => f \in Families)
  BY <1>3, LeaderIs, CheckedIs DEF Top
<1> HIDE DEF check
<1>5. IsRanking(cands') /\ cands'[1].fam = f
  BY <1>2, <1>3, GradedIs DEF Top
<1>6. /\ judged' \in [AllFamilies -> Verdicts] /\ (judged'[f] = "refuted" <=> refuted')
      /\ \A g \in AllFamilies : g # f => judged'[g] # "refuted"
  BY <1>2, <1>3, <1>4, JudgeIs DEF RefutedInv, RunInv
<1> HIDE DEF f
<1>7. RunInv'
  BY <1>2, <1>4, <1>6 DEF RefutedInv, RunInv, Refuted
<1>8. ListInv'
  BY <1>2, <1>5 DEF ListInv
<1>9. LeaderInv'
  BY <1>2, <1>5, <1>6 DEF LeaderInv, Refuted, Top
<1>10. QED
  BY <1>7, <1>8, <1>9 DEF RefutedInv

\* A follow-up leaves out the one family refuted so far: where the open world may
\* reorder the list there was no round before it.
LEMMA AimStep ==
    ASSUME PipelineAssumption, RefutedInv, Aim
    PROVE  RefutedInv'
<1>1. /\ stage = "loop" /\ stage' = "probe" /\ round < env.rounds /\ round' = round + 1
      /\ probe'.refuted = RefutedFamily
      /\ UNCHANGED <<env, cards, ledger, late, cands, refuted, judged>>
  BY DEF Aim, reviewVars
<1>2. round \in Nat /\ env.rounds \in Nat /\ round' # 0 /\ round' \in Nat
  <2>1. round \in Nat /\ env \in Settings
    BY DEF RefutedInv, RunInv
  <2>2. env.rounds \in Nat
    BY <2>1 DEF PipelineAssumption
  <2>3. QED
    BY <1>1, <2>1, <2>2
<1>3. RunInv'
  BY <1>1, <1>2 DEF RefutedInv, RunInv, Refuted
<1>4. ListInv'
  BY <1>1, <1>2 DEF RefutedInv, ListInv
<1>5. ASSUME InTime, env.mode = "authoritative", NEW f \in AllFamilies, Refuted(f)
      PROVE  f = RefutedFamily
  <2>1. round = 0
    BY <1>1, <1>2, <1>5 DEF InTime, CheckedLast
  <2>2. QED
    BY <1>1, <1>5, <2>1 DEF RefutedInv, LeaderInv, RefutedFamily
<1>6. UNCHANGED <<InTime, Top>>
  BY <1>1 DEF InTime, CheckedLast, Top
<1>7. LeaderInv'
  BY <1>1, <1>5, <1>6 DEF RefutedInv, LeaderInv, Refuted
<1>8. QED
  BY <1>3, <1>4, <1>7 DEF RefutedInv

\* The loop ends, or its follow-up fails: the leader stays.
LEMMA LeaveStep ==
    ASSUME RefutedInv, Settle \/ ProbeFails
    PROVE  RefutedInv'
<1>1. /\ stage \in {"loop", "probe"} /\ stage' = "resolve"
      /\ UNCHANGED <<env, cards, ledger, late, cands, refuted, judged, round>>
  BY DEF Settle, ProbeFails, reviewVars, loopVars
<1>2. RunInv'
  BY <1>1 DEF RefutedInv, RunInv, Refuted
<1>3. ListInv'
  BY <1>1 DEF RefutedInv, ListInv
<1>4. UNCHANGED <<InTime, Top>>
  BY <1>1 DEF InTime, CheckedLast, Top
<1>5. LeaderInv'
  BY <1>1, <1>4 DEF RefutedInv, LeaderInv, Refuted
<1>6. QED
  BY <1>2, <1>3, <1>5 DEF RefutedInv

\* The deadline passes: the run is no longer in time.
LEMMA ExpireStep ==
    ASSUME RefutedInv, Expire
    PROVE  RefutedInv'
<1>1. /\ env.deadline /\ UNCHANGED <<stage, env, cards, ledger, cands, refuted, judged, round>>
  BY DEF Expire, reviewVars, loopVars
<1>2. RunInv' /\ ListInv'
  BY <1>1 DEF RefutedInv, RunInv, ListInv, Refuted
<1>3. LeaderInv'
  BY <1>1 DEF LeaderInv, InTime
<1>4. QED
  BY <1>2, <1>3 DEF RefutedInv

\* What a follow-up leaves at the head of the list: the candidate it checked or,
\* where the open world reorders the list, one that no earlier check refuted.
LEMMA FollowUpLeads ==
    ASSUME PipelineAssumption, RefutedInv, stage = "probe", InTime,
           NEW list, IsRanking(list),
           probe.refuted # "" => \A c \in ToSet(list) : c.fam # probe.refuted \/ c.fam = Insufficient,
           NEW check, check.refuted => list[1].fam \in Families,
           NEW board, IsFiniteSet(board), NEW hypotheses \in SUBSET Hypotheses,
           NEW final, final = Merged([list EXCEPT ![1].conf = check.conf], board, hypotheses)
    PROVE  Judge(list[1].fam, check.refuted)[final[1].fam] = "refuted" => check.refuted
<1> DEFINE graded == [list EXCEPT ![1].conf = check.conf]
           f      == list[1].fam
           after  == Judge(f, check.refuted)
<1>1. f \in AllFamilies /\ judged \in [AllFamilies -> Verdicts]
      /\ \A g \in AllFamilies : judged[g] = "refuted" => g \in Families
  BY LeaderIs DEF RefutedInv, RunInv, Refuted
<1>2. /\ (after[f] = "refuted") <=> check.refuted
      /\ \A g \in AllFamilies : g # f => after[g] = judged[g]
  <2> DEFINE bad == check.refuted
  <2> HIDE DEF f, graded, bad, after
  <2>0. f \in AllFamilies /\ judged \in [AllFamilies -> Verdicts]
    BY <1>1
  <2>1. /\ (Judge(f, bad)[f] = "refuted") <=> bad
        /\ \A g \in AllFamilies : g # f => Judge(f, bad)[g] = judged[g]
    BY <2>0 DEF Judge, Verdicts
  <2>2. QED
    BY <2>1 DEF bad, after
<1>3. /\ IsRanking(graded) /\ graded[1].fam = f
      /\ \A c \in ToSet(graded) : \E d \in ToSet(list) : c.fam = d.fam
  BY GradedIs
<1> HIDE DEF after
<1>4. CASE env.mode # "authoritative"
  <2>1. final = graded
    BY <1>4 DEF Merged
  <2> HIDE DEF graded
  <2>2. QED
    BY <1>2, <1>3, <2>1 DEF after
<1>5. CASE env.mode = "authoritative"
  <2>1. final = MergeOpenWorld(graded, hypotheses, board)
    BY <1>5 DEF Merged
  <2> HIDE DEF graded
  <2> DEFINE merged == MergeOpenWorld(graded, hypotheses, board)
  <2>m. IsRanking(merged) /\ \A c \in ToSet(merged) : c \in ToSet(graded) \/ c.fam \notin Families
    BY <1>3, MergedIs
  <2>2. IsRanking(final) /\ \A c \in ToSet(final) : c \in ToSet(graded) \/ c.fam \notin Families
    BY <2>1, <2>m
  <2> DEFINE g == final[1].fam
  <2>3. g \in AllFamilies /\ final[1] \in ToSet(final)
    BY <2>2, LeaderIs
  <2>4. ASSUME g # f, judged[g] = "refuted" PROVE FALSE
    <3>1. g = probe.refuted /\ g \in Families
      BY <1>1, <1>5, <2>3, <2>4 DEF RefutedInv, LeaderInv, Refuted
    <3>2. g # "" /\ g # Insufficient
      BY <3>1 DEF PipelineAssumption
    <3>3. PICK d \in ToSet(list) : d.fam = g
      BY <1>3, <2>2, <2>3, <3>1
    <3>4. QED
      BY <3>1, <3>2, <3>3
  <2>5. QED
    BY <1>2, <2>3, <2>4 DEF after
<1>6. QED
  BY <1>4, <1>5

\* A follow-up ranks anew and checks its leader.
LEMMA FollowUpStep ==
    ASSUME PipelineAssumption, RefutedInv, Reanalyze
    PROVE  RefutedInv'
<1>1. PICK found \in Finds, more \in {{}, Hypotheses}, v \in Answers :
        LET board == cards \cup found
        IN  /\ cards' = board
            /\ ledger' = ledger \cup more
            /\ fresh' = {f \in Families : Backing(f, board \ cards) # {}}
            /\ \E list \in {ExcludeRefuted(Promoted(Rank(board, env.down, env.ctx, 3), board),
                                            probe.refuted)} :
               \E check \in {Checked(list, board, v)} :
                 /\ note' = list[1].fam
                 /\ refuted' = check.refuted
                 /\ asks' = check.asks
                 /\ judged' = IF late THEN judged ELSE Judge(list[1].fam, check.refuted)
                 /\ cands' = Merged([list EXCEPT ![1].conf = check.conf], board, ledger')
            /\ stage' = IF cands'[1].fam = Top.fam /\ found \subseteq cards
                        THEN "resolve" ELSE "loop"
  BY DEF Reanalyze
<1> DEFINE board  == cards \cup found
           ranked == Rank(board, env.down, env.ctx, 3)
           list   == ExcludeRefuted(Promoted(ranked, board), probe.refuted)
           check  == Checked(list, board, v)
<1>2. /\ cards' = board /\ ledger' = ledger \cup more /\ refuted' = check.refuted
      /\ judged' = IF late THEN judged ELSE Judge(list[1].fam, check.refuted)
      /\ cands' = Merged([list EXCEPT ![1].conf = check.conf], board, ledger')
  BY <1>1
<1>3. /\ stage = "probe" /\ stage' \in {"loop", "resolve"}
      /\ UNCHANGED <<env, late, round>>
  BY DEF Reanalyze
<1>4. BoardIs(board) /\ IsFiniteSet(board)
  <2>1. BoardIs(cards) /\ BoardIs(found)
    BY DEF RefutedInv, RunInv, PipelineAssumption, BoardIs
  <2>2. QED
    BY <2>1, FS_Union DEF BoardIs
<1>5. ledger' \in SUBSET Hypotheses
  BY <1>2 DEF RefutedInv, RunInv
<1> HIDE DEF board
<1>6. IsRanking(ranked)
  <2>1. IsFiniteSet(env.ctx.blastAgents)
    BY DEF RefutedInv, RunInv, PipelineAssumption
  <2>2. QED
    BY <1>4, <2>1, RankIs
<1> HIDE DEF ranked
<1>7. /\ IsRanking(list)
      /\ probe.refuted # "" => \A c \in ToSet(list) : c.fam # probe.refuted \/ c.fam = Insufficient
  BY <1>4, <1>6, PromotedIs, ExcludedIs
<1> HIDE DEF list
<1>8. check.refuted => list[1].fam \in Families
  BY <1>7, CheckedIs DEF Checked
<1> HIDE DEF check
<1>9. IsRanking(cands')
  <2>1. IsRanking([list EXCEPT ![1].conf = check.conf])
    BY <1>7, GradedIs
  <2>2. QED
    BY <1>2, <1>4, <1>5, <2>1, MergedIs DEF Merged
<1>10. list[1].fam \in AllFamilies
  BY <1>7, LeaderIs
<1>11. /\ judged' \in [AllFamilies -> Verdicts]
       /\ \A f \in AllFamilies : judged'[f] = "refuted" => f \in Families
  BY <1>2, <1>8, <1>10, JudgeIs DEF RefutedInv, RunInv, Refuted
<1>12. RunInv'
  BY <1>2, <1>3, <1>4, <1>5, <1>11 DEF RefutedInv, RunInv, Refuted
<1>13. round # 0
  BY <1>3 DEF RefutedInv, ListInv
<1>14. ListInv'
  BY <1>3, <1>9 DEF ListInv
<1>15. InTime => (judged'[cands'[1].fam] = "refuted" => refuted')
  <2> SUFFICES ASSUME InTime PROVE judged'[cands'[1].fam] = "refuted" => refuted'
    OBVIOUS
  <2>1. ~late
    BY DEF RefutedInv, RunInv, InTime
  <2>2. judged' = Judge(list[1].fam, check.refuted)
    BY <1>2, <2>1
  <2>3. QED
    BY <1>2, <1>3, <1>4, <1>5, <1>7, <1>8, <2>2, FollowUpLeads
<1>16. InTime' => InTime
  BY <1>3 DEF InTime, CheckedLast
<1>17. LeaderInv'
  BY <1>3, <1>13, <1>15, <1>16 DEF LeaderInv, Refuted, Top
<1>18. QED
  BY <1>12, <1>14, <1>17 DEF RefutedInv

\* A refuted leader fails over; one that is not stays.
LEMMA ResolveStep ==
    ASSUME PipelineAssumption, RefutedInv, Resolve
    PROVE  RefutedInv'
<1>1. /\ stage = "resolve" /\ stage' = "synthesize"
      /\ UNCHANGED <<env, cards, ledger, late, round>>
  BY DEF Resolve, loopVars
<1>2. IsRanking(cands) /\ judged \in [AllFamilies -> Verdicts]
      /\ ~\E f \in AllFamilies : judged[f] = "refuted" /\ f \notin Families
  BY <1>1 DEF RefutedInv, RunInv, ListInv, Refuted
<1>3. /\ IsRanking(cands') /\ judged' \in [AllFamilies -> Verdicts]
      /\ \A f \in AllFamilies : judged'[f] = "refuted" => f \in Families
      /\ InTime => judged'[cands'[1].fam] # "refuted"
  <2>1. CASE refuted
    <3>1. PICK views \in Views(cands) :
            LET out == Failover(cands, cards, views)
            IN  cands' = out.list /\ judged' = Record(judged, out)
      BY <2>1 DEF Resolve
    <3> DEFINE out == Failover(cands, cards, views)
    <3>2. cands' = out.list /\ judged' = Record(judged, out)
      BY <3>1
    <3>3. Resolved(out)
      BY <1>2, FailoverIs
    <3> HIDE DEF out
    <3>4. QED
      BY <1>2, <3>2, <3>3, RecordIs DEF Resolved
  <2>2. CASE ~refuted
    <3>1. UNCHANGED <<cands, judged>>
      BY <2>2 DEF Resolve, reviewVars
    <3>2. QED
      BY <1>1, <1>2, <2>2, <3>1 DEF RefutedInv, LeaderInv, Refuted, Top
  <2>3. QED
    BY <2>1, <2>2
<1>4. RunInv'
  BY <1>1, <1>3 DEF RefutedInv, RunInv, Refuted
<1>5. ListInv'
  BY <1>1, <1>3 DEF ListInv
<1>6. InTime' => InTime
  BY <1>1 DEF InTime, CheckedLast
<1>7. LeaderInv'
  BY <1>1, <1>3, <1>6 DEF LeaderInv, Refuted, Top
<1>8. QED
  BY <1>4, <1>5, <1>7 DEF RefutedInv

\* The verification of the matches leaves a ranking whose leader, checked as
\* often as it changes, is not refuted.
LEMMA VerifiedIs ==
    ASSUME PipelineAssumption, IsRanking(cands), judged \in [AllFamilies -> Verdicts],
           \A f \in AllFamilies : judged[f] = "refuted" => f \in Families,
           NEW names, NEW v, NEW views
    PROVE  LET out == Verified(names, v, views)
           IN  /\ IsRanking(out.list) /\ out.judged \in [AllFamilies -> Verdicts]
               /\ \A f \in AllFamilies : out.judged[f] = "refuted" => f \in Families
               /\ judged[Top.fam] # "refuted" => out.judged[out.list[1].fam] # "refuted"
<1> DEFINE kept  == DropRefuted(cands, names)
           check == SelfCheck(kept[1], cards, v)
           list  == [kept EXCEPT ![1].conf = check.conf]
           out   == Failover(list, cards, views)
           f     == kept[1].fam
           end   == Verified(names, v, views)
<1>1. end = IF f \in {Insufficient, Top.fam}
            THEN [list |-> kept, refuted |-> refuted, asks |-> asks, judged |-> judged]
            ELSE IF ~check.refuted
            THEN [list |-> list, refuted |-> FALSE, asks |-> check.asks, judged |-> Judge(f, FALSE)]
            ELSE [list |-> out.list, refuted |-> out.refuted, asks |-> out.asks,
                  judged |-> Record(Judge(f, TRUE), out)]
  BY DEF Verified
<1>2. IsRanking(kept)
  BY DroppedIs
<1> HIDE DEF kept, end
<1>3. f \in AllFamilies /\ (check.refuted => f \in Families)
  BY <1>2, LeaderIs, CheckedIs
<1> HIDE DEF check
<1>4. IsRanking(list) /\ list[1].fam = f
  BY <1>2, GradedIs
<1> HIDE DEF list
<1>5. Resolved(out)
  BY <1>4, FailoverIs
<1> HIDE DEF out, f
<1>6. CASE f \in {Insufficient, Top.fam}
  <2>1. end.list = kept /\ end.judged = judged
    BY <1>1, <1>6
  <2>2. judged[Top.fam] # "refuted" => judged[f] # "refuted"
    BY <1>3, <1>6 DEF PipelineAssumption
  <2>3. QED
    BY <1>2, <2>1, <2>2 DEF end, f
<1>7. CASE f \notin {Insufficient, Top.fam} /\ ~check.refuted
  <2>1. end.list = list /\ end.judged = Judge(f, FALSE)
    BY <1>1, <1>7
  <2>2. /\ Judge(f, FALSE) \in [AllFamilies -> Verdicts] /\ Judge(f, FALSE)[f] # "refuted"
        /\ \A g \in AllFamilies : g # f => Judge(f, FALSE)[g] = judged[g]
    BY <1>3, JudgeIs
  <2>3. QED
    BY <1>4, <2>1, <2>2 DEF end
<1>8. CASE f \notin {Insufficient, Top.fam} /\ check.refuted
  <2>1. end.list = out.list /\ end.judged = Record(Judge(f, TRUE), out)
    BY <1>1, <1>8
  <2>2. /\ Judge(f, TRUE) \in [AllFamilies -> Verdicts]
        /\ \A g \in AllFamilies : g # f => Judge(f, TRUE)[g] = judged[g]
    BY <1>3, JudgeIs
  <2> DEFINE old == Judge(f, TRUE)
  <2>3. ~\E g \in AllFamilies : old[g] = "refuted" /\ g \notin Families
    BY <1>3, <1>8, <2>2
  <2> HIDE DEF old
  <2>4. old \in [AllFamilies -> Verdicts]
    BY <2>2 DEF old
  <2>5. /\ Record(old, out) \in [AllFamilies -> Verdicts]
        /\ \A g \in AllFamilies : Record(old, out)[g] = "refuted" => g \in Families
        /\ Record(old, out)[out.list[1].fam] # "refuted"
    BY <1>5, <2>3, <2>4, RecordIs
  <2>6. end.list = out.list /\ end.judged = Record(old, out)
    BY <2>1 DEF old
  <2>7. IsRanking(out.list)
    BY <1>5 DEF Resolved
  <2>8. /\ IsRanking(end.list) /\ end.judged \in [AllFamilies -> Verdicts]
        /\ \A g \in AllFamilies : end.judged[g] = "refuted" => g \in Families
        /\ end.judged[end.list[1].fam] # "refuted"
    BY <2>5, <2>6, <2>7
  <2>9. QED
    BY <2>8 DEF end
<1>9. QED
  BY <1>6, <1>7, <1>8

\* Synthesis drops unverified matches and checks a leader this brings up.
LEMMA SynthesizeStep ==
    ASSUME PipelineAssumption, RefutedInv, Synthesize
    PROVE  RefutedInv'
<1>1. /\ stage = "synthesize" /\ stage' = "harness"
      /\ UNCHANGED <<env, cards, ledger, late, round>>
      /\ \E names, v, views : LET out == Verified(names, v, views)
                              IN  cands' = out.list /\ judged' = out.judged
  BY DEF Synthesize, loopVars
<1>2. /\ IsRanking(cands) /\ judged \in [AllFamilies -> Verdicts]
      /\ \A f \in AllFamilies : judged[f] = "refuted" => f \in Families
      /\ InTime => judged[Top.fam] # "refuted"
  BY <1>1 DEF RefutedInv, RunInv, ListInv, LeaderInv, Refuted
<1>3. /\ IsRanking(cands') /\ judged' \in [AllFamilies -> Verdicts]
      /\ \A f \in AllFamilies : judged'[f] = "refuted" => f \in Families
      /\ InTime => judged'[cands'[1].fam] # "refuted"
  <2>1. PICK names, v, views : LET out == Verified(names, v, views)
                               IN  cands' = out.list /\ judged' = out.judged
    BY <1>1
  <2> DEFINE out == Verified(names, v, views)
  <2>2. cands' = out.list /\ judged' = out.judged
    BY <2>1
  <2>3. /\ IsRanking(out.list) /\ out.judged \in [AllFamilies -> Verdicts]
        /\ \A f \in AllFamilies : out.judged[f] = "refuted" => f \in Families
        /\ judged[Top.fam] # "refuted" => out.judged[out.list[1].fam] # "refuted"
    <3>1. /\ IsRanking(cands) /\ judged \in [AllFamilies -> Verdicts]
          /\ \A f \in AllFamilies : judged[f] = "refuted" => f \in Families
      BY <1>2
    <3>2. QED
      BY <3>1, VerifiedIs
  <2> HIDE DEF out
  <2>4. InTime => judged[Top.fam] # "refuted"
    BY <1>2
  <2>5. /\ IsRanking(cands') /\ judged' \in [AllFamilies -> Verdicts]
        /\ \A f \in AllFamilies : judged'[f] = "refuted" => f \in Families
    BY <2>2, <2>3
  <2>6. judged[Top.fam] # "refuted" => judged'[cands'[1].fam] # "refuted"
    BY <2>2, <2>3
  <2>7. QED
    BY <2>4, <2>5, <2>6
<1>4. RunInv'
  BY <1>1, <1>3 DEF RefutedInv, RunInv, Refuted
<1>5. ListInv'
  BY <1>1, <1>3 DEF ListInv
<1>6. InTime' => InTime
  BY <1>1 DEF InTime, CheckedLast
<1>7. LeaderInv'
  BY <1>1, <1>3, <1>6 DEF LeaderInv, Refuted, Top
<1>8. QED
  BY <1>4, <1>5, <1>7 DEF RefutedInv

\* A repair may lower the leader's confidence, and nothing else of the list.
LEMMA RepairStep ==
    ASSUME PipelineAssumption, RefutedInv, RepairRound
    PROVE  RefutedInv'
<1>1. /\ stage = "harness" /\ cands' = Downgraded(cands, FailedGates)
      /\ UNCHANGED <<stage, env, cards, ledger, late, judged, refuted, round>>
  BY DEF RepairRound, reviewVars, loopVars
<1>2. IsRanking(cands)
  BY <1>1 DEF RefutedInv, ListInv
<1>3. IsRanking(cands') /\ cands'[1].fam = Top.fam
  <2>1. cands' = cands \/ cands' = [cands EXCEPT ![1].conf = Medium]
    BY <1>1 DEF Downgraded
  <2> DEFINE lower == [cands EXCEPT ![1].conf = Medium]
  <2>2. IsRanking(lower) /\ lower[1].fam = cands[1].fam
    BY <1>2, GradedIs
  <2> HIDE DEF lower
  <2>3. cands' = cands \/ cands' = lower
    BY <2>1 DEF lower
  <2>4. QED
    BY <1>2, <2>2, <2>3 DEF Top
<1>4. RunInv'
  BY <1>1 DEF RefutedInv, RunInv, Refuted
<1>5. ListInv'
  BY <1>1, <1>3 DEF ListInv
<1>6. InTime' => InTime
  BY <1>1 DEF InTime, CheckedLast
<1>7. LeaderInv'
  BY <1>1, <1>3, <1>6 DEF RefutedInv, LeaderInv, Refuted, Top
<1>8. QED
  BY <1>4, <1>5, <1>7 DEF RefutedInv

\* When the report goes out no check is recorded.
LEMMA EndStep ==
    ASSUME RefutedInv, Publish \/ Abstain \/ PassThrough
    PROVE  RefutedInv'
<1>1. stage' = "done" /\ UNCHANGED <<env, cards, ledger, late, judged, round>>
  BY DEF Publish, Abstain, PassThrough, reviewVars, loopVars
<1>2. RunInv'
  BY <1>1 DEF RefutedInv, RunInv, Refuted
<1>3. ListInv' /\ LeaderInv'
  BY <1>1 DEF ListInv, LeaderInv
<1>4. QED
  BY <1>2, <1>3 DEF RefutedInv

\* Every step of a run keeps the invariant.
LEMMA RefutedStep ==
    ASSUME PipelineAssumption, RefutedInv, [Next]_vars
    PROVE  RefutedInv'
<1>1. CASE UNCHANGED vars
  <2>1. UNCHANGED <<stage, env, cards, ledger, late, cands, refuted, round, probe, judged>>
    BY <1>1 DEF vars
  <2>2. QED
    BY <2>1 DEF RefutedInv, RunInv, ListInv, LeaderInv, InTime, CheckedLast, Refuted, Top
<1>2. CASE Collect \/ RankStage \/ SelfCheckStage
  BY <1>2, CollectStep, RankStep, CheckStep
<1>3. CASE Expire \/ Aim \/ Settle \/ ProbeFails \/ Reanalyze
  BY <1>3, ExpireStep, AimStep, LeaveStep, FollowUpStep
<1>4. CASE Resolve \/ Synthesize
  BY <1>4, ResolveStep, SynthesizeStep
<1>5. CASE RepairRound \/ Publish \/ Abstain \/ PassThrough
  BY <1>5, RepairStep, EndStep
<1>6. CASE Done
  BY <1>1, <1>6 DEF Done
<1>7. QED
  BY <1>1, <1>2, <1>3, <1>4, <1>5, <1>6 DEF Next

\* In a run that keeps its time, no family whose latest self-check refuted it is
\* the headline that is synthesized and goes through the harness
\* (_resolve_refuted_top_from_existing_candidates, _self_check_if_top_changed),
\* for any catalog, cards, hypotheses, opinions and number of rounds, where the
\* open world does not reorder a list that more than one round has checked.
THEOREM RefutedNeverSynthesizedHolds == Spec => []RefutedNeverSynthesizedInTime
<1>1. Init => RefutedInv
  BY RefutedInit, PipelineAssumption
<1>2. RefutedInv /\ [Next]_vars => RefutedInv'
  BY RefutedStep, PipelineAssumption
<1>3. RefutedInv => RefutedNeverSynthesizedInTime
  BY DEF RefutedInv, ListInv, LeaderInv, IsRanking, InTime, Refuted, Headline,
         RefutedNeverSynthesizedInTime, RefutedNeverSynthesized
<1>4. QED
  BY <1>1, <1>2, <1>3, PTL DEF Spec
=============================================================================
