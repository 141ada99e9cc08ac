------------------------ MODULE CaseKnowledge_proofs ------------------------
(***************************************************************************)
(* What holds of approvals, candidates and packages for any incidents,     *)
(* cases, candidates and reviewers.                                        *)
(***************************************************************************)
EXTENDS CaseKnowledge, FiniteSetTheorems, TLAPS

-----------------------------------------------------------------------------
(* What the operators on books do *)

LEMMA CandFields ==
    ASSUME NEW k \in Candidate
    PROVE  /\ k.status \in CandStatus /\ k.err \in Reasons /\ k.case \in Cases \cup {NoCase}
           /\ k.support \subseteq Cases /\ k.pkg \in Cases \cup {NoCase} /\ k.text \in Texts
BY DEF Candidate

LEMMA BookFields ==
    ASSUME NEW b \in Book
    PROVE  /\ b.cand \in [Candidates -> Candidate] /\ b.pkg \in [Cases -> Package]
           /\ \A x \in Candidates : b.cand[x] \in Candidate
           /\ \A p \in Cases : b.pkg[p] \in Package
BY DEF Book

\* t is b with the candidates of X set to a status, for a reason if one is given.
Sets(t, b, X, st, why) ==
    /\ t \in Book /\ t.pkg = b.pkg
    /\ \A x \in Candidates : x \notin X => t.cand[x] = b.cand[x]
    /\ \A x \in Candidates : x \in X =>
          /\ t.cand[x].status = st /\ (why # "" => t.cand[x].err = why)
          /\ t.cand[x].case = b.cand[x].case /\ t.cand[x].support = b.cand[x].support
          /\ t.cand[x].pkg = b.cand[x].pkg /\ t.cand[x].text = b.cand[x].text

LEMMA SetStatusIs ==
    ASSUME NEW b \in Book, NEW X, NEW st \in CandStatus, NEW why \in Reasons
    PROVE  Sets(SetStatus(b, X, st, why), b, X, st, why)
<1> DEFINE t == SetStatus(b, X, st, why)
           New(x) == [b.cand[x] EXCEPT !.status = st, !.err = IF why = "" THEN @ ELSE why]
           f == [x \in Candidates |-> IF x \in X THEN New(x) ELSE b.cand[x]]
<1>1. \A x \in Candidates : b.cand[x] \in Candidate
  BY BookFields
<1>2. ASSUME NEW x \in Candidates
      PROVE  /\ New(x) \in Candidate
             /\ New(x).status = st /\ (why # "" => New(x).err = why)
             /\ New(x).case = b.cand[x].case /\ New(x).support = b.cand[x].support
             /\ New(x).pkg = b.cand[x].pkg /\ New(x).text = b.cand[x].text
  BY <1>1 DEF Candidate
<1> HIDE DEF New
<1>3. f \in [Candidates -> Candidate]
  BY <1>1, <1>2
<1>4. t = [b EXCEPT !.cand = f]
  BY DEF SetStatus, New
<1>5. t.cand = f /\ t.pkg = b.pkg /\ t \in Book
  BY <1>3, <1>4 DEF Book
<1> HIDE DEF t
<1>6. QED
  BY <1>2, <1>5 DEF t, Sets

LEMMA RetireIs ==
    ASSUME NEW b \in Book, NEW P, NEW t, t = RetireIn(b, P)
    PROVE  /\ t \in Book /\ t.cand = b.cand
           /\ \A p \in Cases \ P : t.pkg[p] = b.pkg[p]
           /\ \A p \in Cases : p \in P =>
                 /\ t.pkg[p].status = "retired" /\ t.pkg[p].cand = b.pkg[p].cand
                 /\ t.pkg[p].text = b.pkg[p].text
<1> DEFINE f == [p \in Cases |-> IF p \in P THEN [b.pkg[p] EXCEPT !.status = "retired"] ELSE b.pkg[p]]
<1>1. \A p \in Cases : b.pkg[p] \in Package
  BY BookFields
<1>2. ASSUME NEW p \in Cases
      PROVE  /\ [b.pkg[p] EXCEPT !.status = "retired"] \in Package
             /\ [b.pkg[p] EXCEPT !.status = "retired"].status = "retired"
             /\ [b.pkg[p] EXCEPT !.status = "retired"].cand = b.pkg[p].cand
             /\ [b.pkg[p] EXCEPT !.status = "retired"].text = b.pkg[p].text
  BY <1>1 DEF Package
<1>3. f \in [Cases -> Package]
  BY <1>1, <1>2
<1>4. t = [b EXCEPT !.pkg = f]
  BY DEF RetireIn
<1>5. t.pkg = f /\ t.cand = b.cand /\ t \in Book
  BY <1>3, <1>4 DEF Book
<1>6. QED
  BY <1>2, <1>5

\* One candidate of a book is replaced.
LEMMA PutCandidate ==
    ASSUME NEW b \in Book, NEW x \in Candidates, NEW k \in Candidate
    PROVE  LET t == [b EXCEPT !.cand[x] = k] IN
           /\ t \in Book /\ t.pkg = b.pkg /\ t.cand[x] = k
           /\ \A y \in Candidates \ {x} : t.cand[y] = b.cand[y]
BY DEF Book

LEMMA PutPackage ==
    ASSUME NEW b \in Book, NEW p \in Cases, NEW g \in Package
    PROVE  LET t == [b EXCEPT !.pkg[p] = g] IN
           /\ t \in Book /\ t.cand = b.cand /\ t.pkg[p] = g
           /\ \A q \in Cases \ {p} : t.pkg[q] = b.pkg[q]
BY DEF Book

LEMMA NewIsCandidate ==
    ASSUME NEW c \in Cases, NEW x
    PROVE  NewCandidate(c, x) \in Candidate
BY DEF NewCandidate, Candidate, CandStatus, Reasons, Texts

LEMMA LinkIs ==
    ASSUME NEW b \in Book, NEW c \in Cases, NEW x \in Candidates, NEW t, t = LinkIn(b, c, x)
    PROVE  /\ t \in Book /\ t.pkg = b.pkg
           /\ \A y \in Candidates \ {x} : t.cand[y] = b.cand[y]
           /\ b.cand[x].status = "absent" => t.cand[x] = NewCandidate(c, x)
           /\ b.cand[x].status # "absent" =>
                /\ t.cand[x].status = b.cand[x].status /\ t.cand[x].text = b.cand[x].text
                /\ t.cand[x].err = b.cand[x].err /\ t.cand[x].case = b.cand[x].case
                /\ t.cand[x].pkg = b.cand[x].pkg
                /\ t.cand[x].support = b.cand[x].support \cup {c}
<1> DEFINE k == IF b.cand[x].status = "absent" THEN NewCandidate(c, x)
                ELSE [b.cand[x] EXCEPT !.support = @ \cup {c}]
<1>1. b.cand[x] \in Candidate /\ b.cand \in [Candidates -> Candidate]
  BY BookFields
<1>2. [b.cand[x] EXCEPT !.support = @ \cup {c}] \in Candidate
  BY <1>1 DEF Candidate
<1>3. k \in Candidate
  BY <1>2, NewIsCandidate
<1>4. t = [b EXCEPT !.cand[x] = k]
  BY <1>1 DEF LinkIn, Book
<1>5. t \in Book /\ t.pkg = b.pkg /\ t.cand[x] = k
      /\ \A y \in Candidates \ {x} : t.cand[y] = b.cand[y]
  BY <1>3, <1>4, PutCandidate
<1>6. QED
  BY <1>1, <1>5 DEF Candidate

LEMMA ReviveIs ==
    ASSUME NEW b \in Book, NEW x \in Candidates, NEW t, t = ReviveIn(b, x)
    PROVE  /\ t \in Book /\ t.pkg = b.pkg
           /\ \A y \in Candidates \ {x} : t.cand[y] = b.cand[y]
           /\ t.cand[x].status = "ready" /\ t.cand[x].text = "raw" /\ t.cand[x].pkg = NoCase
           /\ t.cand[x].case = b.cand[x].case /\ t.cand[x].support = b.cand[x].support
<1> DEFINE k == [b.cand[x] EXCEPT !.status = "ready", !.err = "", !.pkg = NoCase, !.text = "raw"]
<1>1. b.cand[x] \in Candidate /\ b.cand \in [Candidates -> Candidate]
  BY BookFields
<1>2. /\ k \in Candidate
      /\ k.status = "ready" /\ k.text = "raw" /\ k.pkg = NoCase
      /\ k.case = b.cand[x].case /\ k.support = b.cand[x].support
  BY <1>1 DEF Candidate, CandStatus, Reasons, Texts
<1>3. t = [b EXCEPT !.cand[x] = k]
  BY DEF ReviveIn
<1> HIDE DEF k
<1>4. t \in Book /\ t.pkg = b.pkg /\ t.cand[x] = k /\ \A y \in Candidates \ {x} : t.cand[y] = b.cand[y]
  BY <1>2, <1>3, PutCandidate
<1>5. QED
  BY <1>2, <1>4

-----------------------------------------------------------------------------
(* Types, and whose text a candidate carries *)

\* What a reviewer wrote is in the row too, and the row is not deleted.
Texted(m, r) ==
    \A x \in Candidates :
       /\ m.cand[x].text = "human" => r.cand[x].text = "human"
       /\ r.cand[x].text = "human" => r.cand[x].status # "absent"

\* A change that writes no text of its own.
Kept(m, t) == \A x \in Candidates : t.cand[x].text \in {m.cand[x].text, "raw"}

Good(s) == s.mem \in Book /\ s.rows \in Book /\ Texted(s.mem, s.rows)

LEMMA KeptTwice ==
    ASSUME NEW a, NEW b, NEW c, Kept(a, b), Kept(b, c)
    PROVE  Kept(a, c)
BY DEF Kept

LEMMA RecomputeType ==
    ASSUME NEW R, NEW c \in Cases
    PROVE  Recompute(R, c) \in Candidates \cup {NoCand}
BY CaseKnowledgeAssumption DEF Recompute, Mode, Modes

LEMMA SetGood ==
    ASSUME NEW s, Good(s), NEW X, NEW st \in CandStatus \ {"absent"}, NEW why \in Reasons
    PROVE  Good(Set(s, X, st, why)) /\ Kept(s.mem, Set(s, X, st, why).mem)
<1> DEFINE m == Set(s, X, st, why).mem
           r == Set(s, X, st, why).rows
<1>1. m = SetStatus(s.mem, X, st, why) /\ r = SetStatus(s.rows, X, st, why)
  BY DEF Set
<1> HIDE DEF m, r
<1>2. Sets(m, s.mem, X, st, why) /\ Sets(r, s.rows, X, st, why)
  BY <1>1, SetStatusIs DEF Good
<1>3. ASSUME NEW x \in Candidates
      PROVE  /\ m.cand[x].text = s.mem.cand[x].text /\ r.cand[x].text = s.rows.cand[x].text
             /\ r.cand[x].status \in {s.rows.cand[x].status, st}
  <2>1. CASE x \in X
    BY <1>2, <2>1 DEF Sets
  <2>2. CASE x \notin X
    BY <1>2, <2>2 DEF Sets
  <2>3. QED
    BY <2>1, <2>2
<1>4. Texted(m, r) /\ Kept(s.mem, m)
  BY <1>3 DEF Good, Texted, Kept
<1>5. QED
  BY <1>2, <1>4 DEF Sets, Good, m, r

LEMMA DropGood ==
    ASSUME NEW s, Good(s), NEW P
    PROVE  Good(Drop(s, P)) /\ Kept(s.mem, Drop(s, P).mem)
<1> DEFINE m == RetireIn(s.mem, P)
           r == RetireIn(s.rows, P)
<1>0. /\ m = RetireIn(s.mem, P)
      /\ r = RetireIn(s.rows, P)
      /\ Drop(s, P).mem = m /\ Drop(s, P).rows = r
      /\ s.mem \in Book /\ s.rows \in Book
  BY DEF Good, Drop
<1> HIDE DEF m, r
<1>1. m \in Book /\ m.cand = s.mem.cand /\ r \in Book /\ r.cand = s.rows.cand
  BY <1>0, RetireIs
<1>3. QED
  BY <1>1, <1>0 DEF Good, Texted, Kept

LEMMA LinkGood ==
    ASSUME NEW s, Good(s), NEW c \in Cases, NEW x \in Candidates
    PROVE  Good(Link(s, c, x)) /\ Kept(s.mem, Link(s, c, x).mem)
<1> DEFINE m == LinkIn(s.mem, c, x)
           r == LinkIn(s.rows, c, x)
<1>0. /\ m = LinkIn(s.mem, c, x)
      /\ r = LinkIn(s.rows, c, x)
      /\ Link(s, c, x).mem = m /\ Link(s, c, x).rows = r
      /\ s.mem \in Book /\ s.rows \in Book
  BY DEF Good, Link
<1> HIDE DEF m, r
<1>2. NewCandidate(c, x).text = "raw" /\ NewCandidate(c, x).status # "absent"
  BY DEF NewCandidate
<1>3. /\ m \in Book /\ \A y \in Candidates \ {x} : m.cand[y] = s.mem.cand[y]
      /\ m.cand[x].text \in {s.mem.cand[x].text, "raw"}
  BY <1>2, <1>0, LinkIs
<1>4. /\ r \in Book /\ \A y \in Candidates \ {x} : r.cand[y] = s.rows.cand[y]
      /\ r.cand[x].status # "absent"
      /\ s.rows.cand[x].status # "absent" => r.cand[x].text = s.rows.cand[x].text
      /\ s.rows.cand[x].status = "absent" => r.cand[x].text = "raw"
  BY <1>2, <1>0, LinkIs
<1>5. Texted(m, r) /\ Kept(s.mem, m)
  BY <1>3, <1>4 DEF Good, Texted, Kept
<1>6. QED
  BY <1>0, <1>3, <1>4, <1>5 DEF Good

LEMMA ReviveGood ==
    ASSUME NEW s, Good(s), NEW x \in Candidates
    PROVE  Good(Revive(s, x)) /\ Kept(s.mem, Revive(s, x).mem)
<1> DEFINE m == ReviveIn(s.mem, x)
           r == ReviveIn(s.rows, x)
<1>0. /\ m = ReviveIn(s.mem, x)
      /\ r = ReviveIn(s.rows, x)
      /\ Revive(s, x).mem = m /\ Revive(s, x).rows = r
      /\ s.mem \in Book /\ s.rows \in Book
  BY DEF Good, Revive
<1> HIDE DEF m, r
<1>2. /\ m \in Book /\ \A y \in Candidates \ {x} : m.cand[y] = s.mem.cand[y]
      /\ m.cand[x].text = "raw"
  BY <1>0, ReviveIs
<1>3. /\ r \in Book /\ \A y \in Candidates \ {x} : r.cand[y] = s.rows.cand[y]
      /\ r.cand[x].text = "raw"
  BY <1>0, ReviveIs
<1>4. Texted(m, r) /\ Kept(s.mem, m)
  BY <1>2, <1>3 DEF Good, Texted, Kept
<1>5. QED
  BY <1>0, <1>2, <1>3, <1>4 DEF Good

LEMMA SupersedeGood ==
    ASSUME NEW s, Good(s), NEW c, NEW keep, NEW lost
    PROVE  Good(SupersedeStale(s, c, keep, lost)) /\ Kept(s.mem, SupersedeStale(s, c, keep, lost).mem)
<1> DEFINE stale == {x \in Supporting(s.mem, c) \ (lost \cup {keep}) : s.mem.cand[x].status = "failed"}
<1>1. SupersedeStale(s, c, keep, lost) = Set(s, stale, "superseded", "")
  BY DEF SupersedeStale
<1> HIDE DEF stale
<1>2. QED
  BY <1>1, SetGood DEF CandStatus, Reasons

LEMMA InvalidatedGood ==
    ASSUME NEW s, Good(s), NEW R, NEW c, NEW lost
    PROVE  Good(Invalidated(s, R, c, lost)) /\ Kept(s.mem, Invalidated(s, R, c, lost).mem)
<1> DEFINE gone == {x \in Supporting(s.mem, c) \ lost : s.mem.cand[x].status \in LiveStatus}
           pkgs == {p \in Cases : s.mem.pkg[p].status \in Published /\ \E x \in gone : s.mem.cand[x].pkg = p}
           t == Set(s, gone, "failed", "review")
<1>1. Good(t) /\ Kept(s.mem, t.mem)
  BY SetGood DEF CandStatus, Reasons
<1>2. Invalidated(s, R, c, lost) \in {s, Drop(t, pkgs)}
  BY DEF Invalidated
<1> HIDE DEF gone, pkgs, t
<1>3. Good(Drop(t, pkgs)) /\ Kept(t.mem, Drop(t, pkgs).mem)
  BY <1>1, DropGood
<1>4. Kept(s.mem, Drop(t, pkgs).mem)
  BY <1>1, <1>3, KeptTwice
<1>5. Kept(s.mem, s.mem)
  BY DEF Kept
<1>6. QED
  BY <1>2, <1>3, <1>4, <1>5

LEMMA GeneratedGood ==
    ASSUME NEW s, Good(s), NEW R, NEW c \in Cases, NEW lost
    PROVE  Good(Generated(s, R, c, lost)) /\ Kept(s.mem, Generated(s, R, c, lost).mem)
<1> DEFINE x == Recompute(R, c)
           Done(t) == SupersedeStale(t, c, x, lost)
           a == Set(s, {x}, "failed", "compile")
           b == Revive(s, x)
           d == Link(s, c, x)
<1>1. Kept(s.mem, s.mem)
  BY DEF Kept
<1>2. CASE x = NoCand
  BY <1>1, <1>2 DEF Generated
<1>3. CASE x # NoCand
  <2>1. x \in Candidates
    BY <1>3, RecomputeType
  <2>2. Good(a) /\ Kept(s.mem, a.mem) /\ Good(b) /\ Kept(s.mem, b.mem) /\ Good(d) /\ Kept(s.mem, d.mem)
    BY <2>1, SetGood, ReviveGood, LinkGood DEF CandStatus, Reasons
  <2>3. Generated(s, R, c, lost) \in {s, Done(a), Done(b), Done(d)}
    BY DEF Generated
  <2> HIDE DEF x, a, b, d
  <2>4. /\ Good(Done(a)) /\ Kept(s.mem, Done(a).mem)
        /\ Good(Done(b)) /\ Kept(s.mem, Done(b).mem)
        /\ Good(Done(d)) /\ Kept(s.mem, Done(d).mem)
    BY <2>2, SupersedeGood, KeptTwice
  <2>5. QED
    BY <1>1, <2>3, <2>4
<1>4. QED
  BY <1>2, <1>3

LEMMA PriorIs ==
    ASSUME NEW b \in Book, NEW P
    PROVE  LET t == SupersedePrior(b, P)
               Y == {y \in {mem.pkg[p].cand : p \in P} : b = mem \/ b.cand[y].status = "active"} IN
           /\ t \in Book
           /\ \A x \in Candidates : /\ t.cand[x].text = b.cand[x].text
                                    /\ t.cand[x].status \in {b.cand[x].status, "superseded"}
           /\ Sets(t, RetireIn(b, P), Y, "superseded", "")
<1> DEFINE t == SupersedePrior(b, P)
           r == RetireIn(b, P)
           Y == {y \in {mem.pkg[p].cand : p \in P} : b = mem \/ b.cand[y].status = "active"}
<1>1. r \in Book /\ r.cand = b.cand
  BY RetireIs
<1>2. t = SetStatus(r, Y, "superseded", "")
  BY DEF SupersedePrior
<1> HIDE DEF t, r, Y
<1>3. Sets(t, r, Y, "superseded", "")
  BY <1>1, <1>2, SetStatusIs DEF CandStatus, Reasons
<1>4. ASSUME NEW x \in Candidates
      PROVE  /\ t.cand[x].text = b.cand[x].text
             /\ t.cand[x].status \in {b.cand[x].status, "superseded"}
  <2>1. CASE x \in Y
    BY <1>1, <1>3, <2>1 DEF Sets
  <2>2. CASE x \notin Y
    BY <1>1, <1>3, <2>2 DEF Sets
  <2>3. QED
    BY <2>1, <2>2
<1>5. QED
  BY <1>3, <1>4 DEF Sets, t, r, Y

\* t is b with x published as to under the package of its case.
Publishes(t, b, x, to) ==
    LET c == mem.cand[x].case IN
    /\ t \in Book
    /\ \A y \in Candidates : y # x => t.cand[y] = b.cand[y]
    /\ t.cand[x].status = to /\ t.cand[x].pkg = c /\ t.cand[x].text = mem.cand[x].text
    /\ t.cand[x].case = b.cand[x].case /\ t.cand[x].support = b.cand[x].support
    /\ \A p \in Cases : p # c => t.pkg[p] = b.pkg[p]
    /\ c \in Cases => t.pkg[c] = [cand |-> x, status |-> to, text |-> mem.cand[x].text]

LEMMA PublishIs ==
    ASSUME mem \in Book, NEW b \in Book, NEW x \in Candidates, NEW to \in Published
    PROVE  Publishes(PublishIn(b, x, to), b, x, to)
<1> DEFINE c == mem.cand[x].case
           text == mem.cand[x].text
           k == [b.cand[x] EXCEPT !.status = to, !.err = "", !.pkg = c, !.text = text]
           g == [cand |-> x, status |-> to, text |-> text]
           f == [b.cand EXCEPT ![x] = k]
           h == [b.pkg EXCEPT ![c] = g]
           t == PublishIn(b, x, to)
<1>1. /\ b.cand \in [Candidates -> Candidate] /\ b.pkg \in [Cases -> Package]
      /\ b.cand[x] \in Candidate /\ mem.cand[x] \in Candidate
  BY BookFields
<1>2. c \in Cases \cup {NoCase} /\ text \in Texts
  BY <1>1, CandFields
<1>3. g \in Package
  BY <1>2 DEF Package, Published
<1>4. /\ k \in Candidate /\ k.status = to /\ k.pkg = c /\ k.text = text
      /\ k.case = b.cand[x].case /\ k.support = b.cand[x].support
  BY <1>1, <1>2 DEF Candidate, CandStatus, Published, Reasons
<1>5. t = [b EXCEPT !.cand = f, !.pkg = h]
  BY <1>1 DEF PublishIn, Book
<1> HIDE DEF k, g, c, text
<1>6. /\ f \in [Candidates -> Candidate] /\ f[x] = k
      /\ \A y \in Candidates : y # x => f[y] = b.cand[y]
  BY <1>1, <1>4
<1>7. /\ h \in [Cases -> Package] /\ (c \in Cases => h[c] = g)
      /\ \A p \in Cases : p # c => h[p] = b.pkg[p]
  BY <1>1, <1>3
<1> HIDE DEF f, h, t
<1>8. t \in Book /\ t.cand = f /\ t.pkg = h
  BY <1>5, <1>6, <1>7 DEF Book
<1>9. QED
  BY <1>4, <1>6, <1>7, <1>8 DEF Publishes, c, text, g, t

\* A step leaves well-typed books, and no reviewer's words are overwritten.
BookStep ==
    /\ mem' \in Book /\ rows' \in Book /\ Texted(mem', rows')
    /\ \A x \in Candidates : mem.cand[x].text = "human" => mem'.cand[x].text # "llm"

\* What a decision waiting for the validator was asked for.
Asked == \A x \in Candidates : checking[x] # Idle => checking[x].to \in Published /\ x \in Eligible

\* A run that completed has a case.
RunNamed == \A i \in Incidents : run[i].status = "complete" => run[i].case # NoCase

TInv == TypeOK /\ Texted(mem, rows) /\ Asked /\ RunNamed

LEMMA BothGood ==
    ASSUME TInv
    PROVE  Good(Both) /\ Both.mem = mem /\ Both.rows = rows /\ mem \in Book /\ rows \in Book
BY DEF TInv, TypeOK, Good, Both

LEMMA StoreStep ==
    ASSUME NEW t, Good(t), Kept(mem, t.mem), Store(t)
    PROVE  BookStep
BY DEF Good, Kept, Store, BookStep

LEMMA BookUnchanged ==
    ASSUME TInv, UNCHANGED <<mem, rows>>
    PROVE  BookStep
BY BothGood DEF TInv, BookStep

LEMMA ReviewBooks ==
    ASSUME TInv, NEW i \in Incidents, NEW r \in Reviewers, NEW kind \in ReviewKinds, SaveReview(i, r, kind)
    PROVE  BookStep
<1> DEFINE c == run[i].case
           R == [review EXCEPT ![c][r] = kind]
           W(lost) == Invalidated(Both, R, c, lost)
<1>1. c \in Cases
  BY DEF SaveReview, TInv, TypeOK
<1>2. PICK lost : Store(IF kind \in Successes THEN Generated(W(lost), R, c, lost) ELSE W(lost))
  BY DEF SaveReview
<1>3. Good(W(lost)) /\ Kept(mem, W(lost).mem)
  BY BothGood, InvalidatedGood
<1> HIDE DEF c, R, W
<1>4. /\ Good(Generated(W(lost), R, c, lost))
      /\ Kept(W(lost).mem, Generated(W(lost), R, c, lost).mem)
  BY <1>1, <1>3, GeneratedGood
<1>5. Kept(mem, Generated(W(lost), R, c, lost).mem)
  BY <1>3, <1>4, KeptTwice
<1>6. QED
  BY <1>2, <1>3, <1>4, <1>5, StoreStep

LEMMA RevokeBooks ==
    ASSUME TInv, NEW i \in Incidents, NEW c \in Cases, AutoRevoke(i, c)
    PROVE  BookStep
<1> DEFINE old == active[i]
           R == [review EXCEPT ![old] = [r \in Reviewers |-> "none"]]
<1>1. CASE UNCHANGED <<mem, rows>>
  BY <1>1, BookUnchanged
<1>2. CASE \E lost \in Losable(Supporting(mem, old)) : ReleaseSuperseded(i, old, lost)
  <2>1. PICK lost : Store(Invalidated(Both, R, old, lost))
    BY <1>2 DEF ReleaseSuperseded
  <2>2. Good(Invalidated(Both, R, old, lost)) /\ Kept(mem, Invalidated(Both, R, old, lost).mem)
    BY BothGood, InvalidatedGood
  <2>3. QED
    BY <2>1, <2>2, StoreStep
<1>3. QED
  BY <1>1, <1>2 DEF AutoRevoke, caseVars, bookVars

LEMMA ApproveBooks ==
    ASSUME TInv, NEW i \in Incidents, ApprovePlain(i) \/ ApproveNew(i) \/ ApproveAgain(i) \/ Unapprove(i)
    PROVE  BookStep
<1> DEFINE c == run[i].case
           x == Recompute(review, c)
<1>1. CASE UNCHANGED <<mem, rows>>
  BY <1>1, BookUnchanged
<1>2. ASSUME run[i].status = "complete" PROVE c \in Cases
  BY <1>2 DEF TInv, TypeOK, RunNamed
<1>3. CASE ApproveNew(i) /\ x # NoCand
  <2>1. c \in Cases /\ Store(Link(Both, c, x))
    BY <1>2, <1>3 DEF ApproveNew
  <2>2. x \in Candidates
    BY <1>3, <2>1, RecomputeType
  <2>3. QED
    BY <2>1, <2>2, BothGood, LinkGood, StoreStep
<1>4. CASE ApproveAgain(i) /\ ~UNCHANGED <<mem, rows>>
  <2>1. /\ c \in Cases /\ x # NoCand
        /\ mem' = [mem EXCEPT !.cand[x] = NewCandidate(c, x)]
        /\ rows' = LinkIn(rows, c, x)
    BY <1>2, <1>4 DEF ApproveAgain, bookVars
  <2>2. x \in Candidates /\ mem \in Book /\ rows \in Book
    BY <2>1, RecomputeType, BothGood
  <2> HIDE DEF c, x
  <2>3. NewCandidate(c, x) \in Candidate /\ NewCandidate(c, x).text = "raw"
    BY <2>1, NewIsCandidate DEF NewCandidate
  <2>4. /\ mem' \in Book /\ mem'.cand[x].text = "raw"
        /\ \A y \in Candidates \ {x} : mem'.cand[y] = mem.cand[y]
    BY <2>1, <2>2, <2>3, PutCandidate
  <2>5. /\ rows' \in Book /\ \A y \in Candidates \ {x} : rows'.cand[y] = rows.cand[y]
        /\ rows.cand[x].status = "absent" => rows'.cand[x] = NewCandidate(c, x)
        /\ rows.cand[x].status # "absent" => rows'.cand[x].status = rows.cand[x].status
    BY <2>1, <2>2, LinkIs
  <2>6. Texted(mem, rows)
    BY DEF TInv
  <2>7. rows'.cand[x].text = "human" => rows'.cand[x].status # "absent"
    BY <2>3, <2>5
  <2>8. Texted(mem', rows')
    BY <2>4, <2>5, <2>6, <2>7 DEF Texted
  <2>9. QED
    BY <2>4, <2>5, <2>8 DEF BookStep
<1>5. QED
  BY <1>1, <1>3, <1>4 DEF ApprovePlain, ApproveNew, Unapprove, bookVars

LEMMA PublishBooks ==
    ASSUME TInv, NEW x \in Candidates, CheckPasses(x)
    PROVE  BookStep
<1> DEFINE to == checking[x].to
<1>1. to \in Published /\ mem \in Book /\ rows \in Book /\ Texted(mem, rows)
  BY BothGood DEF CheckPasses, TInv, Asked
<1>2. PICK P : /\ mem' = PublishIn(SupersedePrior(mem, P), x, to)
               /\ rows' = PublishIn(SupersedePrior(rows, P), x, to)
  BY DEF CheckPasses
<1> DEFINE m == SupersedePrior(mem, P)
           r == SupersedePrior(rows, P)
<1>3. /\ m \in Book /\ \A y \in Candidates : m.cand[y].text = mem.cand[y].text
      /\ r \in Book /\ \A y \in Candidates : /\ r.cand[y].text = rows.cand[y].text
                                             /\ r.cand[y].status \in {rows.cand[y].status, "superseded"}
  BY <1>1, PriorIs
<1> HIDE DEF m, r, to
<1>4. Publishes(mem', m, x, to) /\ Publishes(rows', r, x, to)
  BY <1>1, <1>2, <1>3, PublishIs DEF m, r
<1>5. to # "absent"
  BY <1>1 DEF Published
<1>6. ASSUME NEW y \in Candidates
      PROVE  /\ mem'.cand[y].text = mem.cand[y].text
             /\ rows'.cand[y].text \in {mem.cand[y].text, rows.cand[y].text}
             /\ rows'.cand[y].text = "human" => rows'.cand[y].status # "absent"
             /\ mem.cand[y].text = "human" => rows'.cand[y].text = "human"
  <2>1. CASE y = x
    BY <1>4, <1>5, <2>1 DEF Publishes
  <2>2. CASE y # x
    <3>1. mem'.cand[y] = m.cand[y] /\ rows'.cand[y] = r.cand[y]
      BY <1>4, <2>2 DEF Publishes
    <3>2. QED
      BY <1>1, <1>3, <3>1 DEF Texted
  <2>3. QED
    BY <2>1, <2>2
<1>7. QED
  BY <1>4, <1>6 DEF BookStep, Texted, Publishes

\* The pair of a shadow candidate and its package becomes active.
Activates(t, b, x, p) ==
    /\ t \in Book
    /\ \A y \in Candidates : y # x => t.cand[y] = b.cand[y]
    /\ t.cand[x].status = "active" /\ t.cand[x].text = b.cand[x].text
    /\ t.cand[x].case = b.cand[x].case /\ t.cand[x].support = b.cand[x].support
    /\ t.cand[x].pkg = b.cand[x].pkg
    /\ \A q \in Cases : q # p => t.pkg[q] = b.pkg[q]
    /\ t.pkg[p].status = "active" /\ t.pkg[p].cand = b.pkg[p].cand /\ t.pkg[p].text = b.pkg[p].text

LEMMA ActivateIs ==
    ASSUME NEW b \in Book, NEW x \in Candidates, NEW p \in Cases
    PROVE  Activates([b EXCEPT !.cand[x].status = "active", !.pkg[p].status = "active"], b, x, p)
<1> DEFINE k == [b.cand[x] EXCEPT !.status = "active"]
           g == [b.pkg[p] EXCEPT !.status = "active"]
           f == [b.cand EXCEPT ![x] = k]
           h == [b.pkg EXCEPT ![p] = g]
           t == [b EXCEPT !.cand[x].status = "active", !.pkg[p].status = "active"]
<1>1. /\ b.cand \in [Candidates -> Candidate] /\ b.pkg \in [Cases -> Package]
      /\ b.cand[x] \in Candidate /\ b.pkg[p] \in Package
  BY BookFields
<1>2. /\ k \in Candidate /\ k.status = "active" /\ k.text = b.cand[x].text
      /\ k.case = b.cand[x].case /\ k.support = b.cand[x].support /\ k.pkg = b.cand[x].pkg
  BY <1>1 DEF Candidate, CandStatus
<1>3. g \in Package /\ g.status = "active" /\ g.cand = b.pkg[p].cand /\ g.text = b.pkg[p].text
  BY <1>1 DEF Package
<1>4. t = [b EXCEPT !.cand = f, !.pkg = h]
  BY DEF Book
<1> HIDE DEF k, g
<1>5. f \in [Candidates -> Candidate] /\ f[x] = k /\ \A y \in Candidates : y # x => f[y] = b.cand[y]
  BY <1>1, <1>2
<1>6. h \in [Cases -> Package] /\ h[p] = g /\ \A q \in Cases : q # p => h[q] = b.pkg[q]
  BY <1>1, <1>3
<1> HIDE DEF f, h, t
<1>7. t \in Book /\ t.cand = f /\ t.pkg = h
  BY <1>4, <1>5, <1>6 DEF Book
<1>8. QED
  BY <1>2, <1>3, <1>5, <1>6, <1>7 DEF Activates, t

LEMMA ActivateBooks ==
    ASSUME TInv, NEW x \in Candidates, Activate(x)
    PROVE  BookStep
<1> DEFINE p == mem.cand[x].pkg
<1>1. mem \in Book /\ rows \in Book /\ Texted(mem, rows)
  BY BothGood DEF TInv
<1>2. p \in Cases
  BY <1>1, BookFields, CandFields DEF Activate, ShadowPair
<1>3. PICK P :
        /\ mem' = [SupersedePrior(mem, P) EXCEPT !.cand[x].status = "active", !.pkg[p].status = "active"]
        /\ rows' = [SupersedePrior(rows, P) EXCEPT !.cand[x].status = "active", !.pkg[p].status = "active"]
  BY DEF Activate
<1> DEFINE m == SupersedePrior(mem, P)
           r == SupersedePrior(rows, P)
<1>4. /\ m \in Book /\ \A y \in Candidates : m.cand[y].text = mem.cand[y].text
      /\ r \in Book /\ \A y \in Candidates : /\ r.cand[y].text = rows.cand[y].text
                                             /\ r.cand[y].status \in {rows.cand[y].status, "superseded"}
  BY <1>1, PriorIs
<1> HIDE DEF m, r, p
<1>5. Activates(mem', m, x, p) /\ Activates(rows', r, x, p)
  BY <1>2, <1>3, <1>4, ActivateIs DEF m, r
<1>6. ASSUME NEW y \in Candidates
      PROVE  /\ mem'.cand[y].text = mem.cand[y].text /\ rows'.cand[y].text = rows.cand[y].text
             /\ rows'.cand[y].status \in {rows.cand[y].status, "superseded", "active"}
  <2>1. CASE y = x
    BY <1>4, <1>5, <2>1 DEF Activates
  <2>2. CASE y # x
    BY <1>4, <1>5, <2>2 DEF Activates
  <2>3. QED
    BY <2>1, <2>2
<1>7. QED
  BY <1>1, <1>5, <1>6 DEF BookStep, Texted, Activates

\* Both books lose the candidate.
LEMMA DeleteBooks ==
    ASSUME TInv, NEW x \in Candidates, Delete(x)
    PROVE  BookStep
<1>1. mem \in Book /\ rows \in Book /\ Texted(mem, rows)
  BY BothGood DEF TInv
<1>2. Absent \in Candidate /\ Absent.text = "raw"
  BY DEF Absent, Candidate, CandStatus, Reasons, Texts
<1>3. /\ mem' \in Book /\ mem'.cand[x] = Absent /\ \A y \in Candidates \ {x} : mem'.cand[y] = mem.cand[y]
      /\ rows' \in Book /\ rows'.cand[x] = Absent /\ \A y \in Candidates \ {x} : rows'.cand[y] = rows.cand[y]
  BY <1>1, <1>2, PutCandidate DEF Delete
<1>4. QED
  BY <1>1, <1>2, <1>3 DEF BookStep, Texted

LEMMA TextIs ==
    ASSUME NEW b \in Book, NEW x \in Candidates, NEW text \in Texts
    PROVE  LET t == [b EXCEPT !.cand[x].text = text] IN
           /\ t \in Book /\ t.pkg = b.pkg
           /\ \A y \in Candidates \ {x} : t.cand[y] = b.cand[y]
           /\ t.cand[x].text = text /\ t.cand[x].status = b.cand[x].status
           /\ t.cand[x].case = b.cand[x].case /\ t.cand[x].support = b.cand[x].support
           /\ t.cand[x].pkg = b.cand[x].pkg
<1> DEFINE k == [b.cand[x] EXCEPT !.text = text]
           f == [b.cand EXCEPT ![x] = k]
           t == [b EXCEPT !.cand[x].text = text]
<1>1. b.cand \in [Candidates -> Candidate] /\ b.cand[x] \in Candidate
  BY BookFields
<1>2. /\ k \in Candidate /\ k.text = text /\ k.status = b.cand[x].status
      /\ k.case = b.cand[x].case /\ k.support = b.cand[x].support /\ k.pkg = b.cand[x].pkg
  BY <1>1 DEF Candidate
<1>3. t = [b EXCEPT !.cand = f]
  BY DEF Book
<1> HIDE DEF k
<1>4. f \in [Candidates -> Candidate] /\ f[x] = k /\ \A y \in Candidates : y # x => f[y] = b.cand[y]
  BY <1>1, <1>2
<1> HIDE DEF f, t
<1>5. t \in Book /\ t.cand = f /\ t.pkg = b.pkg
  BY <1>3, <1>4 DEF Book
<1>6. QED
  BY <1>2, <1>4, <1>5 DEF t

LEMMA CuratedBooks ==
    ASSUME TInv, NEW x \in Candidates, NEW text \in Texts, Curated(x, text),
           rows.cand[x].status = "ready", text = "llm" => mem.cand[x].text = "raw"
    PROVE  BookStep
<1>1. mem \in Book /\ rows \in Book /\ Texted(mem, rows)
  BY BothGood DEF TInv
<1>2. /\ mem' \in Book /\ mem'.cand[x].text = text
      /\ \A y \in Candidates \ {x} : mem'.cand[y] = mem.cand[y]
  BY <1>1, TextIs DEF Curated
<1>3. /\ rows' \in Book /\ rows'.cand[x].text = text /\ rows'.cand[x].status = "ready"
      /\ \A y \in Candidates \ {x} : rows'.cand[y] = rows.cand[y]
  BY <1>1, TextIs DEF Curated
<1>4. ASSUME NEW y \in Candidates, mem.cand[y].text = "human" PROVE mem'.cand[y].text # "llm"
  <2>1. CASE y = x
    BY <1>2, <1>4, <2>1
  <2>2. CASE y # x
    BY <1>2, <1>4, <2>2
  <2>3. QED
    BY <2>1, <2>2
<1>5. QED
  BY <1>1, <1>2, <1>3, <1>4 DEF BookStep, Texted

\* The decisions that change memory and rows by the same operators.
LEMMA DecisionBooks ==
    ASSUME TInv, NEW x \in Candidates, CheckRejects(x) \/ RejectShadow(x) \/ Reject(x)
    PROVE  BookStep
<1>1. /\ Good(Set(Both, {x}, "failed", "validator")) /\ Kept(mem, Set(Both, {x}, "failed", "validator").mem)
      /\ Good(Set(Both, {x}, "rejected", "")) /\ Kept(mem, Set(Both, {x}, "rejected", "").mem)
  BY BothGood, SetGood DEF CandStatus, Reasons
<1>2. CASE CheckRejects(x)
  BY <1>1, <1>2, StoreStep, BookUnchanged DEF CheckRejects, bookVars
<1>3. CASE RejectShadow(x)
  <2> DEFINE s == Set(Both, {x}, "rejected", "")
             t == Drop(s, {mem.cand[x].pkg})
  <2>1. Store(t)
    BY <1>3 DEF RejectShadow
  <2> HIDE DEF s
  <2>2. Good(t) /\ Kept(s.mem, t.mem)
    BY <1>1, DropGood DEF s
  <2> HIDE DEF t
  <2>3. Kept(mem, t.mem)
    BY <1>1, <2>2, KeptTwice DEF s
  <2>4. QED
    BY <2>1, <2>2, <2>3, StoreStep
<1>4. CASE Reject(x)
  BY <1>1, <1>4, StoreStep DEF Reject
<1>5. QED
  BY <1>2, <1>3, <1>4

LEMMA RetireBooks ==
    ASSUME TInv, NEW p \in Cases, Retire(p)
    PROVE  BookStep
BY BothGood, DropGood, StoreStep DEF Retire

LEMMA RestartBooks ==
    ASSUME TInv, Restart
    PROVE  BookStep
BY BothGood DEF Restart, TInv, BookStep, Texted

LEMMA BooksStep ==
    ASSUME TInv, [Next]_vars
    PROVE  BookStep
<1>1. CASE UNCHANGED <<mem, rows>>
  BY <1>1, BookUnchanged
<1>2. ASSUME NEW i \in Incidents, StartRun(i) \/ FailRun(i) \/ \E c \in Cases : CompleteRun(i, c)
      PROVE  BookStep
  BY <1>1, <1>2 DEF StartRun, FailRun, CompleteRun, bookVars
<1>3. ASSUME NEW x \in Candidates,
             (\E to \in Published : CheckStart(x, to)) \/ CheckFails(x) \/ RefineStart(x)
      PROVE  BookStep
  BY <1>1, <1>3 DEF CheckStart, CheckFails, RefineStart, bookVars
<1>4. ASSUME NEW x \in Candidates, EditActions(x) \/ RefineEnd(x)
      PROVE  BookStep
  BY <1>1, <1>4, CuratedBooks DEF EditActions, RefineEnd, Refinable, Texts, bookVars
<1>5. QED
  BY <1>1, <1>2, <1>3, <1>4, ReviewBooks, RevokeBooks, ApproveBooks, PublishBooks, ActivateBooks,
     DeleteBooks, DecisionBooks, RetireBooks, RestartBooks DEF Next, vars, bookVars

LEMMA FaultCount ==
    ASSUME faults \in 0..MaxFaults, NEW n \in Nat, Fail(n)
    PROVE  faults' \in 0..MaxFaults /\ (faults' = 0 => faults = 0 /\ n = 0)
BY CaseKnowledgeAssumption DEF Fail

\* The candidates whose transactions fail are counted.
LEMMA LostIsCounted ==
    ASSUME NEW X \in SUBSET Candidates, NEW lost \in SUBSET X
    PROVE  Cardinality(lost) \in Nat /\ (Cardinality(lost) = 0 => lost = {})
<1>1. IsFiniteSet(lost)
  BY FS_Subset, CaseKnowledgeAssumption
<1>2. QED
  BY <1>1, FS_CardinalityType, FS_EmptySet

LEMMA FaultsStep ==
    ASSUME TInv, [Next]_vars
    PROVE  faults' \in 0..MaxFaults /\ (faults' = 0 => faults = 0)
<1>1. faults \in 0..MaxFaults
  BY DEF TInv, TypeOK
<1>2. CASE UNCHANGED faults
  BY <1>1, <1>2 DEF TypeOK
<1>3. CASE Fail(1)
  BY <1>1, <1>3, FaultCount
<1>4. ASSUME NEW i \in Incidents, NEW r \in Reviewers, NEW kind \in ReviewKinds, SaveReview(i, r, kind)
      PROVE  faults' \in 0..MaxFaults /\ (faults' = 0 => faults = 0)
  <2> DEFINE c == run[i].case
             x == Recompute([review EXCEPT ![c][r] = kind], c)
             X == (Supporting(mem, c) \cup {x}) \ {NoCand}
  <2>1. c \in Cases
    BY <1>4 DEF SaveReview, TInv, TypeOK
  <2>2. X \in SUBSET Candidates
    BY <2>1, RecomputeType DEF Supporting
  <2>3. PICK lost \in Losable(X) : Fail(Cardinality(lost))
    BY <1>4 DEF SaveReview
  <2>4. QED
    BY <1>1, <2>2, <2>3, LostIsCounted, FaultCount DEF Losable
<1>5. ASSUME NEW i \in Incidents, NEW lost \in Losable(Supporting(mem, active[i])),
             ReleaseSuperseded(i, active[i], lost)
      PROVE  faults' \in 0..MaxFaults /\ (faults' = 0 => faults = 0)
  <2>1. Supporting(mem, active[i]) \in SUBSET Candidates
    BY DEF Supporting
  <2>2. QED
    BY <1>1, <1>5, <2>1, LostIsCounted, FaultCount DEF Losable, ReleaseSuperseded
<1>6. ASSUME NEW i \in Incidents, NEW c \in Cases, AutoRevoke(i, c)
      PROVE  faults' \in 0..MaxFaults /\ (faults' = 0 => faults = 0)
  BY <1>2, <1>3, <1>5, <1>6 DEF AutoRevoke
<1>7. ASSUME NEW i \in Incidents,
             \/ StartRun(i) \/ FailRun(i) \/ \E c \in Cases : CompleteRun(i, c)
             \/ ApprovePlain(i) \/ ApproveNew(i) \/ Unapprove(i)
      PROVE  UNCHANGED faults
  BY <1>7 DEF StartRun, FailRun, CompleteRun, ApprovePlain, ApproveNew, Unapprove
<1>8. ASSUME NEW i \in Incidents, ApproveAgain(i) PROVE UNCHANGED faults \/ Fail(1)
  BY <1>8 DEF ApproveAgain
<1>9. ASSUME NEW x \in Candidates,
             \/ \E to \in Published : CheckStart(x, to)
             \/ CheckPasses(x) \/ CheckRejects(x) \/ CheckFails(x)
             \/ Activate(x) \/ RejectShadow(x) \/ Reject(x) \/ Delete(x)
             \/ EditActions(x) \/ RefineStart(x) \/ RefineEnd(x)
      PROVE  UNCHANGED faults
  BY <1>9 DEF CheckStart, CheckPasses, CheckRejects, CheckFails, Activate, RejectShadow, Reject, Delete,
              EditActions, RefineStart, RefineEnd
<1>10. ASSUME NEW p \in Cases, Retire(p) PROVE UNCHANGED faults
  BY <1>10 DEF Retire
<1>11. QED
  BY <1>2, <1>3, <1>4, <1>6, <1>7, <1>8, <1>9, <1>10 DEF Next, vars, Restart

\* The run, review and approval state of a step.
LEMMA RunTypes ==
    ASSUME TInv, [Next]_vars
    PROVE  /\ run' \in [Incidents -> [status : {"none", "analyzing", "complete", "failed"},
                                      case : Cases \cup {NoCase}]]
           /\ releasing' \in [Incidents -> SUBSET Cases]
           /\ RunNamed'
           /\ started' \in 0..MaxRuns
<1> USE DEF RunNamed
<1>0. /\ run \in [Incidents -> [status : {"none", "analyzing", "complete", "failed"},
                                case : Cases \cup {NoCase}]]
      /\ releasing \in [Incidents -> SUBSET Cases] /\ started \in 0..MaxRuns /\ RunNamed
  BY DEF TInv, TypeOK
<1>1. CASE UNCHANGED runVars
  BY <1>0, <1>1 DEF runVars
<1>2. ASSUME NEW i \in Incidents, StartRun(i)
      PROVE  /\ run' \in [Incidents -> [status : {"none", "analyzing", "complete", "failed"},
                                        case : Cases \cup {NoCase}]]
             /\ RunNamed' /\ started' \in 0..MaxRuns /\ UNCHANGED releasing
  BY <1>0, <1>2, CaseKnowledgeAssumption DEF StartRun
<1>3. ASSUME NEW i \in Incidents, NEW c \in Cases, CompleteRun(i, c)
      PROVE  /\ run' \in [Incidents -> [status : {"none", "analyzing", "complete", "failed"},
                                        case : Cases \cup {NoCase}]]
             /\ RunNamed' /\ UNCHANGED started /\ releasing' \in [Incidents -> SUBSET Cases]
  BY <1>0, <1>3, CaseKnowledgeAssumption DEF CompleteRun
<1>4. ASSUME NEW i \in Incidents, FailRun(i)
      PROVE  /\ run' \in [Incidents -> [status : {"none", "analyzing", "complete", "failed"},
                                        case : Cases \cup {NoCase}]]
             /\ RunNamed' /\ UNCHANGED <<started, releasing>>
  BY <1>0, <1>4 DEF FailRun
<1>5. ASSUME NEW i \in Incidents, NEW c \in Cases, AutoRevoke(i, c)
      PROVE  UNCHANGED <<run, started>> /\ releasing' \in [Incidents -> SUBSET Cases]
  BY <1>0, <1>5 DEF AutoRevoke
<1>6. CASE Restart
  BY <1>0, <1>6 DEF Restart
<1>7. ASSUME NEW i \in Incidents,
             \/ ApprovePlain(i) \/ ApproveNew(i) \/ ApproveAgain(i) \/ Unapprove(i)
             \/ \E r \in Reviewers, kind \in ReviewKinds : SaveReview(i, r, kind)
      PROVE  UNCHANGED runVars
  BY <1>7 DEF ApprovePlain, ApproveNew, ApproveAgain, Unapprove, SaveReview
<1>8. ASSUME NEW x \in Candidates,
             \/ \E to \in Published : CheckStart(x, to)
             \/ CheckPasses(x) \/ CheckRejects(x) \/ CheckFails(x)
             \/ Activate(x) \/ RejectShadow(x) \/ Reject(x) \/ Delete(x)
             \/ EditActions(x) \/ RefineStart(x) \/ RefineEnd(x)
      PROVE  UNCHANGED runVars
  BY <1>8 DEF CheckStart, CheckPasses, CheckRejects, CheckFails, Activate, RejectShadow, Reject, Delete,
              EditActions, RefineStart, RefineEnd
<1>9. ASSUME NEW p \in Cases, Retire(p) PROVE UNCHANGED runVars
  BY <1>9 DEF Retire
<1>10. QED
  BY <1>0, <1>1, <1>2, <1>3, <1>4, <1>5, <1>6, <1>7, <1>8, <1>9 DEF Next, vars, runVars

LEMMA CallTypes ==
    ASSUME TInv, [Next]_vars
    PROVE  checking' \in [Candidates -> Call] /\ refining' \subseteq Candidates /\ Asked'
<1>0. checking \in [Candidates -> Call] /\ refining \subseteq Candidates /\ Asked /\ mem \in Book
  BY DEF TInv, TypeOK
<1>1. CASE UNCHANGED callVars
  BY <1>0, <1>1 DEF callVars, Asked
<1>2. Idle \in Call
  BY DEF Idle, Call, Texts
<1>3. ASSUME NEW x \in Candidates, NEW to \in Published, CheckStart(x, to)
      PROVE  checking' \in [Candidates -> Call] /\ UNCHANGED refining /\ Asked'
  <2>1. mem.cand[x].text \in Texts
    BY <1>0, BookFields, CandFields
  <2>2. [to |-> to, text |-> mem.cand[x].text] \in Call
    BY <2>1 DEF Call, Published
  <2>3. QED
    BY <1>0, <1>3, <2>2 DEF CheckStart, Asked
<1>4. ASSUME NEW x \in Candidates, CheckPasses(x) \/ CheckRejects(x) \/ CheckFails(x)
      PROVE  checking' \in [Candidates -> Call] /\ UNCHANGED refining /\ Asked'
  BY <1>0, <1>2, <1>4 DEF CheckPasses, CheckRejects, CheckFails, Asked
<1>5. ASSUME NEW x \in Candidates, RefineStart(x) \/ RefineEnd(x)
      PROVE  UNCHANGED checking /\ refining' \subseteq Candidates /\ Asked'
  BY <1>0, <1>5 DEF RefineStart, RefineEnd, Asked
<1>6. CASE Restart
  BY <1>2, <1>6 DEF Restart, Asked
<1>7. ASSUME NEW i \in Incidents,
             \/ StartRun(i) \/ FailRun(i)
             \/ ApprovePlain(i) \/ ApproveNew(i) \/ ApproveAgain(i) \/ Unapprove(i)
             \/ \E c \in Cases : CompleteRun(i, c) \/ AutoRevoke(i, c)
             \/ \E r \in Reviewers, kind \in ReviewKinds : SaveReview(i, r, kind)
      PROVE  UNCHANGED callVars
  BY <1>7 DEF StartRun, FailRun, CompleteRun, AutoRevoke, ApprovePlain, ApproveNew, ApproveAgain,
              Unapprove, SaveReview
<1>8. ASSUME NEW x \in Candidates,
             Activate(x) \/ RejectShadow(x) \/ Reject(x) \/ Delete(x) \/ EditActions(x)
      PROVE  UNCHANGED callVars
  BY <1>8 DEF Activate, RejectShadow, Reject, Delete, EditActions
<1>9. ASSUME NEW p \in Cases, Retire(p) PROVE UNCHANGED callVars
  BY <1>9 DEF Retire
<1>10. QED
  BY <1>0, <1>1, <1>3, <1>4, <1>5, <1>6, <1>7, <1>8, <1>9 DEF Next, vars

CaseTypes ==
    /\ approved \subseteq Incidents
    /\ active \in [Incidents -> Cases \cup {NoCase}]
    /\ snap \in [Cases -> {"none", "active", "revoked"}]
    /\ snapRow \in [Cases -> {"none", "active", "revoked"}]
    /\ review \in [Cases -> [Reviewers -> Kinds \cup {"none"}]]
    /\ saved \in 0..MaxReviews

LEMMA CaseTypesStep ==
    ASSUME TInv, [Next]_vars
    PROVE  CaseTypes'
<1>0. CaseTypes /\ RunNamed
      /\ run \in [Incidents -> [status : {"none", "analyzing", "complete", "failed"},
                                case : Cases \cup {NoCase}]]
  BY DEF TInv, TypeOK, CaseTypes
<1>1. CASE UNCHANGED caseVars
  BY <1>0, <1>1 DEF caseVars, CaseTypes
<1>2. ASSUME NEW i \in Incidents, NEW c \in Cases, AutoRevoke(i, c) PROVE CaseTypes'
  <2>1. ASSUME NEW lost, ReleaseSuperseded(i, active[i], lost) PROVE CaseTypes'
    BY <1>0, <2>1 DEF ReleaseSuperseded, CaseTypes
  <2>2. QED
    BY <1>0, <1>1, <1>2, <2>1 DEF AutoRevoke, CaseTypes
<1>3. ASSUME NEW i \in Incidents, ApprovePlain(i) \/ Unapprove(i) PROVE CaseTypes'
  BY <1>0, <1>3 DEF ApprovePlain, Unapprove, CaseTypes
<1>4. ASSUME NEW i \in Incidents, ApproveNew(i) \/ ApproveAgain(i) PROVE CaseTypes'
  <2>1. run[i].case \in Cases
    BY <1>0, <1>4 DEF ApproveNew, ApproveAgain, RunNamed
  <2>2. QED
    BY <1>0, <1>4, <2>1 DEF ApproveNew, ApproveAgain, CaseTypes
<1>5. ASSUME NEW i \in Incidents, NEW r \in Reviewers, NEW kind \in ReviewKinds, SaveReview(i, r, kind)
      PROVE  CaseTypes'
  <2>1. run[i].case \in Cases /\ kind \in Kinds
    BY <1>0, <1>5, CaseKnowledgeAssumption DEF SaveReview
  <2>2. QED
    BY <1>0, <1>5, <2>1, CaseKnowledgeAssumption DEF SaveReview, CaseTypes
<1>6. CASE Restart
  BY <1>0, <1>6 DEF Restart, CaseTypes
<1>7. ASSUME NEW i \in Incidents, StartRun(i) \/ FailRun(i) \/ \E c \in Cases : CompleteRun(i, c)
      PROVE  UNCHANGED caseVars
  BY <1>7 DEF StartRun, FailRun, CompleteRun
<1>8. ASSUME NEW x \in Candidates,
             \/ \E to \in Published : CheckStart(x, to)
             \/ CheckPasses(x) \/ CheckRejects(x) \/ CheckFails(x)
             \/ Activate(x) \/ RejectShadow(x) \/ Reject(x) \/ Delete(x)
             \/ EditActions(x) \/ RefineStart(x) \/ RefineEnd(x)
      PROVE  UNCHANGED caseVars
  BY <1>8 DEF CheckStart, CheckPasses, CheckRejects, CheckFails, Activate, RejectShadow, Reject, Delete,
              EditActions, RefineStart, RefineEnd
<1>9. ASSUME NEW p \in Cases, Retire(p) PROVE UNCHANGED caseVars
  BY <1>9 DEF Retire
<1>10. QED
  BY <1>1, <1>2, <1>3, <1>4, <1>5, <1>6, <1>7, <1>8, <1>9 DEF Next, vars

LEMMA TInvInit == Init => TInv
<1> SUFFICES ASSUME Init PROVE TInv
  OBVIOUS
<1>1. Absent \in Candidate /\ NoPackage \in Package
  BY DEF Absent, NoPackage, Candidate, Package, CandStatus, Reasons, Texts
<1>2. mem \in Book /\ rows \in Book /\ Texted(mem, rows)
  BY <1>1 DEF Init, Book, Texted, Absent
<1>3. /\ checking \in [Candidates -> Call] /\ Asked
      /\ run \in [Incidents -> [status : {"none", "analyzing", "complete", "failed"},
                                case : Cases \cup {NoCase}]]
      /\ RunNamed /\ releasing \in [Incidents -> SUBSET Cases]
  BY DEF Init, Idle, Call, Texts, Asked, RunNamed
<1>4. /\ approved \subseteq Incidents /\ active \in [Incidents -> Cases \cup {NoCase}]
      /\ snap \in [Cases -> {"none", "active", "revoked"}]
      /\ snapRow \in [Cases -> {"none", "active", "revoked"}]
      /\ review \in [Cases -> [Reviewers -> Kinds \cup {"none"}]]
      /\ refining \subseteq Candidates
  BY DEF Init
<1>5. faults \in 0..MaxFaults /\ started \in 0..MaxRuns /\ saved \in 0..MaxReviews
  BY CaseKnowledgeAssumption DEF Init
<1>6. QED
  BY <1>2, <1>3, <1>4, <1>5 DEF TInv, TypeOK

LEMMA TInvStep == TInv /\ [Next]_vars => TInv'
BY BooksStep, FaultsStep, RunTypes, CallTypes, CaseTypesStep DEF BookStep, CaseTypes, TInv, TypeOK

\* Every variable keeps its type, for any incidents, cases and candidates
\* (the state of store.go, knowledge.go and evaluation.go).
THEOREM TypesHold == Spec => []TypeOK
<1>1. TInv => TypeOK
  BY DEF TInv
<1>2. QED
  BY <1>1, TInvInit, TInvStep, PTL DEF Spec

\* A reviewer's words are never replaced by the agent's, whatever restarts,
\* failed writes and late answers there are (RefineEnd, knowledge.go:467).
THEOREM HumanEditWinsHolds == Spec => HumanEditWins
<1>1. TInv /\ [Next]_vars =>
        [\A x \in Candidates : mem.cand[x].text = "human" => mem'.cand[x].text # "llm"]_vars
  BY BooksStep DEF BookStep
<1>2. QED
  BY <1>1, TInvInit, TInvStep, PTL DEF Spec, HumanEditWins

-----------------------------------------------------------------------------
(* Approvals *)

\* The goroutine whose result superseded the approved one has still to run.
Releasable(i) ==
    /\ i \notin approved => active[i] = NoCase
    /\ i \in approved /\ active[i] \notin {NoCase, run[i].case} => run[i].case \in releasing[i]

Current == faults = 0 => \A i \in Incidents : Releasable(i)

LEMMA CurrentStep ==
    ASSUME TInv, Current, [Next]_vars
    PROVE  Current'
<1> SUFFICES ASSUME faults' = 0, NEW j \in Incidents PROVE Releasable(j)'
  BY DEF Current
<1>0. /\ faults = 0 /\ faults \in 0..MaxFaults /\ Releasable(j)
      /\ active \in [Incidents -> Cases \cup {NoCase}]
      /\ run \in [Incidents -> [status : {"none", "analyzing", "complete", "failed"},
                                case : Cases \cup {NoCase}]]
      /\ releasing \in [Incidents -> SUBSET Cases]
  BY FaultsStep DEF Current, TInv, TypeOK
<1>1. ~Fail(1)
  BY <1>0, FaultCount
<1>2. CASE UNCHANGED <<approved, active, run, releasing>>
  BY <1>0, <1>2 DEF Releasable
<1>3. ASSUME NEW i \in Incidents, NEW c \in Cases, CompleteRun(i, c) PROVE Releasable(j)'
  BY <1>0, <1>3, CaseKnowledgeAssumption DEF CompleteRun, caseVars, Releasable
<1>4. ASSUME NEW i \in Incidents, StartRun(i) \/ FailRun(i) PROVE Releasable(j)'
  BY <1>0, <1>4 DEF StartRun, FailRun, caseVars, Releasable
<1>5. ASSUME NEW i \in Incidents, NEW c \in Cases, AutoRevoke(i, c) PROVE Releasable(j)'
  <2>1. CASE \E lost \in Losable(Supporting(mem, active[i])) : ReleaseSuperseded(i, active[i], lost)
    <3>1. /\ approved' = approved \ {i} /\ active' = [active EXCEPT ![i] = NoCase] /\ UNCHANGED run
          /\ releasing' = [releasing EXCEPT ![i] = @ \ {c}]
      BY <1>5, <2>1 DEF AutoRevoke, ReleaseSuperseded
    <3>2. QED
      BY <1>0, <3>1 DEF Releasable
  <2>2. CASE i \in approved /\ active[i] = NoCase
    BY <1>0, <1>5, <2>2, CaseKnowledgeAssumption DEF AutoRevoke, Releasable
  <2>3. CASE i \notin approved \/ active[i] = c
    BY <1>0, <1>5, <2>3 DEF AutoRevoke, Releasable, caseVars
  <2>4. QED
    BY <1>1, <1>5, <2>1, <2>2, <2>3 DEF AutoRevoke
<1>6. ASSUME NEW i \in Incidents, ApprovePlain(i) \/ ApproveNew(i) PROVE Releasable(j)'
  BY <1>0, <1>6 DEF ApprovePlain, ApproveNew, runVars, Releasable
<1>7. ASSUME NEW i \in Incidents, ApproveAgain(i) PROVE Releasable(j)'
  BY <1>0, <1>1, <1>7 DEF ApproveAgain, runVars, Releasable
<1>8. ASSUME NEW i \in Incidents, Unapprove(i) PROVE Releasable(j)'
  BY <1>0, <1>8 DEF Unapprove, runVars, Releasable
<1>9. ASSUME NEW i \in Incidents, NEW r \in Reviewers, NEW kind \in ReviewKinds, SaveReview(i, r, kind)
      PROVE  UNCHANGED <<approved, active, run, releasing>>
  BY <1>9 DEF SaveReview, runVars
<1>10. ASSUME NEW x \in Candidates,
             \/ \E to \in Published : CheckStart(x, to)
             \/ CheckPasses(x) \/ CheckRejects(x) \/ CheckFails(x)
             \/ Activate(x) \/ RejectShadow(x) \/ Reject(x) \/ Delete(x)
             \/ EditActions(x) \/ RefineStart(x) \/ RefineEnd(x)
      PROVE  UNCHANGED <<approved, active, run, releasing>>
  BY <1>10 DEF CheckStart, CheckPasses, CheckRejects, CheckFails, Activate, RejectShadow, Reject, Delete,
              EditActions, RefineStart, RefineEnd, caseVars, runVars
<1>11. ASSUME NEW p \in Cases, Retire(p) PROVE UNCHANGED <<approved, active, run, releasing>>
  BY <1>11 DEF Retire, caseVars, runVars
<1>12. QED
  BY <1>1, <1>2, <1>3, <1>4, <1>5, <1>6, <1>7, <1>8, <1>9, <1>10, <1>11
     DEF Next, Restart, vars, caseVars, runVars

\* While nothing fails, an approval of a superseded analysis is about to be
\* released, for any number of incidents and runs (analysis_runs.go:176).
THEOREM ApprovalIsCurrentHolds == Spec => []ApprovalIsCurrent
<1>1. Init => Current
  BY DEF Init, Current, Releasable
<1>2. TInv /\ Current => ApprovalIsCurrent
  BY DEF TInv, TypeOK, Current, Releasable, ApprovalIsCurrent
<1>3. QED
  BY <1>1, <1>2, TInvInit, TInvStep, CurrentStep, PTL DEF Spec

-----------------------------------------------------------------------------
(* Candidates and packages, where no two cases compile to the same content *)

Owns(c, x) == \E mode \in Modes : Compile[c][mode] = x

OwnContent == \A c, d \in Cases, x \in Candidates : Owns(c, x) /\ Owns(d, x) => c = d

\* A candidate is supported by the one case it comes from, and may have its package.
Rooted(b) ==
    \A x \in Candidates : LET k == b.cand[x] IN
       /\ k.status = "absent" => k.support = {}
       /\ k.status # "absent" =>
            k.case \in Cases /\ Owns(k.case, x) /\ k.support = {k.case} /\ k.pkg \in {NoCase, k.case}

\* A package holds a candidate of its case, an active one an active candidate.
Filled(b) ==
    \A p \in Cases : LET g == b.pkg[p] IN
       /\ g.cand \in Candidates => Owns(p, g.cand)
       /\ g.status = "active" =>
            g.cand \in Candidates /\ b.cand[g.cand].status = "active" /\ b.cand[g.cand].pkg = p

\* A shadow candidate has the package of its case to itself.
Shadowed(b) ==
    \A x \in Candidates : LET c == b.cand[x].case IN
       b.cand[x].status = "shadow" =>
          b.cand[x].pkg = c /\ b.pkg[c].cand = x /\ b.pkg[c].status = "shadow"

Single(b) ==
    \A p, q \in Cases :
       /\ b.pkg[p].status = "active" /\ b.pkg[q].status = "active"
       /\ Fingerprint[b.pkg[p].cand] = Fingerprint[b.pkg[q].cand]
       => p = q

Sound(b) == Rooted(b) /\ Filled(b) /\ Shadowed(b) /\ Single(b)

Confirmed(b, R) ==
    \A x \in Candidates : b.cand[x].status \in LiveStatus =>
       \A c \in b.cand[x].support : Promotable(R, c)

\* Candidates that leave the queue, or have lost their package, are set aside.
LEMMA AsideSound ==
    ASSUME NEW b \in Book, NEW t \in Book, NEW X, NEW st \in {"failed", "rejected", "superseded"}, NEW why,
           Sound(b), Sets(t, b, X, st, why),
           \A x \in Candidates : x \in X =>
              /\ b.cand[x].status \notin {"absent", "shadow"}
              /\ \A p \in Cases : b.pkg[p].status = "active" => b.pkg[p].cand # x
    PROVE  Sound(t) /\ \A R : Confirmed(b, R) => Confirmed(t, R)
<1>1. ASSUME NEW x \in Candidates
      PROVE  /\ t.cand[x].case = b.cand[x].case /\ t.cand[x].support = b.cand[x].support
             /\ t.cand[x].pkg = b.cand[x].pkg
             /\ x \in X => t.cand[x].status = st /\ b.cand[x].status \notin {"absent", "shadow"}
             /\ x \notin X => t.cand[x].status = b.cand[x].status
  <2>1. CASE x \in X
    BY <2>1 DEF Sets
  <2>2. CASE x \notin X
    BY <2>2 DEF Sets
  <2>3. QED
    BY <2>1, <2>2
<1>2. t.pkg = b.pkg
  BY DEF Sets
<1>3. Rooted(t)
  BY <1>1 DEF Sound, Rooted
<1>4. Filled(t)
  BY <1>1, <1>2 DEF Sound, Filled
<1>5. Shadowed(t)
  BY <1>1, <1>2 DEF Sound, Shadowed
<1>6. Single(t)
  BY <1>2 DEF Sound, Single
<1>7. ASSUME NEW R, Confirmed(b, R) PROVE Confirmed(t, R)
  BY <1>1, <1>7 DEF Confirmed, LiveStatus
<1>8. QED
  BY <1>3, <1>4, <1>5, <1>6, <1>7 DEF Sound

\* Active packages are retired.
LEMMA RetireSound ==
    ASSUME NEW b \in Book, NEW P, Sound(b), \A p \in Cases : p \in P => b.pkg[p].status = "active"
    PROVE  /\ Sound(RetireIn(b, P)) /\ \A R : Confirmed(b, R) => Confirmed(RetireIn(b, P), R)
           /\ RetireIn(b, P).cand = b.cand
<1> DEFINE t == RetireIn(b, P)
<1>1. /\ t.cand = b.cand
      /\ \A p \in Cases \ P : t.pkg[p] = b.pkg[p]
      /\ \A p \in Cases : p \in P => t.pkg[p].status = "retired" /\ t.pkg[p].cand = b.pkg[p].cand
  BY RetireIs
<1> HIDE DEF t
<1>2. ASSUME NEW p \in Cases
      PROVE  /\ t.pkg[p].cand = b.pkg[p].cand
             /\ p \in P => t.pkg[p].status = "retired" /\ b.pkg[p].status = "active"
             /\ p \notin P => t.pkg[p] = b.pkg[p]
  <2>1. CASE p \in P
    BY <1>1, <2>1
  <2>2. CASE p \notin P
    BY <1>1, <2>2
  <2>3. QED
    BY <2>1, <2>2
<1>3. Rooted(t)
  BY <1>1 DEF Sound, Rooted
<1>4. Filled(t)
  BY <1>1, <1>2 DEF Sound, Filled
<1>5. Shadowed(t)
  <2>1. ASSUME NEW x \in Candidates, t.cand[x].status = "shadow" PROVE b.cand[x].case \in Cases
    BY <1>1, <2>1 DEF Sound, Rooted
  <2>2. QED
    BY <1>1, <1>2, <2>1 DEF Sound, Shadowed
<1>6. Single(t)
  BY <1>2 DEF Sound, Single
<1>7. ASSUME NEW R, Confirmed(b, R) PROVE Confirmed(t, R)
  BY <1>1, <1>7 DEF Confirmed
<1>8. QED
  BY <1>1, <1>3, <1>4, <1>5, <1>6, <1>7 DEF Sound, t

LEMMA RecomputeOwns ==
    ASSUME NEW R, NEW c \in Cases, Recompute(R, c) \in Candidates
    PROVE  Owns(c, Recompute(R, c))
BY CaseKnowledgeAssumption DEF Recompute, Mode, Modes, Owns

\* What a case compiles to depends on its own reviews.
LEMMA OwnReviews ==
    ASSUME NEW R, NEW Q, NEW c, R[c] = Q[c]
    PROVE  Promotable(R, c) <=> Promotable(Q, c)
BY DEF Promotable, Recompute, Allows, Mode, Given

LEMMA LinkSound ==
    ASSUME OwnContent, NEW b \in Book, NEW c \in Cases, NEW x \in Candidates, NEW R,
           Sound(b), Recompute(R, c) = x, NEW t, t = LinkIn(b, c, x)
    PROVE  t \in Book /\ Sound(t) /\ (Confirmed(b, R) => Confirmed(t, R)) /\ t.cand[x].support = {c}
<1> DEFINE n == NewCandidate(c, x)
<1>1. Owns(c, x)
  BY RecomputeOwns
<1>2. /\ n.status \in {"ready", "failed"} /\ n.case = c /\ n.support = {c} /\ n.pkg = NoCase
      /\ n.status = "ready" => Promotable(R, c)
  BY DEF NewCandidate, Promotable
<1> HIDE DEF n
<1>3. t \in Book /\ t.pkg = b.pkg /\ \A y \in Candidates : y # x => t.cand[y] = b.cand[y]
  BY LinkIs
<1>4. CASE b.cand[x].status = "absent"
  <2>1. t.cand[x] = n
    BY <1>4, LinkIs DEF n
  <2>2. ASSUME NEW p \in Cases, t.pkg[p].status = "active" PROVE t.pkg[p].cand # x
    BY <1>3, <1>4, <2>2 DEF Sound, Filled
  <2>3. Rooted(t)
    BY <1>1, <1>2, <1>3, <2>1 DEF Sound, Rooted
  <2>4. Filled(t)
    BY <1>3, <2>2 DEF Sound, Filled
  <2>5. Shadowed(t)
    BY <1>2, <1>3, <2>1 DEF Sound, Shadowed
  <2>6. Single(t)
    BY <1>3 DEF Sound, Single
  <2>7. ASSUME Confirmed(b, R) PROVE Confirmed(t, R)
    BY <1>2, <1>3, <2>1, <2>7 DEF Confirmed, LiveStatus
  <2>8. QED
    BY <1>2, <1>3, <2>1, <2>3, <2>4, <2>5, <2>6, <2>7 DEF Sound
<1>5. CASE b.cand[x].status # "absent"
  <2>1. /\ t.cand[x].status = b.cand[x].status /\ t.cand[x].case = b.cand[x].case
        /\ t.cand[x].pkg = b.cand[x].pkg /\ t.cand[x].support = b.cand[x].support \cup {c}
    BY <1>5, LinkIs
  <2>2. b.cand[x].case = c /\ b.cand[x].support = {c}
    BY <1>1, <1>5 DEF Sound, Rooted, OwnContent
  <2>3. ASSUME NEW y \in Candidates
        PROVE  /\ t.cand[y].status = b.cand[y].status /\ t.cand[y].case = b.cand[y].case
               /\ t.cand[y].pkg = b.cand[y].pkg /\ t.cand[y].support = b.cand[y].support
    BY <1>3, <2>1, <2>2
  <2>4. Sound(t)
    BY <1>3, <2>3 DEF Sound, Rooted, Filled, Shadowed, Single
  <2>5. ASSUME Confirmed(b, R) PROVE Confirmed(t, R)
    BY <2>3, <2>5 DEF Confirmed
  <2>6. QED
    BY <1>3, <2>2, <2>3, <2>4, <2>5
<1>6. QED
  BY <1>4, <1>5

LEMMA ReviveSound ==
    ASSUME NEW b \in Book, NEW x \in Candidates, NEW R, Sound(b), x \in Eligible,
           b.cand[x].status \in {"failed", "superseded"},
           \A d \in b.cand[x].support : Recompute(R, d) = x,
           NEW t, t = ReviveIn(b, x)
    PROVE  t \in Book /\ Sound(t) /\ (Confirmed(b, R) => Confirmed(t, R))
<1>1. /\ t \in Book /\ t.pkg = b.pkg /\ \A y \in Candidates : y # x => t.cand[y] = b.cand[y]
      /\ t.cand[x].status = "ready" /\ t.cand[x].pkg = NoCase
      /\ t.cand[x].case = b.cand[x].case /\ t.cand[x].support = b.cand[x].support
  BY ReviveIs
<1>2. ASSUME NEW p \in Cases, t.pkg[p].status = "active" PROVE t.pkg[p].cand # x
  BY <1>1, <1>2 DEF Sound, Filled
<1>3. Rooted(t)
  BY <1>1 DEF Sound, Rooted
<1>4. Filled(t)
  BY <1>1, <1>2 DEF Sound, Filled
<1>5. Shadowed(t)
  BY <1>1 DEF Sound, Shadowed
<1>6. Single(t)
  BY <1>1 DEF Sound, Single
<1>7. ASSUME Confirmed(b, R) PROVE Confirmed(t, R)
  BY <1>1, <1>7 DEF Confirmed, Promotable
<1>8. QED
  BY <1>1, <1>3, <1>4, <1>5, <1>6, <1>7 DEF Sound

\* A review that no longer confirms a case withdraws all it supports.
LEMMA InvalidatedSound ==
    ASSUME OwnContent, NEW s, s.mem \in Book, s.rows = s.mem, Sound(s.mem),
           NEW R, NEW Q, NEW c \in Cases, Confirmed(s.mem, Q), \A d \in Cases \ {c} : R[d] = Q[d],
           NEW t, t = Invalidated(s, R, c, {})
    PROVE  t.mem \in Book /\ t.rows = t.mem /\ Sound(t.mem) /\ Confirmed(t.mem, R)
<1> DEFINE b == s.mem
           gone == {x \in Supporting(b, c) \ {} : b.cand[x].status \in LiveStatus}
           pkgs == {p \in Cases : b.pkg[p].status \in Published /\ \E x \in gone : b.cand[x].pkg = p}
           m == SetStatus(b, gone, "failed", "review")
           w == RetireIn(m, pkgs)
<1>1. \A d \in Cases \ {c} : Promotable(R, d) <=> Promotable(Q, d)
  BY OwnReviews
<1>2. CASE Promotable(R, c)
  <2>1. t = s
    BY <1>2 DEF Invalidated
  <2>2. ASSUME NEW x \in Candidates, b.cand[x].status \in LiveStatus, NEW d \in b.cand[x].support
        PROVE  Promotable(R, d)
    <3>1. Promotable(Q, d)
      BY <2>2 DEF Confirmed
    <3>2. d \in Cases
      BY <2>2, BookFields, CandFields
    <3>3. QED
      BY <1>1, <1>2, <3>1, <3>2
  <2>3. QED
    BY <2>1, <2>2 DEF Confirmed
<1>3. CASE ~Promotable(R, c)
  <2>1. t.mem = w /\ t.rows = w
    BY <1>3 DEF Invalidated, Drop, Set
  <2>2. \A x \in Candidates : x \in gone <=> c \in b.cand[x].support /\ b.cand[x].status \in LiveStatus
    BY DEF Supporting
  <2>3. \A p \in Cases : p \in pkgs <=> b.pkg[p].status \in Published
                                        /\ \E x \in Candidates : x \in gone /\ b.cand[x].pkg = p
    BY DEF Supporting
  <2>4. gone \subseteq Candidates
    BY DEF Supporting
  <2> HIDE DEF gone
  <2>5. Sets(m, b, gone, "failed", "review")
    BY SetStatusIs DEF CandStatus, Reasons
  <2>6. m \in Book /\ m.pkg = b.pkg
    BY <2>5 DEF Sets
  <2>7. ASSUME NEW x \in Candidates
        PROVE  /\ m.cand[x].case = b.cand[x].case /\ m.cand[x].support = b.cand[x].support
               /\ m.cand[x].pkg = b.cand[x].pkg
               /\ x \in gone => m.cand[x].status = "failed"
               /\ x \notin gone => m.cand[x].status = b.cand[x].status
    <3>1. CASE x \in gone
      BY <2>5, <3>1 DEF Sets
    <3>2. CASE x \notin gone
      BY <2>5, <3>2 DEF Sets
    <3>3. QED
      BY <3>1, <3>2
  <2> HIDE DEF pkgs, m
  <2>8. /\ w \in Book /\ w.cand = m.cand
        /\ \A p \in Cases \ pkgs : w.pkg[p] = m.pkg[p]
        /\ \A p \in Cases : p \in pkgs => w.pkg[p].status = "retired" /\ w.pkg[p].cand = m.pkg[p].cand
    BY <2>6, RetireIs
  <2> HIDE DEF w
  <2>9. ASSUME NEW p \in Cases
        PROVE  /\ w.pkg[p].cand = b.pkg[p].cand
               /\ p \in pkgs => w.pkg[p].status = "retired"
               /\ p \notin pkgs => w.pkg[p] = b.pkg[p]
    BY <2>6, <2>8
  <2>10. Rooted(w)
    BY <2>2, <2>7, <2>8 DEF Sound, Rooted, LiveStatus
  <2>11. Filled(w)
    <3>1. ASSUME NEW p \in Cases PROVE w.pkg[p].cand \in Candidates => Owns(p, w.pkg[p].cand)
      BY <2>9 DEF Sound, Filled
    <3>2. ASSUME NEW p \in Cases, w.pkg[p].status = "active"
          PROVE  /\ w.pkg[p].cand \in Candidates
                 /\ w.cand[w.pkg[p].cand].status = "active" /\ w.cand[w.pkg[p].cand].pkg = p
      <4>1. p \notin pkgs /\ w.pkg[p] = b.pkg[p]
        BY <2>9, <3>2
      <4> DEFINE y == b.pkg[p].cand
      <4>2. y \in Candidates /\ b.cand[y].status = "active" /\ b.cand[y].pkg = p
        BY <3>2, <4>1 DEF Sound, Filled
      <4>3. y \notin gone
        BY <2>3, <3>2, <4>1, <4>2 DEF Published
      <4>4. QED
        BY <2>7, <2>8, <4>1, <4>2, <4>3
    <3>3. QED
      BY <3>1, <3>2 DEF Filled
  <2>12. Shadowed(w)
    <3> SUFFICES ASSUME NEW x \in Candidates, w.cand[x].status = "shadow"
                 PROVE  LET d == w.cand[x].case IN
                        w.cand[x].pkg = d /\ w.pkg[d].cand = x /\ w.pkg[d].status = "shadow"
      BY DEF Shadowed
    <3> DEFINE d == b.cand[x].case
    <3>1. x \notin gone /\ b.cand[x].status = "shadow" /\ w.cand[x].case = d /\ w.cand[x].pkg = b.cand[x].pkg
      BY <2>7, <2>8
    <3>2. /\ d \in Cases /\ b.cand[x].support = {d} /\ b.cand[x].pkg = d
          /\ b.pkg[d].cand = x /\ b.pkg[d].status = "shadow"
      BY <3>1 DEF Sound, Rooted, Shadowed
    <3>3. d # c
      BY <2>2, <3>1, <3>2 DEF LiveStatus
    <3>4. d \notin pkgs
      <4> SUFFICES ASSUME NEW y \in Candidates, y \in gone, b.cand[y].pkg = d PROVE FALSE
        BY <2>3, <3>2
      <4>1. b.cand[y].status # "absent" /\ c \in b.cand[y].support
        BY <2>2 DEF LiveStatus
      <4>2. b.cand[y].case = c /\ b.cand[y].pkg \in {NoCase, c}
        BY <4>1 DEF Sound, Rooted
      <4>3. QED
        BY <3>2, <3>3, <4>2, CaseKnowledgeAssumption
    <3>5. QED
      BY <2>9, <3>1, <3>2, <3>4
  <2>13. Single(w)
    BY <2>9 DEF Sound, Single
  <2>14. Confirmed(w, R)
    <3> SUFFICES ASSUME NEW x \in Candidates, w.cand[x].status \in LiveStatus, NEW d \in w.cand[x].support
                 PROVE  Promotable(R, d)
      BY DEF Confirmed
    <3>1. x \notin gone /\ b.cand[x].status \in LiveStatus /\ d \in b.cand[x].support
      BY <2>7, <2>8 DEF LiveStatus
    <3>2. d # c /\ d \in Cases
      BY <2>2, <3>1, BookFields, CandFields
    <3>3. QED
      BY <1>1, <3>1, <3>2 DEF Confirmed
  <2>15. QED
    BY <2>1, <2>8, <2>10, <2>11, <2>12, <2>13, <2>14 DEF Sound
<1>4. QED
  BY <1>2, <1>3

\* What is still in the queue has no active package.
LEMMA QueueHasNoPackage ==
    ASSUME NEW b, Sound(b), NEW x, b.cand[x].status # "active"
    PROVE  \A p \in Cases : b.pkg[p].status = "active" => b.pkg[p].cand # x
BY DEF Sound, Filled

LEMMA SupersedeSound ==
    ASSUME NEW s, s.mem \in Book, s.rows = s.mem, Sound(s.mem), NEW c, NEW keep,
           NEW t, t = SupersedeStale(s, c, keep, {})
    PROVE  t.mem \in Book /\ t.rows = t.mem /\ Sound(t.mem)
           /\ \A R : Confirmed(s.mem, R) => Confirmed(t.mem, R)
<1> DEFINE stale == {x \in Supporting(s.mem, c) \ ({} \cup {keep}) : s.mem.cand[x].status = "failed"}
           m == SetStatus(s.mem, stale, "superseded", "")
<1>1. t.mem = m /\ t.rows = m
  BY DEF SupersedeStale, Set
<1>2. \A x \in stale : s.mem.cand[x].status = "failed"
  OBVIOUS
<1> HIDE DEF stale
<1>3. Sets(m, s.mem, stale, "superseded", "")
  BY SetStatusIs DEF CandStatus, Reasons
<1> HIDE DEF m
<1>4. m \in Book
  BY <1>3 DEF Sets
<1>5. \A x \in Candidates : x \in stale =>
         /\ s.mem.cand[x].status \notin {"absent", "shadow"}
         /\ \A p \in Cases : s.mem.pkg[p].status = "active" => s.mem.pkg[p].cand # x
  BY <1>2, QueueHasNoPackage
<1>6. Sound(m) /\ \A R : Confirmed(s.mem, R) => Confirmed(m, R)
  BY <1>3, <1>4, <1>5, AsideSound
<1>7. QED
  BY <1>1, <1>4, <1>6

LEMMA GeneratedSound ==
    ASSUME OwnContent, NEW s, s.mem \in Book, s.rows = s.mem, Sound(s.mem),
           NEW R, NEW c \in Cases, Confirmed(s.mem, R),
           NEW t, t = Generated(s, R, c, {})
    PROVE  t.mem \in Book /\ t.rows = t.mem /\ Sound(t.mem) /\ Confirmed(t.mem, R)
<1> DEFINE x == Recompute(R, c)
           Done(u) == SupersedeStale(u, c, x, {})
           a == Set(s, {x}, "failed", "compile")
           b == Revive(s, x)
           d == Link(s, c, x)
<1>1. CASE t = s
  BY <1>1
<1>2. CASE t # s
  <2>1. x # NoCand
    BY <1>2 DEF Generated
  <2>2. x \in Candidates
    BY <2>1, RecomputeType
  <2>3. \/ s.mem.cand[x].status = "failed" /\ t = Done(a)
        \/ Revivable(s, x) /\ MayRevive(s, R, c, x) /\ t = Done(b)
        \/ t = Done(d)
    BY <1>2 DEF Generated
  <2>4. CASE s.mem.cand[x].status = "failed" /\ t = Done(a)
    <3> DEFINE m == SetStatus(s.mem, {x}, "failed", "compile")
    <3>1. a.mem = m /\ a.rows = m
      BY DEF Set
    <3>2. Sets(m, s.mem, {x}, "failed", "compile")
      BY SetStatusIs DEF CandStatus, Reasons
    <3> HIDE DEF m, a, x
    <3>3. m \in Book
      BY <3>2 DEF Sets
    <3>4. Sound(m) /\ Confirmed(m, R)
      BY <2>4, <3>2, <3>3, AsideSound, QueueHasNoPackage
    <3>5. a.mem \in Book /\ a.rows = a.mem /\ Sound(a.mem) /\ Confirmed(a.mem, R)
      BY <3>1, <3>3, <3>4
    <3>6. QED
      BY <2>4, <3>5, SupersedeSound
  <2>5. CASE Revivable(s, x) /\ MayRevive(s, R, c, x) /\ t = Done(b)
    <3> DEFINE m == ReviveIn(s.mem, x)
    <3>1. b.mem = m /\ b.rows = m
      BY DEF Revive
    <3>2. /\ x \in Eligible /\ s.mem.cand[x].status \in {"failed", "superseded"}
          /\ \A e \in s.mem.cand[x].support : Recompute(R, e) = x
      BY <2>5 DEF Revivable, MayRevive
    <3>3. m = ReviveIn(s.mem, x)
      OBVIOUS
    <3> HIDE DEF m, b, x
    <3>4. m \in Book /\ Sound(m) /\ Confirmed(m, R)
      BY <2>2, <3>2, <3>3, ReviveSound
    <3>5. b.mem \in Book /\ b.rows = b.mem /\ Sound(b.mem) /\ Confirmed(b.mem, R)
      BY <3>1, <3>4
    <3>6. QED
      BY <2>5, <3>5, SupersedeSound
  <2>6. CASE t = Done(d)
    <3> DEFINE m == LinkIn(s.mem, c, x)
    <3>1. d.mem = m /\ d.rows = m
      BY DEF Link
    <3>2. m = LinkIn(s.mem, c, x) /\ Recompute(R, c) = x
      OBVIOUS
    <3> HIDE DEF m, d, x
    <3>3. m \in Book /\ Sound(m) /\ Confirmed(m, R)
      BY <2>2, <3>2, LinkSound
    <3>4. d.mem \in Book /\ d.rows = d.mem /\ Sound(d.mem) /\ Confirmed(d.mem, R)
      BY <3>1, <3>3
    <3>5. QED
      BY <2>6, <3>4, SupersedeSound
  <2>7. QED
    BY <2>3, <2>4, <2>5, <2>6
<1>3. QED
  BY <1>1, <1>2

\* Publishing or activating x first makes room: it retires an active package
\* and supersedes its candidate.
LEMMA PriorSound ==
    ASSUME OwnContent, mem \in Book, Sound(mem), NEW P \in SUBSET Cases,
           \A p \in P : mem.pkg[p].status = "active"
    PROVE  LET t == SupersedePrior(mem, P) IN
           /\ t \in Book /\ Sound(t) /\ \A R : Confirmed(mem, R) => Confirmed(t, R)
           /\ \A x \in Candidates :
                 /\ t.cand[x].case = mem.cand[x].case /\ t.cand[x].support = mem.cand[x].support
                 /\ t.cand[x].pkg = mem.cand[x].pkg
                 /\ mem.cand[x].status # "active" => t.cand[x].status = mem.cand[x].status
           /\ \A p \in Cases : /\ p \notin P => t.pkg[p] = mem.pkg[p]
                               /\ p \in P => t.pkg[p].status = "retired"
<1> DEFINE r == RetireIn(mem, P)
           Y == {y \in {mem.pkg[p].cand : p \in P} : mem = mem \/ mem.cand[y].status = "active"}
           t == SupersedePrior(mem, P)
<1>1. r \in Book /\ Sound(r) /\ r.cand = mem.cand /\ \A R : Confirmed(mem, R) => Confirmed(r, R)
  BY RetireIs, RetireSound
<1>2. \A p \in Cases : /\ p \notin P => r.pkg[p] = mem.pkg[p]
                       /\ p \in P => r.pkg[p].status = "retired" /\ r.pkg[p].cand = mem.pkg[p].cand
  BY RetireIs
<1>3. t \in Book /\ Sets(t, r, Y, "superseded", "")
  BY PriorIs
<1>4. \A y \in Candidates : y \in Y => \E p \in P : mem.pkg[p].cand = y
  OBVIOUS
<1> HIDE DEF r, Y, t
<1>5. ASSUME NEW y \in Candidates, y \in Y
      PROVE  /\ mem.cand[y].status = "active"
             /\ \A q \in Cases : r.pkg[q].status = "active" => r.pkg[q].cand # y
  <2>1. PICK p \in P : mem.pkg[p].cand = y
    BY <1>4, <1>5
  <2>2. mem.cand[y].status = "active" /\ Owns(p, y)
    BY <2>1 DEF Sound, Filled
  <2>3. ASSUME NEW q \in Cases, r.pkg[q].status = "active", r.pkg[q].cand = y PROVE FALSE
    <3>1. Owns(q, y)
      BY <1>1, <2>3 DEF Sound, Filled
    <3>2. q = p
      BY <2>2, <3>1 DEF OwnContent
    <3>3. QED
      BY <1>2, <2>3, <3>2
  <2>4. QED
    BY <2>2, <2>3
<1>6. Sound(t) /\ \A R : Confirmed(r, R) => Confirmed(t, R)
  <2>1. \A y \in Candidates : y \in Y =>
           /\ r.cand[y].status \notin {"absent", "shadow"}
           /\ \A q \in Cases : r.pkg[q].status = "active" => r.pkg[q].cand # y
    BY <1>1, <1>5
  <2>2. QED
    BY <1>1, <1>3, <2>1, AsideSound
<1>7. ASSUME NEW x \in Candidates
      PROVE  /\ t.cand[x].case = mem.cand[x].case /\ t.cand[x].support = mem.cand[x].support
             /\ t.cand[x].pkg = mem.cand[x].pkg
             /\ mem.cand[x].status # "active" => t.cand[x].status = mem.cand[x].status
  <2>1. CASE x \in Y
    BY <1>1, <1>3, <1>5, <2>1 DEF Sets
  <2>2. CASE x \notin Y
    BY <1>1, <1>3, <2>2 DEF Sets
  <2>3. QED
    BY <2>1, <2>2
<1>8. t.pkg = r.pkg
  BY <1>3 DEF Sets
<1>9. QED
  BY <1>1, <1>2, <1>3, <1>6, <1>7, <1>8 DEF t

LEMMA ChoicesAreSmall ==
    ASSUME NEW S, NEW P \in Choices(S)
    PROVE  P \in SUBSET S /\ (S # {} => P # {})
BY DEF Choices

\* What the books hold while no transaction fails.
Settled == rows = mem /\ Sound(mem) /\ Confirmed(mem, review)

LEMMA PublishSettles ==
    ASSUME OwnContent, TInv, Settled, NEW x \in Candidates, CheckPasses(x)
    PROVE  Settled'
<1> DEFINE c == mem.cand[x].case
           to == checking[x].to
           mine == {p \in Cases : mem.pkg[p].cand = x}
           S == IF to = "active" THEN Priors(x, mine) ELSE {}
<1>1. PICK P \in Choices(S) :
         /\ RowAccepts(x, P)
         /\ mem' = PublishIn(SupersedePrior(mem, P), x, to)
         /\ rows' = PublishIn(SupersedePrior(rows, P), x, to)
  BY DEF CheckPasses
<1>2. /\ to \in Published /\ x \in Eligible /\ Reviewable(mem.cand[x])
      /\ Recompute(review, c) = x /\ review' = review
  BY DEF CheckPasses, TInv, Asked, caseVars
<1>3. mem \in Book /\ rows = mem /\ Sound(mem) /\ Confirmed(mem, review)
  BY BothGood DEF Settled
<1>4. mem.cand[x].status \in {"ready", "failed"}
  BY <1>2 DEF Reviewable
<1>5. c \in Cases /\ Owns(c, x) /\ mem.cand[x].support = {c}
  BY <1>3, <1>4 DEF Sound, Rooted
<1>6. P \in SUBSET Cases /\ \A p \in P : mem.pkg[p].status = "active"
  BY <1>1, ChoicesAreSmall DEF Priors
<1>7. \A p \in P : mem.pkg[p].cand # x
  BY <1>1, ChoicesAreSmall DEF Priors
<1> DEFINE b == SupersedePrior(mem, P)
<1>8. /\ b \in Book /\ Sound(b) /\ Confirmed(b, review)
      /\ \A y \in Candidates :
            /\ b.cand[y].case = mem.cand[y].case /\ b.cand[y].support = mem.cand[y].support
            /\ mem.cand[y].status # "active" => b.cand[y].status = mem.cand[y].status
      /\ \A p \in Cases : /\ p \notin P => b.pkg[p] = mem.pkg[p]
                          /\ p \in P => b.pkg[p].status = "retired"
  BY <1>3, <1>6, PriorSound
<1> HIDE DEF b
<1>9. rows' = mem' /\ Publishes(mem', b, x, to)
  BY <1>1, <1>2, <1>3, <1>8, PublishIs DEF b
<1>10. /\ mem' \in Book
       /\ mem'.cand[x].status = to /\ mem'.cand[x].pkg = c /\ mem'.cand[x].case = c
       /\ mem'.cand[x].support = {c}
       /\ mem'.pkg[c].cand = x /\ mem'.pkg[c].status = to
       /\ \A y \in Candidates : y # x => mem'.cand[y] = b.cand[y]
       /\ \A p \in Cases : p # c => mem'.pkg[p] = b.pkg[p]
  BY <1>5, <1>8, <1>9 DEF Publishes
\* The place of the package is free, or holds what is retired.
<1>11. b.pkg[c].status \notin {"active", "shadow"} \/ b.pkg[c].cand = x
  <2>1. rows.pkg[c].status \in {"none", "retired"} \/ rows.pkg[c].cand = x \/ c \in P
    BY <1>1 DEF RowAccepts
  <2>2. QED
    BY <1>3, <1>5, <1>8, <2>1
<1>12. Rooted(mem')
  BY <1>2, <1>5, <1>8, <1>10 DEF Sound, Rooted, Published
<1>13. ASSUME NEW p \in Cases, p # c PROVE b.pkg[p].cand # x
  BY <1>5, <1>8, <1>13 DEF Sound, Filled, OwnContent
<1>14. Filled(mem')
  <2> SUFFICES ASSUME NEW p \in Cases
               PROVE  LET g == mem'.pkg[p] IN
                      /\ g.cand \in Candidates => Owns(p, g.cand)
                      /\ g.status = "active" =>
                           g.cand \in Candidates /\ mem'.cand[g.cand].status = "active"
                           /\ mem'.cand[g.cand].pkg = p
    BY DEF Filled
  <2>1. CASE p = c
    BY <1>5, <1>10, <2>1
  <2>2. CASE p # c
    BY <1>8, <1>10, <1>13, <2>2 DEF Sound, Filled
  <2>3. QED
    BY <2>1, <2>2
<1>15. Shadowed(mem')
  <2> SUFFICES ASSUME NEW y \in Candidates, mem'.cand[y].status = "shadow"
               PROVE  LET d == mem'.cand[y].case IN
                      mem'.cand[y].pkg = d /\ mem'.pkg[d].cand = y /\ mem'.pkg[d].status = "shadow"
    BY DEF Shadowed
  <2>1. CASE y = x
    BY <1>10, <2>1
  <2>2. CASE y # x
    <3> DEFINE d == b.cand[y].case
    <3>1. /\ b.cand[y].status = "shadow" /\ mem'.cand[y] = b.cand[y]
          /\ d \in Cases /\ b.cand[y].pkg = d /\ b.pkg[d].cand = y /\ b.pkg[d].status = "shadow"
      BY <1>8, <1>10, <2>2 DEF Sound, Rooted, Shadowed
    <3>2. d # c
      BY <1>11, <2>2, <3>1
    <3>3. QED
      BY <1>10, <3>1, <3>2
  <2>3. QED
    BY <2>1, <2>2
\* No other active package of the fingerprint is left.
<1>16. ASSUME to = "active", NEW p \in Cases, p # c, b.pkg[p].status = "active",
              Fingerprint[b.pkg[p].cand] = Fingerprint[x]
       PROVE  FALSE
  <2>1. p \notin P /\ mem.pkg[p] = b.pkg[p]
    BY <1>8, <1>16
  <2>2. p \in S
    BY <1>3, <1>13, <1>16, <2>1 DEF Priors, Sound, Filled
  <2> HIDE DEF S
  <2>3. P \in SUBSET S /\ (S # {} => P # {})
    BY <1>1, ChoicesAreSmall
  <2>4. PICK q \in P : q \in S
    BY <2>2, <2>3
  <2> USE DEF S
  <2>5. q \in Cases /\ mem.pkg[q].status = "active" /\ Fingerprint[mem.pkg[q].cand] = Fingerprint[x]
    BY <1>16, <2>4 DEF Priors
  <2>6. q = p
    BY <1>3, <1>16, <2>1, <2>5 DEF Sound, Single
  <2>7. QED
    BY <2>1, <2>4, <2>6
<1>17. Single(mem')
  <2> SUFFICES ASSUME NEW p \in Cases, NEW q \in Cases,
                      mem'.pkg[p].status = "active", mem'.pkg[q].status = "active",
                      Fingerprint[mem'.pkg[p].cand] = Fingerprint[mem'.pkg[q].cand]
               PROVE  p = q
    BY DEF Single
  <2>1. CASE p = c /\ q # c
    BY <1>10, <1>16, <2>1
  <2>2. CASE p # c /\ q = c
    BY <1>10, <1>16, <2>2
  <2>3. CASE p # c /\ q # c
    BY <1>8, <1>10, <2>3 DEF Sound, Single
  <2>4. QED
    BY <2>1, <2>2, <2>3
<1>18. Promotable(review, c)
  BY <1>2 DEF Promotable
<1>19. Confirmed(mem', review)
  BY <1>8, <1>10, <1>18 DEF Confirmed
<1>20. QED
  BY <1>2, <1>9, <1>12, <1>14, <1>15, <1>17, <1>19 DEF Settled, Sound

LEMMA ActivateSettles ==
    ASSUME OwnContent, TInv, Settled, NEW x \in Candidates, Activate(x)
    PROVE  Settled'
<1> DEFINE p == mem.cand[x].pkg
           S == Priors(x, {p})
<1>1. PICK P \in Choices(S) :
        /\ mem' = [SupersedePrior(mem, P) EXCEPT !.cand[x].status = "active", !.pkg[p].status = "active"]
        /\ rows' = [SupersedePrior(rows, P) EXCEPT !.cand[x].status = "active", !.pkg[p].status = "active"]
  BY DEF Activate
<1>2. /\ mem \in Book /\ rows = mem /\ Sound(mem) /\ Confirmed(mem, review)
      /\ review' = review /\ ShadowPair(mem, x)
  BY BothGood DEF Settled, Activate, caseVars
<1>3. /\ mem.cand[x].status = "shadow" /\ mem.cand[x].case = p /\ mem.cand[x].support = {p}
      /\ p \in Cases /\ Owns(p, x)
      /\ mem.pkg[p].cand = x /\ mem.pkg[p].status = "shadow"
  BY <1>2 DEF ShadowPair, Sound, Rooted, Shadowed
<1>4. P \in SUBSET Cases /\ \A q \in P : mem.pkg[q].status = "active"
  BY <1>1, ChoicesAreSmall DEF Priors
<1> DEFINE b == SupersedePrior(mem, P)
<1>5. /\ b \in Book /\ Sound(b) /\ Confirmed(b, review)
      /\ \A y \in Candidates :
            /\ b.cand[y].case = mem.cand[y].case /\ b.cand[y].support = mem.cand[y].support
            /\ b.cand[y].pkg = mem.cand[y].pkg
            /\ mem.cand[y].status # "active" => b.cand[y].status = mem.cand[y].status
      /\ \A q \in Cases : /\ q \notin P => b.pkg[q] = mem.pkg[q]
                          /\ q \in P => b.pkg[q].status = "retired"
  BY <1>2, <1>4, PriorSound
<1>6. SupersedePrior(rows, P) = b
  BY <1>2
<1>7. mem' = [b EXCEPT !.cand[x].status = "active", !.pkg[p].status = "active"] /\ rows' = mem'
  BY <1>1, <1>6
<1> HIDE DEF b
<1>8. p \in Cases
  BY <1>3
<1> HIDE DEF p
<1>9. rows' = mem' /\ Activates(mem', b, x, p)
  BY <1>5, <1>7, <1>8, ActivateIs
<1>10. b.cand[x].status = "shadow" /\ b.pkg[p].cand = x /\ b.pkg[p].status = "shadow"
  BY <1>3, <1>4, <1>5
<1>11. /\ mem' \in Book
       /\ mem'.cand[x].status = "active" /\ mem'.cand[x].pkg = p /\ mem'.cand[x].case = p
       /\ mem'.cand[x].support = {p}
       /\ mem'.pkg[p].cand = x /\ mem'.pkg[p].status = "active"
       /\ \A y \in Candidates : y # x => mem'.cand[y] = b.cand[y]
       /\ \A q \in Cases : q # p => mem'.pkg[q] = b.pkg[q]
  BY <1>3, <1>5, <1>9, <1>10 DEF Activates, p
<1>12. Rooted(mem')
  BY <1>3, <1>5, <1>11 DEF Sound, Rooted
<1>13. ASSUME NEW q \in Cases, q # p PROVE b.pkg[q].cand # x
  BY <1>3, <1>5, <1>13 DEF Sound, Filled, OwnContent
<1>14. Filled(mem')
  <2> SUFFICES ASSUME NEW q \in Cases
               PROVE  LET g == mem'.pkg[q] IN
                      /\ g.cand \in Candidates => Owns(q, g.cand)
                      /\ g.status = "active" =>
                           g.cand \in Candidates /\ mem'.cand[g.cand].status = "active"
                           /\ mem'.cand[g.cand].pkg = q
    BY DEF Filled
  <2>1. CASE q = p
    BY <1>3, <1>11, <2>1
  <2>2. CASE q # p
    BY <1>5, <1>11, <1>13, <2>2 DEF Sound, Filled
  <2>3. QED
    BY <2>1, <2>2
<1>15. Shadowed(mem')
  <2> SUFFICES ASSUME NEW y \in Candidates, mem'.cand[y].status = "shadow"
               PROVE  LET d == mem'.cand[y].case IN
                      mem'.cand[y].pkg = d /\ mem'.pkg[d].cand = y /\ mem'.pkg[d].status = "shadow"
    BY DEF Shadowed
  <2> DEFINE d == b.cand[y].case
  <2>1. y # x
    BY <1>11
  <2>2. /\ mem'.cand[y] = b.cand[y] /\ d \in Cases /\ b.cand[y].pkg = d
        /\ b.pkg[d].cand = y /\ b.pkg[d].status = "shadow"
    BY <1>5, <1>11, <2>1 DEF Sound, Rooted, Shadowed
  <2>3. d # p
    BY <1>10, <2>1, <2>2
  <2>4. QED
    BY <1>11, <2>2, <2>3
<1>16. ASSUME NEW q \in Cases, q # p, b.pkg[q].status = "active", Fingerprint[b.pkg[q].cand] = Fingerprint[x]
       PROVE  FALSE
  <2>1. q \notin P /\ mem.pkg[q] = b.pkg[q]
    BY <1>5, <1>16
  <2>2. q \in S
    BY <1>2, <1>16, <2>1 DEF Priors, Sound, Filled
  <2> HIDE DEF S
  <2>3. P \in SUBSET S /\ (S # {} => P # {})
    BY <1>1, ChoicesAreSmall
  <2>4. PICK o \in P : o \in S
    BY <2>2, <2>3
  <2> USE DEF S
  <2>5. o \in Cases /\ mem.pkg[o].status = "active" /\ Fingerprint[mem.pkg[o].cand] = Fingerprint[x]
    BY <2>4 DEF Priors
  <2>6. o = q
    BY <1>2, <1>16, <2>1, <2>5 DEF Sound, Single
  <2>7. QED
    BY <2>1, <2>4, <2>6
<1>17. Single(mem')
  <2> SUFFICES ASSUME NEW q \in Cases, NEW o \in Cases,
                      mem'.pkg[q].status = "active", mem'.pkg[o].status = "active",
                      Fingerprint[mem'.pkg[q].cand] = Fingerprint[mem'.pkg[o].cand]
               PROVE  q = o
    BY DEF Single
  <2>1. CASE q = p /\ o # p
    BY <1>11, <1>16, <2>1
  <2>2. CASE q # p /\ o = p
    BY <1>11, <1>16, <2>2
  <2>3. CASE q # p /\ o # p
    BY <1>5, <1>11, <2>3 DEF Sound, Single
  <2>4. QED
    BY <2>1, <2>2, <2>3
<1>18. Promotable(review, p)
  BY <1>2, <1>3 DEF Confirmed, LiveStatus
<1>19. Confirmed(mem', review)
  BY <1>5, <1>11, <1>18 DEF Confirmed
<1>20. QED
  BY <1>2, <1>9, <1>12, <1>14, <1>15, <1>17, <1>19 DEF Settled, Sound

\* Rejecting a shadow candidate retires the package it has to itself.
LEMMA RejectShadowSettles ==
    ASSUME OwnContent, TInv, Settled, NEW x \in Candidates, RejectShadow(x)
    PROVE  Settled'
<1> DEFINE p == mem.cand[x].pkg
           m == SetStatus(mem, {x}, "rejected", "")
           w == RetireIn(m, {p})
<1>1. /\ mem \in Book /\ rows = mem /\ Sound(mem) /\ Confirmed(mem, review)
      /\ review' = review /\ ShadowPair(mem, x)
  BY BothGood DEF Settled, RejectShadow, caseVars
<1>2. mem' = w /\ rows' = w
  BY <1>1 DEF RejectShadow, Store, Drop, Set, Both
<1>3. /\ p \in Cases /\ mem.cand[x].case = p /\ mem.pkg[p].cand = x /\ mem.pkg[p].status = "shadow"
  BY <1>1 DEF ShadowPair, Sound, Rooted, Shadowed
<1>4. Sets(m, mem, {x}, "rejected", "")
  BY <1>1, SetStatusIs DEF CandStatus, Reasons
<1>5. m \in Book
  BY <1>4 DEF Sets
<1> HIDE DEF m
<1>6. w \in Book /\ w.cand = m.cand /\ (\A q \in Cases : q # p => w.pkg[q] = m.pkg[q])
      /\ w.pkg[p].status = "retired" /\ w.pkg[p].cand = m.pkg[p].cand
  <2>1. /\ w \in Book /\ w.cand = m.cand
        /\ \A q \in Cases \ {p} : w.pkg[q] = m.pkg[q]
        /\ \A q \in Cases : q \in {p} => w.pkg[q].status = "retired" /\ w.pkg[q].cand = m.pkg[q].cand
    BY <1>5, RetireIs
  <2> HIDE DEF w, p
  <2>2. p \in Cases
    BY <1>3 DEF p
  <2>3. QED
    BY <2>1, <2>2
<1> HIDE DEF w
<1>7. /\ w.cand[x].status = "rejected" /\ w.cand[x].case = mem.cand[x].case
      /\ w.cand[x].support = mem.cand[x].support /\ w.cand[x].pkg = mem.cand[x].pkg
      /\ \A y \in Candidates : y # x => w.cand[y] = mem.cand[y]
      /\ \A q \in Cases : w.pkg[q].cand = mem.pkg[q].cand /\ (q # p => w.pkg[q] = mem.pkg[q])
  BY <1>4, <1>6 DEF Sets
<1>8. \A q \in Cases : w.pkg[q].status = "active" => q # p /\ w.pkg[q].cand # x
  BY <1>1, <1>6, <1>7 DEF ShadowPair, Sound, Filled
<1> HIDE DEF p
<1>9. Rooted(w)
  BY <1>1, <1>7 DEF Sound, Rooted, ShadowPair
<1>10. Filled(w)
  BY <1>1, <1>7, <1>8 DEF Sound, Filled
<1>11. Shadowed(w)
  <2> SUFFICES ASSUME NEW y \in Candidates, w.cand[y].status = "shadow"
               PROVE  LET d == w.cand[y].case IN
                      w.cand[y].pkg = d /\ w.pkg[d].cand = y /\ w.pkg[d].status = "shadow"
    BY DEF Shadowed
  <2> DEFINE d == mem.cand[y].case
  <2>1. y # x /\ w.cand[y] = mem.cand[y]
    BY <1>7
  <2>2. d \in Cases /\ mem.cand[y].pkg = d /\ mem.pkg[d].cand = y /\ mem.pkg[d].status = "shadow"
    BY <1>1, <2>1 DEF Sound, Rooted, Shadowed
  <2>3. d # p
    BY <1>3, <2>1, <2>2
  <2>4. QED
    BY <1>7, <2>1, <2>2, <2>3
<1>12. Single(w)
  BY <1>1, <1>7, <1>8 DEF Sound, Single
<1>13. Confirmed(w, review)
  BY <1>1, <1>7 DEF Confirmed, LiveStatus
<1>14. QED
  BY <1>1, <1>2, <1>9, <1>10, <1>11, <1>12, <1>13 DEF Settled, Sound

LEMMA SettledBooks ==
    ASSUME TInv, Settled
    PROVE  /\ mem \in Book /\ rows = mem /\ Sound(mem) /\ Confirmed(mem, review)
           /\ Both.mem \in Book /\ Both.rows = Both.mem /\ Both.mem = mem
           /\ Sound(Both.mem) /\ Confirmed(Both.mem, review)
BY BothGood DEF Settled

LEMMA AsideSettles ==
    ASSUME TInv, Settled, NEW x \in Candidates, NEW st \in {"failed", "rejected"}, NEW why \in Reasons,
           mem.cand[x].status \in {"ready", "failed"}, Store(Set(Both, {x}, st, why)), review' = review
    PROVE  Settled'
<1> DEFINE m == SetStatus(mem, {x}, st, why)
<1>1. mem' = m /\ rows' = m
  BY SettledBooks DEF Store, Set, Both
<1>2. Sets(m, mem, {x}, st, why)
  BY SettledBooks, SetStatusIs DEF CandStatus
<1> HIDE DEF m
<1>3. m \in Book
  BY <1>2 DEF Sets
<1>4. \A p \in Cases : mem.pkg[p].status = "active" => mem.pkg[p].cand # x
  BY SettledBooks, QueueHasNoPackage
<1>5. Sound(m) /\ Confirmed(m, review)
  BY <1>2, <1>3, <1>4, SettledBooks, AsideSound
<1>6. QED
  BY <1>1, <1>5 DEF Settled

LEMMA RetireSettles ==
    ASSUME TInv, Settled, NEW p \in Cases, Retire(p)
    PROVE  Settled'
<1> DEFINE t == RetireIn(mem, {p})
<1>1. mem' = t /\ rows' = t /\ review' = review /\ mem.pkg[p].status = "active"
  BY SettledBooks DEF Retire, Store, Drop, Both, caseVars
<1>2. Sound(t) /\ Confirmed(t, review)
  BY <1>1, SettledBooks, RetireSound
<1>3. QED
  BY <1>1, <1>2 DEF Settled

LEMMA DeleteSettles ==
    ASSUME TInv, Settled, NEW x \in Candidates, Delete(x)
    PROVE  Settled'
<1>1. mem \in Book /\ Sound(mem) /\ Confirmed(mem, review) /\ review' = review /\ rows' = mem'
  BY SettledBooks DEF Delete, caseVars
<1>2. Absent \in Candidate /\ Absent.status = "absent" /\ Absent.support = {}
  BY DEF Absent, Candidate, CandStatus, Reasons, Texts
<1>3. /\ mem' \in Book /\ mem'.pkg = mem.pkg /\ mem'.cand[x] = Absent
      /\ \A y \in Candidates : y # x => mem'.cand[y] = mem.cand[y]
  BY <1>1, <1>2, PutCandidate DEF Delete
<1>4. mem.cand[x].status \in {"failed", "rejected"}
  BY DEF Delete
<1>5. ASSUME NEW p \in Cases, mem.pkg[p].status = "active" PROVE mem.pkg[p].cand # x
  BY <1>1, <1>4, <1>5 DEF Sound, Filled
<1>6. Rooted(mem')
  BY <1>1, <1>2, <1>3 DEF Sound, Rooted
<1>7. Filled(mem')
  BY <1>1, <1>3, <1>5 DEF Sound, Filled
<1>8. Shadowed(mem')
  BY <1>1, <1>2, <1>3 DEF Sound, Shadowed
<1>9. Single(mem')
  BY <1>1, <1>3 DEF Sound, Single
<1>10. Confirmed(mem', review)
  BY <1>1, <1>2, <1>3 DEF Confirmed, LiveStatus
<1>11. QED
  BY <1>1, <1>6, <1>7, <1>8, <1>9, <1>10 DEF Settled, Sound

LEMMA CuratedSettles ==
    ASSUME TInv, Settled, NEW x \in Candidates, NEW text \in Texts, Curated(x, text), review' = review
    PROVE  Settled'
<1>1. mem \in Book /\ Sound(mem) /\ Confirmed(mem, review) /\ rows' = mem'
  BY SettledBooks DEF Curated
<1>2. /\ mem'.pkg = mem.pkg /\ \A y \in Candidates \ {x} : mem'.cand[y] = mem.cand[y]
      /\ mem'.cand[x].status = mem.cand[x].status
      /\ mem'.cand[x].case = mem.cand[x].case /\ mem'.cand[x].support = mem.cand[x].support
      /\ mem'.cand[x].pkg = mem.cand[x].pkg
  BY <1>1, TextIs DEF Curated
<1>3. ASSUME NEW y \in Candidates
      PROVE  /\ mem'.cand[y].status = mem.cand[y].status /\ mem'.cand[y].case = mem.cand[y].case
             /\ mem'.cand[y].support = mem.cand[y].support /\ mem'.cand[y].pkg = mem.cand[y].pkg
  BY <1>2
<1>4. Sound(mem')
  BY <1>1, <1>2, <1>3 DEF Sound, Rooted, Filled, Shadowed, Single
<1>5. Confirmed(mem', review)
  BY <1>1, <1>3 DEF Confirmed
<1>6. QED
  BY <1>1, <1>4, <1>5 DEF Settled

\* Approving a case links its candidate; one is minted only where there is none.
LEMMA ApproveSettles ==
    ASSUME OwnContent, TInv, Settled, ~Fail(1), NEW i \in Incidents, ApproveNew(i) \/ ApproveAgain(i)
    PROVE  Settled'
<1> DEFINE c == run[i].case
           x == Recompute(review, c)
           t == LinkIn(mem, c, x)
           mint == Supporting(mem, c) = {} /\ x # NoCand
<1>1. c \in Cases /\ review' = review
  BY DEF ApproveNew, ApproveAgain, TInv, TypeOK, RunNamed
<1>2. mem \in Book /\ rows = mem /\ Sound(mem) /\ Confirmed(mem, review)
  BY SettledBooks
<1>3. CASE UNCHANGED <<mem, rows>>
  BY <1>1, <1>2, <1>3 DEF Settled
<1>4. CASE x # NoCand /\ mem' = t /\ rows' = t
  <2>1. x \in Candidates
    BY <1>1, <1>4, RecomputeType
  <2>2. Sound(t) /\ Confirmed(t, review)
    BY <1>1, <1>2, <2>1, LinkSound
  <2>3. QED
    BY <1>1, <1>4, <2>2 DEF Settled
<1>5. CASE mint /\ mem' = [mem EXCEPT !.cand[x] = NewCandidate(c, x)] /\ rows' = LinkIn(rows, c, x)
  <2>1. x \in Candidates /\ Owns(c, x)
    BY <1>1, <1>5, RecomputeType, RecomputeOwns
  <2>2. mem.cand[x].status = "absent"
    <3>1. c \notin mem.cand[x].support
      BY <1>5, <2>1 DEF Supporting
    <3> HIDE DEF c, x
    <3>2. QED
      BY <1>1, <1>2, <2>1, <3>1 DEF Sound, Rooted, OwnContent
  <2>3. mem' = t /\ rows' = t
    BY <1>2, <1>5, <2>2 DEF LinkIn
  <2>4. QED
    BY <1>4, <1>5, <2>3
<1>6. ApproveNew(i) => UNCHANGED <<mem, rows>> \/ (x # NoCand /\ mem' = t /\ rows' = t)
  BY <1>2 DEF ApproveNew, Store, Link, Both, bookVars
<1>7. ApproveAgain(i) =>
        \/ UNCHANGED <<mem, rows>>
        \/ mint /\ mem' = [mem EXCEPT !.cand[x] = NewCandidate(c, x)] /\ rows' = LinkIn(rows, c, x)
  BY DEF ApproveAgain, bookVars
<1>8. QED
  BY <1>3, <1>4, <1>5, <1>6, <1>7

\* A review withdraws and generates with all its transactions.
LEMMA ReviewSettles ==
    ASSUME OwnContent, TInv, Settled, faults' = 0,
           NEW i \in Incidents, NEW r \in Reviewers, NEW kind \in ReviewKinds, SaveReview(i, r, kind)
    PROVE  Settled'
<1> DEFINE c == run[i].case
           R == [review EXCEPT ![c][r] = kind]
           x == Recompute(R, c)
           X == (Supporting(mem, c) \cup {x}) \ {NoCand}
           w == Invalidated(Both, R, c, {})
           g == Generated(w, R, c, {})
<1>1. c \in Cases /\ review' = R
  BY DEF SaveReview, TInv, TypeOK
<1>2. \A d \in Cases \ {c} : R[d] = review[d]
  BY <1>1 DEF TInv, TypeOK
<1>3. X \in SUBSET Candidates
  BY <1>1, RecomputeType DEF Supporting
<1>4. PICK lost \in Losable(X) :
        /\ Store(IF kind \in Successes THEN Generated(Invalidated(Both, R, c, lost), R, c, lost)
                 ELSE Invalidated(Both, R, c, lost))
        /\ Fail(Cardinality(lost))
  BY DEF SaveReview
<1>5. lost = {}
  <2>1. lost \in SUBSET X
    BY DEF Losable
  <2>2. Cardinality(lost) \in Nat /\ (Cardinality(lost) = 0 => lost = {})
    BY <1>3, <2>1, LostIsCounted
  <2>3. QED
    BY <1>4, <2>2, FaultCount DEF TInv, TypeOK
<1>6. Store(IF kind \in Successes THEN g ELSE w)
  BY <1>4, <1>5
<1> HIDE DEF c, R, X
<1>7. w.mem \in Book /\ w.rows = w.mem /\ Sound(w.mem) /\ Confirmed(w.mem, R)
  BY <1>1, <1>2, SettledBooks, InvalidatedSound
<1> HIDE DEF w
<1>8. g.mem \in Book /\ g.rows = g.mem /\ Sound(g.mem) /\ Confirmed(g.mem, R)
  BY <1>1, <1>7, GeneratedSound
<1> HIDE DEF g
<1>9. QED
  BY <1>1, <1>6, <1>7, <1>8 DEF Store, Settled

\* So does the release of a superseded approval.
LEMMA ReleaseSettles ==
    ASSUME OwnContent, TInv, Settled, faults' = 0,
           NEW i \in Incidents, NEW c \in Cases, AutoRevoke(i, c)
    PROVE  Settled'
<1> DEFINE old == active[i]
           R == [review EXCEPT ![old] = [r \in Reviewers |-> "none"]]
           w == Invalidated(Both, R, old, {})
<1>1. CASE UNCHANGED <<mem, rows, review>>
  BY <1>1 DEF Settled
<1>2. CASE old \in Cases /\ \E lost \in Losable(Supporting(mem, old)) : ReleaseSuperseded(i, old, lost)
  <2>1. PICK lost \in Losable(Supporting(mem, old)) : ReleaseSuperseded(i, old, lost)
    BY <1>2
  <2>2. lost = {}
    <3>1. Supporting(mem, old) \in SUBSET Candidates /\ lost \in SUBSET Supporting(mem, old)
      BY DEF Losable, Supporting
    <3>2. Cardinality(lost) \in Nat /\ (Cardinality(lost) = 0 => lost = {})
      BY <3>1, LostIsCounted
    <3>3. QED
      BY <2>1, <3>2, FaultCount DEF ReleaseSuperseded, TInv, TypeOK
  <2>3. Store(w) /\ review' = R
    BY <2>1, <2>2 DEF ReleaseSuperseded
  <2>4. \A d \in Cases \ {old} : R[d] = review[d]
    BY <1>2 DEF TInv, TypeOK
  <2> HIDE DEF old, R
  <2>5. w.mem \in Book /\ w.rows = w.mem /\ Sound(w.mem) /\ Confirmed(w.mem, R)
    BY <1>2, <2>4, SettledBooks, InvalidatedSound
  <2> HIDE DEF w
  <2>6. QED
    BY <2>3, <2>5 DEF Store, Settled
<1>3. old \in Cases \cup {NoCase}
  BY DEF TInv, TypeOK
<1>4. QED
  BY <1>1, <1>2, <1>3 DEF AutoRevoke, caseVars, bookVars

Undisturbed == faults = 0 => Settled

LEMMA SettledStep ==
    ASSUME OwnContent, TInv, Undisturbed, [Next]_vars
    PROVE  Undisturbed'
<1> SUFFICES ASSUME faults' = 0 PROVE Settled'
  BY DEF Undisturbed
<1>1. faults = 0 /\ Settled
  BY FaultsStep DEF Undisturbed
<1>2. ~Fail(1)
  BY <1>1, FaultCount DEF TInv, TypeOK
<1>3. CASE UNCHANGED <<mem, rows, review>>
  BY <1>1, <1>3 DEF Settled
<1>4. ASSUME NEW i \in Incidents,
             \/ StartRun(i) \/ FailRun(i) \/ ApprovePlain(i) \/ Unapprove(i)
             \/ \E c \in Cases : CompleteRun(i, c)
      PROVE  UNCHANGED <<mem, rows, review>>
  BY <1>4 DEF StartRun, FailRun, ApprovePlain, Unapprove, CompleteRun, caseVars, bookVars
<1>5. ASSUME NEW x \in Candidates,
             (\E to \in Published : CheckStart(x, to)) \/ CheckFails(x) \/ RefineStart(x)
      PROVE  UNCHANGED <<mem, rows, review>>
  BY <1>5 DEF CheckStart, CheckFails, RefineStart, caseVars, bookVars
<1>6. ASSUME NEW x \in Candidates, Reject(x) \/ CheckRejects(x) PROVE Settled'
  BY <1>1, <1>3, <1>6, AsideSettles DEF Reject, CheckRejects, caseVars, bookVars, Reasons
<1>7. ASSUME NEW x \in Candidates, EditActions(x) \/ RefineEnd(x) PROVE Settled'
  BY <1>1, <1>3, <1>7, CuratedSettles DEF EditActions, RefineEnd, caseVars, bookVars, Texts
<1>8. QED
  BY <1>1, <1>2, <1>3, <1>4, <1>5, <1>6, <1>7, ApproveSettles, ReviewSettles, ReleaseSettles,
     PublishSettles, ActivateSettles, RejectShadowSettles, DeleteSettles, RetireSettles
     DEF Next, Restart, vars, caseVars, bookVars

LEMMA SettledInit == Init => Undisturbed
<1> SUFFICES ASSUME Init PROVE Settled
  BY DEF Undisturbed
<1>1. /\ \A x \in Candidates : mem.cand[x] = Absent
      /\ \A p \in Cases : mem.pkg[p] = NoPackage
      /\ rows = mem
  BY DEF Init
<1>2. Absent.status = "absent" /\ Absent.support = {} /\ NoPackage.status = "none" /\ NoPackage.cand = NoCand
  BY DEF Absent, NoPackage
<1>3. Sound(mem)
  BY <1>1, <1>2, CaseKnowledgeAssumption DEF Sound, Rooted, Filled, Shadowed, Single
<1>4. Confirmed(mem, review)
  BY <1>1, <1>2 DEF Confirmed, LiveStatus
<1>5. QED
  BY <1>1, <1>3, <1>4 DEF Settled

LEMMA AlwaysUndisturbed ==
    ASSUME OwnContent
    PROVE  Spec => []Undisturbed
<1>1. TInv /\ Undisturbed /\ [Next]_vars => Undisturbed'
  BY SettledStep
<1>2. QED
  BY <1>1, SettledInit, TInvInit, TInvStep, PTL DEF Spec

\* Where no two cases compile to the same content, at most one package of a
\* family and mechanism is active while every transaction succeeds, for any
\* cases, candidates and reviewers (knowledge.go:1516, 1640).
THEOREM OneActivePackageHolds ==
    ASSUME OwnContent
    PROVE  Spec => [](faults = 0 => OneActivePackage)
<1>1. Undisturbed => (faults = 0 => OneActivePackage)
  BY DEF Undisturbed, Settled, Sound, Single, OneActivePackage
<1>2. QED
  BY <1>1, AlwaysUndisturbed, PTL

\* There, a candidate under review or in use is confirmed by the reviews of
\* every case that supports it (evaluation.go:451).
THEOREM LiveIsConfirmedHolds ==
    ASSUME OwnContent
    PROVE  Spec => []LiveIsConfirmed
<1>1. Undisturbed => LiveIsConfirmed
  BY DEF Undisturbed, Settled, Confirmed, LiveIsConfirmed
<1>2. QED
  BY <1>1, AlwaysUndisturbed, PTL

-----------------------------------------------------------------------------
(* There, whichever transactions fail *)

\* What is shadow or active is in the package of its case.
Placed(b) ==
    \A p \in Cases : LET g == b.pkg[p] IN
       g.status \in Published =>
          g.cand \in Candidates /\ b.cand[g.cand].status \in Published /\ b.cand[g.cand].pkg = p

Housed(b) == Rooted(b) /\ Placed(b)

\* Whatever leaves the queue as superseded leaves a candidate of its case.
Replaces(b, t) ==
    \A x \in Candidates :
       b.cand[x].status = "failed" /\ t.cand[x].status = "superseded"
       => \E y \in Candidates \ {x} : t.cand[y].support \cap b.cand[x].support # {}

LEMMA Unpublished ==
    ASSUME NEW b, Housed(b), NEW x, b.cand[x].status \notin Published
    PROVE  \A p \in Cases : b.pkg[p].status \in Published => b.pkg[p].cand # x
BY DEF Housed, Placed

LEMMA AsideHoused ==
    ASSUME NEW b \in Book, NEW t, NEW X, NEW st \in {"failed", "rejected", "superseded"}, NEW why,
           Housed(b), Sets(t, b, X, st, why),
           \A x \in Candidates : x \in X =>
              /\ b.cand[x].status # "absent"
              /\ \A p \in Cases : b.pkg[p].status \in Published => b.pkg[p].cand # x
    PROVE  Housed(t)
<1>1. ASSUME NEW x \in Candidates
      PROVE  /\ t.cand[x].case = b.cand[x].case /\ t.cand[x].support = b.cand[x].support
             /\ t.cand[x].pkg = b.cand[x].pkg
             /\ x \in X => t.cand[x].status = st
             /\ x \notin X => t.cand[x].status = b.cand[x].status
  BY DEF Sets
<1>2. t.pkg = b.pkg
  BY DEF Sets
<1>3. Rooted(t)
  BY <1>1 DEF Housed, Rooted
<1>4. Placed(t)
  BY <1>1, <1>2 DEF Housed, Placed
<1>5. QED
  BY <1>3, <1>4 DEF Housed

LEMMA RetireHoused ==
    ASSUME NEW b \in Book, NEW P, Housed(b), NEW t, t = RetireIn(b, P)
    PROVE  Housed(t)
<1>1. /\ t.cand = b.cand
      /\ \A p \in Cases : p \in P => t.pkg[p].status = "retired"
      /\ \A p \in Cases : p \notin P => t.pkg[p] = b.pkg[p]
  BY RetireIs
<1>2. Rooted(t)
  BY <1>1 DEF Housed, Rooted
<1>3. Placed(t)
  BY <1>1 DEF Housed, Placed, Published
<1>4. QED
  BY <1>2, <1>3 DEF Housed

LEMMA LinkHoused ==
    ASSUME OwnContent, NEW b \in Book, NEW c \in Cases, NEW x \in Candidates, Owns(c, x), Housed(b),
           NEW t, t = LinkIn(b, c, x)
    PROVE  /\ t \in Book /\ Housed(t) /\ c \in t.cand[x].support
           /\ \A y \in Candidates :
                 b.cand[y].status = "failed" => t.cand[y].status = "failed" /\ t.cand[y].support = b.cand[y].support
<1> DEFINE n == NewCandidate(c, x)
<1>1. n.status \in {"ready", "failed"} /\ n.case = c /\ n.support = {c} /\ n.pkg = NoCase
  BY DEF NewCandidate
<1> HIDE DEF n
<1>2. t \in Book /\ t.pkg = b.pkg /\ \A y \in Candidates : y # x => t.cand[y] = b.cand[y]
  BY LinkIs
<1>3. CASE b.cand[x].status = "absent"
  <2>1. t.cand[x] = n
    BY <1>3, LinkIs DEF n
  <2>2. \A p \in Cases : b.pkg[p].status \in Published => b.pkg[p].cand # x
    BY <1>3, Unpublished DEF Published
  <2>3. Rooted(t)
    BY <1>1, <1>2, <2>1 DEF Housed, Rooted
  <2>4. Placed(t)
    BY <1>2, <2>2 DEF Housed, Placed
  <2>5. QED
    BY <1>1, <1>2, <1>3, <2>1, <2>3, <2>4 DEF Housed
<1>4. CASE b.cand[x].status # "absent"
  <2>1. b.cand[x].case = c /\ b.cand[x].support = {c}
    BY <1>4 DEF Housed, Rooted, OwnContent
  <2>2. ASSUME NEW y \in Candidates
        PROVE  /\ t.cand[y].status = b.cand[y].status /\ t.cand[y].case = b.cand[y].case
               /\ t.cand[y].pkg = b.cand[y].pkg /\ t.cand[y].support = b.cand[y].support
    <3>1. CASE y = x
      <4>1. t.cand[x].support = b.cand[x].support \cup {c}
        BY <1>4, LinkIs
      <4>2. t.cand[x].support = b.cand[x].support
        BY <2>1, <4>1
      <4>3. QED
        BY <1>4, <3>1, <4>2, LinkIs
    <3>2. CASE y # x
      BY <1>2, <3>2
    <3>3. QED
      BY <3>1, <3>2
  <2>3. Rooted(t)
    BY <2>2 DEF Housed, Rooted
  <2>4. Placed(t)
    BY <1>2, <2>2 DEF Housed, Placed
  <2>5. QED
    BY <1>2, <2>1, <2>2, <2>3, <2>4 DEF Housed
<1>5. QED
  BY <1>3, <1>4

LEMMA ReviveHoused ==
    ASSUME NEW b \in Book, NEW x \in Candidates, Housed(b), b.cand[x].status \in {"failed", "superseded"},
           NEW t, t = ReviveIn(b, x)
    PROVE  /\ t \in Book /\ Housed(t)
           /\ \A y \in Candidates : t.cand[y].support = b.cand[y].support
                                    /\ t.cand[y].status \in {b.cand[y].status, "ready"}
<1>1. /\ t \in Book /\ t.pkg = b.pkg /\ \A y \in Candidates : y # x => t.cand[y] = b.cand[y]
      /\ t.cand[x].status = "ready" /\ t.cand[x].pkg = NoCase
      /\ t.cand[x].case = b.cand[x].case /\ t.cand[x].support = b.cand[x].support
  BY ReviveIs
<1>2. \A p \in Cases : b.pkg[p].status \in Published => b.pkg[p].cand # x
  BY Unpublished DEF Published
<1>3. Rooted(t)
  BY <1>1 DEF Housed, Rooted
<1>4. Placed(t)
  BY <1>1, <1>2 DEF Housed, Placed
<1>5. QED
  BY <1>1, <1>3, <1>4 DEF Housed

\* Withdrawing, whichever transactions fail.
LEMMA InvalidatedHoused ==
    ASSUME NEW s, s.mem \in Book, s.rows = s.mem, Housed(s.mem), NEW R, NEW c, NEW lost,
           NEW t, t = Invalidated(s, R, c, lost)
    PROVE  /\ t.mem \in Book /\ t.rows = t.mem /\ Housed(t.mem)
           /\ \A x \in Candidates : t.mem.cand[x].support = s.mem.cand[x].support
                                    /\ t.mem.cand[x].status \in {s.mem.cand[x].status, "failed"}
<1> DEFINE b == s.mem
           gone == {x \in Supporting(b, c) \ lost : b.cand[x].status \in LiveStatus}
           pkgs == {p \in Cases : b.pkg[p].status \in Published /\ \E x \in gone : b.cand[x].pkg = p}
           m == SetStatus(b, gone, "failed", "review")
           w == RetireIn(m, pkgs)
<1>1. CASE Promotable(R, c)
  BY <1>1 DEF Invalidated
<1>2. CASE ~Promotable(R, c)
  <2>1. t.mem = w /\ t.rows = w
    BY <1>2 DEF Invalidated, Drop, Set
  <2>2. gone \subseteq Candidates /\ \A x \in gone : b.cand[x].status \in LiveStatus
    BY DEF Supporting
  <2>3. \A p \in Cases : p \notin pkgs /\ b.pkg[p].status \in Published => \A x \in gone : b.cand[x].pkg # p
    OBVIOUS
  <2> HIDE DEF gone
  <2>4. Sets(m, b, gone, "failed", "review")
    BY SetStatusIs DEF CandStatus, Reasons
  <2>5. m \in Book /\ m.pkg = b.pkg
    BY <2>4 DEF Sets
  <2>6. ASSUME NEW x \in Candidates
        PROVE  /\ m.cand[x].case = b.cand[x].case /\ m.cand[x].support = b.cand[x].support
               /\ m.cand[x].pkg = b.cand[x].pkg
               /\ x \in gone => m.cand[x].status = "failed"
               /\ x \notin gone => m.cand[x].status = b.cand[x].status
    BY <2>4 DEF Sets
  <2> HIDE DEF pkgs, m
  <2>7. /\ w \in Book /\ w.cand = m.cand
        /\ \A p \in Cases : p \notin pkgs => w.pkg[p] = b.pkg[p]
        /\ \A p \in Cases : p \in pkgs => w.pkg[p].status = "retired"
    BY <2>5, RetireIs
  <2> HIDE DEF w
  <2>8. Rooted(w)
    BY <2>2, <2>6, <2>7 DEF Housed, Rooted, LiveStatus
  <2>9. Placed(w)
    <3> SUFFICES ASSUME NEW p \in Cases, w.pkg[p].status \in Published
                 PROVE  LET y == w.pkg[p].cand IN
                        y \in Candidates /\ w.cand[y].status \in Published /\ w.cand[y].pkg = p
      BY DEF Placed
    <3>1. p \notin pkgs /\ w.pkg[p] = b.pkg[p]
      BY <2>7 DEF Published
    <3>2. b.pkg[p].cand \in Candidates /\ b.cand[b.pkg[p].cand].status \in Published /\ b.cand[b.pkg[p].cand].pkg = p
      BY <3>1 DEF Housed, Placed
    <3>3. b.pkg[p].cand \notin gone
      BY <2>3, <3>1, <3>2
    <3>4. QED
      BY <2>6, <2>7, <3>1, <3>2, <3>3
  <2>10. QED
    BY <2>1, <2>6, <2>7, <2>8, <2>9 DEF Housed
<1>3. QED
  BY <1>1, <1>2

LEMMA SupersedeHoused ==
    ASSUME NEW s, s.mem \in Book, s.rows = s.mem, Housed(s.mem), NEW c, NEW keep, NEW lost,
           NEW t, t = SupersedeStale(s, c, keep, lost)
    PROVE  /\ t.mem \in Book /\ t.rows = t.mem /\ Housed(t.mem)
           /\ \A x \in Candidates :
                 /\ t.mem.cand[x].support = s.mem.cand[x].support
                 /\ t.mem.cand[x].status = s.mem.cand[x].status \/ (x # keep /\ c \in s.mem.cand[x].support)
<1> DEFINE stale == {x \in Supporting(s.mem, c) \ (lost \cup {keep}) : s.mem.cand[x].status = "failed"}
           m == SetStatus(s.mem, stale, "superseded", "")
<1>1. t.mem = m /\ t.rows = m
  BY DEF SupersedeStale, Set
<1>2. \A x \in stale : s.mem.cand[x].status = "failed" /\ x # keep /\ c \in s.mem.cand[x].support
  BY DEF Supporting
<1> HIDE DEF stale
<1>3. Sets(m, s.mem, stale, "superseded", "")
  BY SetStatusIs DEF CandStatus, Reasons
<1> HIDE DEF m
<1>4. \A x \in Candidates : x \in stale =>
         /\ s.mem.cand[x].status # "absent"
         /\ \A p \in Cases : s.mem.pkg[p].status \in Published => s.mem.pkg[p].cand # x
  BY <1>2, Unpublished DEF Published
<1>5. Housed(m)
  BY <1>3, <1>4, AsideHoused
<1>6. QED
  BY <1>1, <1>2, <1>3, <1>5 DEF Sets

LEMMA GeneratedHoused ==
    ASSUME OwnContent, NEW s, s.mem \in Book, s.rows = s.mem, Housed(s.mem),
           NEW R, NEW c \in Cases, NEW lost,
           NEW t, t = Generated(s, R, c, lost)
    PROVE  t.mem \in Book /\ t.rows = t.mem /\ Housed(t.mem) /\ Replaces(s.mem, t.mem)
<1> DEFINE x == Recompute(R, c)
           a == Set(s, {x}, "failed", "compile")
           b == Revive(s, x)
           d == Link(s, c, x)
<1>1. CASE t = s
  BY <1>1 DEF Replaces
<1>2. ASSUME NEW u, u.mem \in Book, u.rows = u.mem, Housed(u.mem), c \in u.mem.cand[x].support,
             \A y \in Candidates : s.mem.cand[y].status = "failed" =>
                u.mem.cand[y].status # "superseded" /\ u.mem.cand[y].support = s.mem.cand[y].support,
             x \in Candidates, t = SupersedeStale(u, c, x, lost)
      PROVE  t.mem \in Book /\ t.rows = t.mem /\ Housed(t.mem) /\ Replaces(s.mem, t.mem)
  <2> HIDE DEF x
  <2>1. /\ t.mem \in Book /\ t.rows = t.mem /\ Housed(t.mem)
        /\ \A y \in Candidates :
              /\ t.mem.cand[y].support = u.mem.cand[y].support
              /\ t.mem.cand[y].status = u.mem.cand[y].status \/ (y # x /\ c \in u.mem.cand[y].support)
    BY <1>2, SupersedeHoused
  <2>2. c \in t.mem.cand[x].support
    BY <1>2, <2>1
  <2>3. ASSUME NEW y \in Candidates, s.mem.cand[y].status = "failed", t.mem.cand[y].status = "superseded"
        PROVE  x # y /\ c \in s.mem.cand[y].support
    BY <1>2, <2>1, <2>3
  <2>4. Replaces(s.mem, t.mem)
    BY <1>2, <2>2, <2>3 DEF Replaces
  <2>5. QED
    BY <2>1, <2>4
<1>3. CASE t # s
  <2>1. x # NoCand
    BY <1>3 DEF Generated
  <2>2. x \in Candidates
    BY <2>1, RecomputeType
  <2>3. Owns(c, x)
    BY <2>2, RecomputeOwns
  <2>4. \/ s.mem.cand[x].status = "failed" /\ t = SupersedeStale(a, c, x, lost)
        \/ Revivable(s, x) /\ t = SupersedeStale(b, c, x, lost)
        \/ t = SupersedeStale(d, c, x, lost)
    BY <1>3 DEF Generated
\* A candidate of the case is supported by it.
  <2>5. s.mem.cand[x].status # "absent" => c \in s.mem.cand[x].support
    <3> HIDE DEF x
    <3>1. QED
      BY <2>2, <2>3 DEF Housed, Rooted, OwnContent
  <2>6. CASE s.mem.cand[x].status = "failed" /\ t = SupersedeStale(a, c, x, lost)
    <3> DEFINE m == SetStatus(s.mem, {x}, "failed", "compile")
    <3>1. a.mem = m /\ a.rows = m
      BY DEF Set
    <3>2. Sets(m, s.mem, {x}, "failed", "compile")
      BY SetStatusIs DEF CandStatus, Reasons
    <3> HIDE DEF m, a
    <3>3. \A y \in Candidates : /\ m.cand[y].support = s.mem.cand[y].support
                                /\ m.cand[y].status = s.mem.cand[y].status
      <4> HIDE DEF x
      <4>1. QED
        BY <2>6, <3>2 DEF Sets
    <3>4. m \in Book
      BY <3>2 DEF Sets
    <3>5. \A y \in Candidates : y \in {x} =>
              /\ s.mem.cand[y].status # "absent"
              /\ \A p \in Cases : s.mem.pkg[p].status \in Published => s.mem.pkg[p].cand # y
      <4> HIDE DEF x
      <4>1. QED
        BY <2>6, Unpublished DEF Published
    <3>6. Housed(m)
      <4> HIDE DEF x
      <4>1. QED
        BY <3>2, <3>5, AsideHoused
    <3>7. /\ a.mem \in Book /\ a.rows = a.mem /\ Housed(a.mem) /\ c \in a.mem.cand[x].support
          /\ \A y \in Candidates : s.mem.cand[y].status = "failed" =>
                a.mem.cand[y].status # "superseded" /\ a.mem.cand[y].support = s.mem.cand[y].support
      <4> HIDE DEF x
      <4>1. QED
        BY <2>2, <2>5, <2>6, <3>1, <3>3, <3>4, <3>6
    <3>8. QED
      BY <1>2, <2>2, <2>6, <3>7
  <2>7. CASE Revivable(s, x) /\ t = SupersedeStale(b, c, x, lost)
    <3> DEFINE m == ReviveIn(s.mem, x)
    <3>1. b.mem = m /\ b.rows = m
      BY DEF Revive
    <3>2. s.mem.cand[x].status \in {"failed", "superseded"}
      BY <2>7 DEF Revivable
    <3>3. m = ReviveIn(s.mem, x)
      OBVIOUS
    <3> HIDE DEF m, b
    <3>4. /\ m \in Book /\ Housed(m)
          /\ \A y \in Candidates : m.cand[y].support = s.mem.cand[y].support
                                   /\ m.cand[y].status \in {s.mem.cand[y].status, "ready"}
      <4> HIDE DEF x
      <4>1. QED
        BY <2>2, <3>2, <3>3, ReviveHoused
    <3>5. /\ b.mem \in Book /\ b.rows = b.mem /\ Housed(b.mem) /\ c \in b.mem.cand[x].support
          /\ \A y \in Candidates : s.mem.cand[y].status = "failed" =>
                b.mem.cand[y].status # "superseded" /\ b.mem.cand[y].support = s.mem.cand[y].support
      <4> HIDE DEF x
      <4>1. QED
        BY <2>2, <2>5, <3>1, <3>2, <3>4
    <3>6. QED
      BY <1>2, <2>2, <2>7, <3>5
  <2>8. CASE t = SupersedeStale(d, c, x, lost)
    <3> DEFINE m == LinkIn(s.mem, c, x)
    <3>1. d.mem = m /\ d.rows = m
      BY DEF Link
    <3>2. m = LinkIn(s.mem, c, x)
      OBVIOUS
    <3> HIDE DEF m, d
    <3>3. /\ m \in Book /\ Housed(m) /\ c \in m.cand[x].support
          /\ \A y \in Candidates : s.mem.cand[y].status = "failed" =>
                m.cand[y].status = "failed" /\ m.cand[y].support = s.mem.cand[y].support
      <4> HIDE DEF x
      <4>1. QED
        BY <2>2, <2>3, <3>2, LinkHoused
    <3>4. /\ d.mem \in Book /\ d.rows = d.mem /\ Housed(d.mem) /\ c \in d.mem.cand[x].support
          /\ \A y \in Candidates : s.mem.cand[y].status = "failed" =>
                d.mem.cand[y].status # "superseded" /\ d.mem.cand[y].support = s.mem.cand[y].support
      BY <3>1, <3>3
    <3>5. QED
      BY <1>2, <2>2, <2>8, <3>4
  <2>9. QED
    BY <2>4, <2>6, <2>7, <2>8
<1>4. QED
  BY <1>1, <1>3

\* Making room: only what is published gives way.
LEMMA PriorHoused ==
    ASSUME mem \in Book, Housed(mem), NEW P \in SUBSET Cases, \A p \in P : mem.pkg[p].status = "active"
    PROVE  LET t == SupersedePrior(mem, P) IN
           /\ t \in Book /\ Housed(t)
           /\ \A x \in Candidates :
                 /\ t.cand[x].case = mem.cand[x].case /\ t.cand[x].support = mem.cand[x].support
                 /\ t.cand[x].pkg = mem.cand[x].pkg
                 /\ mem.cand[x].status \notin Published => t.cand[x].status = mem.cand[x].status
           /\ \A p \in Cases : p \notin P => t.pkg[p] = mem.pkg[p]
<1> DEFINE r == RetireIn(mem, P)
           Y == {y \in {mem.pkg[p].cand : p \in P} : mem = mem \/ mem.cand[y].status = "active"}
           t == SupersedePrior(mem, P)
<1>1. r \in Book /\ Housed(r) /\ r.cand = mem.cand
  BY RetireIs, RetireHoused
<1>2. \A p \in Cases : /\ p \notin P => r.pkg[p] = mem.pkg[p]
                       /\ p \in P => r.pkg[p].status = "retired"
  BY RetireIs
<1>3. t \in Book /\ Sets(t, r, Y, "superseded", "")
  BY PriorIs
<1>4. \A y \in Candidates : y \in Y => \E p \in P : mem.pkg[p].cand = y
  OBVIOUS
<1> HIDE DEF r, Y, t
<1>5. ASSUME NEW y \in Candidates, y \in Y
      PROVE  /\ mem.cand[y].status \in Published
             /\ \A q \in Cases : r.pkg[q].status \in Published => r.pkg[q].cand # y
  <2>1. PICK p \in P : mem.pkg[p].cand = y
    BY <1>4, <1>5
  <2>2. mem.cand[y].status \in Published /\ mem.cand[y].pkg = p
    BY <2>1 DEF Housed, Placed, Published
  <2>3. ASSUME NEW q \in Cases, r.pkg[q].status \in Published, r.pkg[q].cand = y PROVE FALSE
    <3>1. q = p
      BY <1>1, <2>2, <2>3 DEF Housed, Placed
    <3>2. QED
      BY <1>2, <2>3, <3>1 DEF Published
  <2>4. QED
    BY <2>2, <2>3
<1>6. Housed(t)
  <2>1. \A y \in Candidates : y \in Y =>
           /\ r.cand[y].status # "absent"
           /\ \A q \in Cases : r.pkg[q].status \in Published => r.pkg[q].cand # y
    BY <1>1, <1>5 DEF Published
  <2>2. QED
    BY <1>1, <1>3, <2>1, AsideHoused
<1>7. ASSUME NEW x \in Candidates
      PROVE  /\ t.cand[x].case = mem.cand[x].case /\ t.cand[x].support = mem.cand[x].support
             /\ t.cand[x].pkg = mem.cand[x].pkg
             /\ mem.cand[x].status \notin Published => t.cand[x].status = mem.cand[x].status
  BY <1>1, <1>3, <1>5 DEF Sets
<1>8. t.pkg = r.pkg
  BY <1>3 DEF Sets
<1>9. QED
  BY <1>2, <1>3, <1>6, <1>7, <1>8 DEF t

\* Rows and memory are equal and every package is in its place.
Matched == rows = mem /\ Housed(mem)

LEMMA PublishMatched ==
    ASSUME TInv, Matched, NEW x \in Candidates, CheckPasses(x)
    PROVE  Matched' /\ Replaces(mem, mem')
<1> DEFINE c == mem.cand[x].case
           to == checking[x].to
           mine == {p \in Cases : mem.pkg[p].cand = x}
           S == IF to = "active" THEN Priors(x, mine) ELSE {}
<1>1. PICK P \in Choices(S) :
         /\ mem' = PublishIn(SupersedePrior(mem, P), x, to)
         /\ rows' = PublishIn(SupersedePrior(rows, P), x, to)
  BY DEF CheckPasses
<1>2. to \in Published /\ Reviewable(mem.cand[x])
  BY DEF CheckPasses, TInv, Asked
<1>3. mem \in Book /\ rows = mem /\ Housed(mem)
  BY BothGood DEF Matched
<1>4. mem.cand[x].status \in {"ready", "failed"}
  BY <1>2 DEF Reviewable
<1>5. c \in Cases /\ Owns(c, x) /\ mem.cand[x].support = {c}
  BY <1>3, <1>4 DEF Housed, Rooted
<1>6. P \in SUBSET Cases /\ \A p \in P : mem.pkg[p].status = "active"
  BY <1>1, ChoicesAreSmall DEF Priors
<1> DEFINE b == SupersedePrior(mem, P)
<1>7. /\ b \in Book /\ Housed(b)
      /\ \A y \in Candidates :
            /\ b.cand[y].case = mem.cand[y].case /\ b.cand[y].support = mem.cand[y].support
            /\ mem.cand[y].status \notin Published => b.cand[y].status = mem.cand[y].status
  BY <1>3, <1>6, PriorHoused
<1> HIDE DEF b
<1>8. rows' = mem' /\ Publishes(mem', b, x, to)
  BY <1>1, <1>2, <1>3, <1>7, PublishIs DEF b
<1>9. /\ mem'.cand[x].status = to /\ mem'.cand[x].pkg = c /\ mem'.cand[x].case = c
      /\ mem'.cand[x].support = {c}
      /\ mem'.pkg[c].cand = x /\ mem'.pkg[c].status = to
      /\ \A y \in Candidates : y # x => mem'.cand[y] = b.cand[y]
      /\ \A p \in Cases : p # c => mem'.pkg[p] = b.pkg[p]
  BY <1>5, <1>7, <1>8 DEF Publishes
<1>10. \A p \in Cases : b.pkg[p].status \in Published => b.pkg[p].cand # x
  BY <1>4, <1>7, Unpublished DEF Published
<1>11. Rooted(mem')
  BY <1>2, <1>5, <1>7, <1>9 DEF Housed, Rooted, Published
<1>12. Placed(mem')
  <2> SUFFICES ASSUME NEW p \in Cases, mem'.pkg[p].status \in Published
               PROVE  LET y == mem'.pkg[p].cand IN
                      y \in Candidates /\ mem'.cand[y].status \in Published /\ mem'.cand[y].pkg = p
    BY DEF Placed
  <2>1. CASE p = c
    BY <1>2, <1>9, <2>1
  <2>2. CASE p # c
    BY <1>7, <1>9, <1>10, <2>2 DEF Housed, Placed
  <2>3. QED
    BY <2>1, <2>2
<1>13. Replaces(mem, mem')
  BY <1>2, <1>7, <1>9 DEF Replaces, Published
<1>14. QED
  BY <1>8, <1>11, <1>12, <1>13 DEF Matched, Housed

LEMMA MatchedBooks ==
    ASSUME TInv, Matched
    PROVE  /\ mem \in Book /\ rows = mem /\ Housed(mem)
           /\ Both.mem = mem /\ Both.rows = mem
BY BothGood DEF Matched, Both

LEMMA ActivateMatched ==
    ASSUME TInv, Matched, NEW x \in Candidates, Activate(x)
    PROVE  Matched' /\ Replaces(mem, mem')
<1> DEFINE p == mem.cand[x].pkg
           S == Priors(x, {p})
<1>1. PICK P \in Choices(S) :
        /\ mem' = [SupersedePrior(mem, P) EXCEPT !.cand[x].status = "active", !.pkg[p].status = "active"]
        /\ rows' = [SupersedePrior(rows, P) EXCEPT !.cand[x].status = "active", !.pkg[p].status = "active"]
  BY DEF Activate
<1>2. mem \in Book /\ rows = mem /\ Housed(mem) /\ ShadowPair(mem, x)
  BY MatchedBooks DEF Activate
<1>3. mem.cand[x].status = "shadow" /\ mem.cand[x].case = p /\ p \in Cases
      /\ mem.pkg[p].status = "shadow"
  BY <1>2 DEF ShadowPair, Housed, Rooted
<1>4. P \in SUBSET Cases /\ \A q \in P : mem.pkg[q].status = "active"
  BY <1>1, ChoicesAreSmall DEF Priors
<1> DEFINE b == SupersedePrior(mem, P)
<1>5. /\ b \in Book /\ Housed(b)
      /\ \A y \in Candidates :
            /\ b.cand[y].case = mem.cand[y].case /\ b.cand[y].support = mem.cand[y].support
            /\ b.cand[y].pkg = mem.cand[y].pkg
            /\ mem.cand[y].status \notin Published => b.cand[y].status = mem.cand[y].status
      /\ \A q \in Cases : q \notin P => b.pkg[q] = mem.pkg[q]
  BY <1>2, <1>4, PriorHoused
<1>6. mem' = [b EXCEPT !.cand[x].status = "active", !.pkg[p].status = "active"] /\ rows' = mem'
  BY <1>1, <1>2
<1> HIDE DEF b
<1>7. p \in Cases /\ p = mem.cand[x].pkg
  BY <1>3
<1> HIDE DEF p
<1>8. Activates(mem', b, x, p)
  BY <1>5, <1>6, <1>7, ActivateIs
<1>9. /\ mem'.cand[x].status = "active" /\ mem'.cand[x].pkg = p /\ mem'.cand[x].case = mem.cand[x].case
      /\ mem'.cand[x].support = mem.cand[x].support
      /\ mem'.pkg[p].cand = b.pkg[p].cand
      /\ \A y \in Candidates : y # x => mem'.cand[y] = b.cand[y]
      /\ \A q \in Cases : q # p => mem'.pkg[q] = b.pkg[q]
      /\ b.pkg[p].status = "shadow" /\ mem.cand[x].status = "shadow"
  BY <1>3, <1>4, <1>5, <1>7, <1>8 DEF Activates
<1>10. ASSUME NEW y \in Candidates
       PROVE  /\ mem'.cand[y].case = b.cand[y].case /\ mem'.cand[y].support = b.cand[y].support
              /\ mem'.cand[y].pkg = b.cand[y].pkg
              /\ mem'.cand[y].status \in {b.cand[y].status, "active"}
  BY <1>5, <1>7, <1>9
<1>11. Rooted(mem')
  <2>1. ASSUME NEW y \in Candidates PROVE (mem'.cand[y].status = "absent") <=> (b.cand[y].status = "absent")
    <3>1. CASE y = x
      <4>1. b.cand[x].case = mem.cand[x].case /\ b.cand[x].support = mem.cand[x].support
        BY <1>5
      <4>2. mem.cand[x].support # {}
        BY <1>2, <1>9 DEF Housed, Rooted
      <4>3. b.cand[x].status # "absent"
        BY <1>5, <4>1, <4>2 DEF Housed, Rooted
      <4>4. QED
        BY <1>9, <3>1, <4>3
    <3>2. CASE y # x
      BY <1>9, <3>2
    <3>3. QED
      BY <3>1, <3>2
  <2>2. QED
    BY <1>5, <1>10, <2>1 DEF Housed, Rooted
<1>12. Placed(mem')
  <2> SUFFICES ASSUME NEW q \in Cases, mem'.pkg[q].status \in Published
               PROVE  LET y == mem'.pkg[q].cand IN
                      y \in Candidates /\ mem'.cand[y].status \in Published /\ mem'.cand[y].pkg = q
    BY DEF Placed
  <2>1. mem'.pkg[q].cand = b.pkg[q].cand /\ b.pkg[q].status \in Published
    BY <1>9 DEF Published
  <2>2. QED
    BY <1>5, <1>10, <2>1 DEF Housed, Placed, Published
<1>13. Replaces(mem, mem')
  BY <1>5, <1>9 DEF Replaces, Published
<1>14. QED
  BY <1>6, <1>11, <1>12, <1>13 DEF Matched, Housed

LEMMA RejectShadowMatched ==
    ASSUME TInv, Matched, NEW x \in Candidates, RejectShadow(x)
    PROVE  Matched' /\ Replaces(mem, mem')
<1> DEFINE p == mem.cand[x].pkg
           m == SetStatus(mem, {x}, "rejected", "")
           w == RetireIn(m, {p})
<1>1. mem \in Book /\ rows = mem /\ Housed(mem) /\ ShadowPair(mem, x)
  BY MatchedBooks DEF RejectShadow
<1>2. mem' = w /\ rows' = w
  BY <1>1 DEF RejectShadow, Store, Drop, Set, Both
<1>3. Sets(m, mem, {x}, "rejected", "")
  BY <1>1, SetStatusIs DEF CandStatus, Reasons
<1> HIDE DEF m
<1>4. /\ w.cand = m.cand
      /\ \A q \in Cases : q \notin {p} => w.pkg[q] = m.pkg[q]
      /\ \A q \in Cases : q \in {p} => w.pkg[q].status = "retired"
  BY <1>3, RetireIs DEF Sets
<1> HIDE DEF w
<1>5. /\ w.cand[x].status = "rejected" /\ w.cand[x].case = mem.cand[x].case
      /\ w.cand[x].support = mem.cand[x].support /\ w.cand[x].pkg = mem.cand[x].pkg
      /\ \A y \in Candidates : y # x => w.cand[y] = mem.cand[y]
      /\ \A q \in Cases : w.pkg[q].status \in Published => q # p /\ w.pkg[q] = mem.pkg[q]
  BY <1>3, <1>4 DEF Sets, Published
<1>6. Rooted(w)
  BY <1>1, <1>5 DEF Housed, Rooted, ShadowPair
<1>7. Placed(w)
  BY <1>1, <1>5 DEF Housed, Placed
<1>8. Replaces(mem, w)
  BY <1>5 DEF Replaces
<1>9. QED
  BY <1>2, <1>6, <1>7, <1>8 DEF Matched, Housed

LEMMA AsideMatched ==
    ASSUME TInv, Matched, NEW x \in Candidates, NEW st \in {"failed", "rejected"}, NEW why \in Reasons,
           mem.cand[x].status \in {"ready", "failed"}, Store(Set(Both, {x}, st, why))
    PROVE  Matched' /\ Replaces(mem, mem')
<1> DEFINE m == SetStatus(mem, {x}, st, why)
<1>1. mem' = m /\ rows' = m
  BY MatchedBooks DEF Store, Set
<1>2. Sets(m, mem, {x}, st, why)
  BY MatchedBooks, SetStatusIs DEF CandStatus
<1> HIDE DEF m
<1>3. \A p \in Cases : mem.pkg[p].status \in Published => mem.pkg[p].cand # x
  BY MatchedBooks, Unpublished DEF Published
<1>4. Housed(m)
  <2>1. \A y \in Candidates : y \in {x} =>
           /\ mem.cand[y].status # "absent"
           /\ \A p \in Cases : mem.pkg[p].status \in Published => mem.pkg[p].cand # y
    BY <1>3
  <2>2. mem \in Book /\ Housed(mem) /\ st \in {"failed", "rejected", "superseded"}
    BY MatchedBooks
  <2>3. QED
    BY <1>2, <2>1, <2>2, AsideHoused
<1>5. Replaces(mem, m)
  BY <1>2 DEF Replaces, Sets
<1>6. QED
  BY <1>1, <1>4, <1>5 DEF Matched

LEMMA RetireMatched ==
    ASSUME TInv, Matched, NEW p \in Cases, Retire(p)
    PROVE  Matched' /\ Replaces(mem, mem')
<1>1. mem' = RetireIn(mem, {p}) /\ rows' = mem'
  BY MatchedBooks DEF Retire, Store, Drop
<1>2. Housed(mem') /\ mem'.cand = mem.cand
  BY <1>1, MatchedBooks, RetireHoused, RetireIs
<1>3. QED
  BY <1>1, <1>2 DEF Matched, Replaces

LEMMA DeleteMatched ==
    ASSUME TInv, Matched, NEW x \in Candidates, Delete(x)
    PROVE  Matched' /\ Replaces(mem, mem')
<1>1. Absent \in Candidate /\ Absent.status = "absent" /\ Absent.support = {}
  BY DEF Absent, Candidate, CandStatus, Reasons, Texts
<1>2. /\ mem'.pkg = mem.pkg /\ mem'.cand[x] = Absent /\ rows' = mem'
      /\ \A y \in Candidates : y # x => mem'.cand[y] = mem.cand[y]
  BY <1>1, MatchedBooks, PutCandidate DEF Delete
<1>3. \A p \in Cases : mem.pkg[p].status \in Published => mem.pkg[p].cand # x
  BY MatchedBooks, Unpublished DEF Delete, Published
<1>4. Rooted(mem')
  BY <1>1, <1>2, MatchedBooks DEF Housed, Rooted
<1>5. Placed(mem')
  BY <1>2, <1>3, MatchedBooks DEF Housed, Placed
<1>6. Replaces(mem, mem')
  BY <1>1, <1>2 DEF Replaces
<1>7. QED
  BY <1>2, <1>4, <1>5, <1>6 DEF Matched, Housed

LEMMA CuratedMatched ==
    ASSUME TInv, Matched, NEW x \in Candidates, NEW text \in Texts, Curated(x, text)
    PROVE  Matched' /\ Replaces(mem, mem')
<1>1. mem \in Book /\ Housed(mem) /\ rows' = mem'
  BY MatchedBooks DEF Curated
<1>2. /\ mem'.pkg = mem.pkg /\ \A y \in Candidates \ {x} : mem'.cand[y] = mem.cand[y]
      /\ mem'.cand[x].status = mem.cand[x].status
      /\ mem'.cand[x].case = mem.cand[x].case /\ mem'.cand[x].support = mem.cand[x].support
      /\ mem'.cand[x].pkg = mem.cand[x].pkg
  BY <1>1, TextIs DEF Curated
<1>3. ASSUME NEW y \in Candidates
      PROVE  /\ mem'.cand[y].status = mem.cand[y].status /\ mem'.cand[y].case = mem.cand[y].case
             /\ mem'.cand[y].support = mem.cand[y].support /\ mem'.cand[y].pkg = mem.cand[y].pkg
  BY <1>2
<1>4. Housed(mem') /\ Replaces(mem, mem')
  BY <1>1, <1>2, <1>3 DEF Housed, Rooted, Placed, Replaces
<1>5. QED
  BY <1>1, <1>4 DEF Matched

LEMMA ApproveMatched ==
    ASSUME OwnContent, TInv, Matched, NEW i \in Incidents, ApproveNew(i) \/ ApproveAgain(i)
    PROVE  Matched' /\ Replaces(mem, mem')
<1> DEFINE c == run[i].case
           x == Recompute(review, c)
           t == LinkIn(mem, c, x)
           mint == Supporting(mem, c) = {} /\ x # NoCand
<1>1. c \in Cases
  BY DEF ApproveNew, ApproveAgain, TInv, TypeOK, RunNamed
<1>2. mem \in Book /\ rows = mem /\ Housed(mem)
  BY MatchedBooks
<1>3. CASE UNCHANGED <<mem, rows>>
  BY <1>2, <1>3 DEF Matched, Replaces
<1>4. CASE x # NoCand /\ mem' = t /\ rows' = t
  <2>1. x \in Candidates /\ Owns(c, x)
    BY <1>1, <1>4, RecomputeType, RecomputeOwns
  <2>2. Housed(t) /\ \A y \in Candidates : mem.cand[y].status = "failed" => t.cand[y].status = "failed"
    BY <1>1, <1>2, <2>1, LinkHoused
  <2>3. QED
    BY <1>4, <2>2 DEF Matched, Replaces
<1>5. CASE mint /\ mem' = [mem EXCEPT !.cand[x] = NewCandidate(c, x)] /\ rows' = LinkIn(rows, c, x)
  <2>1. x \in Candidates /\ Owns(c, x)
    BY <1>1, <1>5, RecomputeType, RecomputeOwns
  <2>2. mem.cand[x].status = "absent"
    <3>1. c \notin mem.cand[x].support
      BY <1>5, <2>1 DEF Supporting
    <3> HIDE DEF c, x
    <3>2. QED
      BY <1>1, <1>2, <2>1, <3>1 DEF Housed, Rooted, OwnContent
  <2>3. mem' = t /\ rows' = t
    BY <1>2, <1>5, <2>2 DEF LinkIn
  <2>4. QED
    BY <1>4, <1>5, <2>3
<1>6. ApproveNew(i) => UNCHANGED <<mem, rows>> \/ (x # NoCand /\ mem' = t /\ rows' = t)
  BY <1>2 DEF ApproveNew, Store, Link, Both, bookVars
<1>7. ApproveAgain(i) =>
        \/ UNCHANGED <<mem, rows>>
        \/ mint /\ mem' = [mem EXCEPT !.cand[x] = NewCandidate(c, x)] /\ rows' = LinkIn(rows, c, x)
  BY DEF ApproveAgain, bookVars
<1>8. QED
  BY <1>3, <1>4, <1>5, <1>6, <1>7

LEMMA ReviewMatched ==
    ASSUME OwnContent, TInv, Matched,
           NEW i \in Incidents, NEW r \in Reviewers, NEW kind \in ReviewKinds, SaveReview(i, r, kind)
    PROVE  Matched' /\ Replaces(mem, mem')
<1> DEFINE c == run[i].case
           R == [review EXCEPT ![c][r] = kind]
<1>1. c \in Cases
  BY DEF SaveReview, TInv, TypeOK
<1>2. PICK lost : Store(IF kind \in Successes THEN Generated(Invalidated(Both, R, c, lost), R, c, lost)
                        ELSE Invalidated(Both, R, c, lost))
  BY DEF SaveReview
<1> DEFINE w == Invalidated(Both, R, c, lost)
           g == Generated(w, R, c, lost)
<1> HIDE DEF c, R
<1>3. /\ w.mem \in Book /\ w.rows = w.mem /\ Housed(w.mem)
      /\ \A x \in Candidates : w.mem.cand[x].support = mem.cand[x].support
                               /\ w.mem.cand[x].status \in {mem.cand[x].status, "failed"}
  BY MatchedBooks, InvalidatedHoused
<1> HIDE DEF w
<1>4. g.mem \in Book /\ g.rows = g.mem /\ Housed(g.mem) /\ Replaces(w.mem, g.mem)
  BY <1>1, <1>3, GeneratedHoused
<1> HIDE DEF g
<1>5. Replaces(mem, w.mem)
  BY <1>3 DEF Replaces
<1>6. Replaces(mem, g.mem)
  <2>1. ASSUME NEW x \in Candidates, mem.cand[x].status = "failed"
        PROVE  w.mem.cand[x].status = "failed" /\ w.mem.cand[x].support = mem.cand[x].support
    BY <1>3, <2>1
  <2>2. QED
    BY <1>4, <2>1 DEF Replaces
<1>7. Store(IF kind \in Successes THEN g ELSE w)
  BY <1>2 DEF g, w
<1>8. QED
  BY <1>3, <1>4, <1>5, <1>6, <1>7 DEF Store, Matched

LEMMA ReleaseMatched ==
    ASSUME TInv, Matched, NEW i \in Incidents, NEW c \in Cases, AutoRevoke(i, c)
    PROVE  Matched' /\ Replaces(mem, mem')
<1> DEFINE old == active[i]
           R == [review EXCEPT ![old] = [r \in Reviewers |-> "none"]]
<1>1. CASE UNCHANGED <<mem, rows>>
  BY <1>1 DEF Matched, Replaces
<1>2. ASSUME NEW lost, Store(Invalidated(Both, R, old, lost)) PROVE Matched' /\ Replaces(mem, mem')
  <2> HIDE DEF old, R
  <2> DEFINE w == Invalidated(Both, R, old, lost)
  <2>1. /\ w.rows = w.mem /\ Housed(w.mem)
        /\ \A x \in Candidates : w.mem.cand[x].status \in {mem.cand[x].status, "failed"}
    BY MatchedBooks, InvalidatedHoused
  <2>2. mem' = w.mem /\ rows' = w.rows
    BY <1>2 DEF Store
  <2> HIDE DEF w
  <2>3. QED
    BY <2>1, <2>2 DEF Matched, Replaces
<1>3. QED
  BY <1>1, <1>2 DEF AutoRevoke, ReleaseSuperseded, caseVars, bookVars

LEMMA MatchedStep ==
    ASSUME OwnContent, TInv, Matched, [Next]_vars
    PROVE  Matched' /\ Replaces(mem, mem')
<1>1. CASE UNCHANGED <<mem, rows>>
  BY <1>1 DEF Matched, Replaces
<1>2. ASSUME NEW i \in Incidents,
             \/ StartRun(i) \/ FailRun(i) \/ ApprovePlain(i) \/ Unapprove(i)
             \/ \E c \in Cases : CompleteRun(i, c)
      PROVE  UNCHANGED <<mem, rows>>
  BY <1>2 DEF StartRun, FailRun, ApprovePlain, Unapprove, CompleteRun, bookVars
<1>3. ASSUME NEW x \in Candidates,
             (\E to \in Published : CheckStart(x, to)) \/ CheckFails(x) \/ RefineStart(x)
      PROVE  UNCHANGED <<mem, rows>>
  BY <1>3 DEF CheckStart, CheckFails, RefineStart, bookVars
<1>4. ASSUME NEW x \in Candidates, Reject(x) \/ CheckRejects(x) PROVE Matched' /\ Replaces(mem, mem')
  BY <1>1, <1>4, AsideMatched DEF Reject, CheckRejects, bookVars, Reasons
<1>5. ASSUME NEW x \in Candidates, EditActions(x) \/ RefineEnd(x) PROVE Matched' /\ Replaces(mem, mem')
  BY <1>1, <1>5, CuratedMatched DEF EditActions, RefineEnd, bookVars, Texts
<1>6. CASE Restart
  BY <1>1, <1>6 DEF Restart, Matched
<1>7. QED
  BY <1>1, <1>2, <1>3, <1>4, <1>5, <1>6, ApproveMatched, ReviewMatched, ReleaseMatched,
     PublishMatched, ActivateMatched, RejectShadowMatched, DeleteMatched, RetireMatched
     DEF Next, vars, bookVars

LEMMA AlwaysMatched ==
    ASSUME OwnContent
    PROVE  Spec => []Matched
<1>1. Init => Matched
  <2> SUFFICES ASSUME Init PROVE Matched
    OBVIOUS
  <2>1. /\ \A x \in Candidates : mem.cand[x] = Absent
        /\ \A p \in Cases : mem.pkg[p] = NoPackage
        /\ rows = mem
    BY DEF Init
  <2>2. Absent.status = "absent" /\ Absent.support = {} /\ NoPackage.status = "none"
    BY DEF Absent, NoPackage
  <2>3. QED
    BY <2>1, <2>2 DEF Matched, Housed, Rooted, Placed, Published
<1>2. TInv /\ Matched /\ [Next]_vars => Matched'
  BY MatchedStep
<1>3. QED
  BY <1>1, <1>2, TInvInit, TInvStep, PTL DEF Spec

\* Where no two cases compile to the same content, memory and Postgres agree on
\* every candidate and package, whichever transactions fail and whenever the
\* process restarts (store_postgres.go:1790).
THEOREM StatusMatchesRowHolds ==
    ASSUME OwnContent
    PROVE  Spec => []StatusMatchesRow
<1>1. Matched => StatusMatchesRow
  BY DEF Matched, StatusMatchesRow
<1>2. QED
  BY <1>1, AlwaysMatched, PTL

\* There, a failed write never takes a candidate off the review queue before the
\* one that replaces it is on record (evaluation.go:397).
THEOREM ReplacedOnRecordHolds ==
    ASSUME OwnContent
    PROVE  Spec => ReplacedOnRecord
<1>1. TInv /\ Matched /\ [Next]_vars =>
        [\A x \in Candidates :
          /\ mem.cand[x].status = "failed" /\ mem'.cand[x].status = "superseded"
          => \E y \in Candidates \ {x} : rows'.cand[y].support \cap mem.cand[x].support # {}]_vars
  <2>1. ASSUME TInv, Matched, [Next]_vars
        PROVE  \A x \in Candidates :
                 /\ mem.cand[x].status = "failed" /\ mem'.cand[x].status = "superseded"
                 => \E y \in Candidates \ {x} : rows'.cand[y].support \cap mem.cand[x].support # {}
    BY <2>1, MatchedStep DEF Matched, Replaces
  <2>2. QED
    BY <2>1
<1>2. QED
  BY <1>1, AlwaysMatched, TInvInit, TInvStep, PTL DEF Spec, ReplacedOnRecord
=============================================================================
