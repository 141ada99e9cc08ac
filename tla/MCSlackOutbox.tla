--------------------------- MODULE MCSlackOutbox ---------------------------
EXTENDS SlackOutbox, TLC

CONSTANTS r1, r2, i1, i2

OneRow   == {r1}
TwoRows  == {r1, r2}
OneInc   == {i1}
TwoIncs  == {i1, i2}
AllOfOne == [r \in Rows |-> i1]
EachItsOwn == [r \in Rows |-> IF r = r1 THEN i1 ELSE i2]

NewIncidents    == {0}
LegacyIncidents == {3}
AnyIncidents    == {0, 3}

RowSymmetry == Permutations(Rows)

\* States that differ only in what no action reads any more are one state: how
\* an attempt ended, whether a settled entry is still cooling, and which kind
\* of disruption used up the bound.
SettledView ==
    <<[k \in Attempts |-> IF attempt[k].pc \in {"applied", "refused", "ended"}
                          THEN [attempt[k] EXCEPT !.pc = "ended"] ELSE attempt[k]],
      [k \in Attempts |-> IF entry[k].status \in {"delivered", "skipped"}
                          THEN [entry[k] EXCEPT !.cooling = FALSE] ELSE entry[k]],
      faults + trashings,
      shown, outbox, stamp, inc, slackVars, workVars>>
=============================================================================
