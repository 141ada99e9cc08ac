-------------------------- MODULE KnowledgeRegistry --------------------------
(***************************************************************************)
(* The agent's copy of the approved knowledge (knowledge.py): a refresh    *)
(* loop fetches the backend's snapshot under an ETag, validates it package *)
(* by package, and swaps it in whole; every failure keeps the last good    *)
(* revision.  The ETag is the backend's revision.                          *)
(***************************************************************************)
EXTENDS Naturals

CONSTANTS
    Revisions,   \* the last revision the backend publishes
    Packages,    \* package ids
    Content,     \* Content[n][p]: "active", "shadow", "unusable" or "absent" in revision n
    Mode         \* off, shadow, assist, authoritative

ASSUME RegistryAssumption ==
    /\ Revisions \in Nat \ {0}
    /\ Content \in [1..Revisions -> [Packages -> {"active", "shadow", "unusable", "absent"}]]
    /\ Mode \in {"off", "shadow", "assist", "authoritative"}

VARIABLES
    published,  \* the backend's revision
    snap,       \* _snapshot: its revision and its usable packages; revision 0 is None
    etag,       \* _etag, 0 when none was seen
    answer,     \* the response the refresh in flight will read
    synced,     \* the backend's revision at the last sync marked successful
    syncError   \* _last_sync_error is set

registryVars == <<published, snap, etag, answer, synced, syncError>>

NoSnapshot == [rev |-> 0, active |-> {}, shadow |-> {}]
Idle     == [kind |-> "idle", rev |-> 0]

RegistryInit ==
    /\ published = 1
    /\ snap = NoSnapshot /\ etag = 0
    /\ answer = Idle
    /\ synced = 0 /\ syncError = FALSE

In(n, s) == {p \in Packages : Content[n][p] = s}

\* Unusable packages are dropped one by one; a snapshot that lists packages and
\* keeps none is refused whole.
Refused(n) == In(n, "unusable") # {} /\ In(n, "active") \cup In(n, "shadow") = {}
Validated(n) == [rev |-> n, active |-> In(n, "active"), shadow |-> In(n, "shadow")]

\* Approvals and withdrawals in the backend.
Publish ==
    /\ published < Revisions
    /\ published' = published + 1
    /\ UNCHANGED <<snap, etag, answer, synced, syncError>>

\* refresh asks under the lock; the backend answers from what it has.
Fetch ==
    /\ Mode # "off"
    /\ answer = Idle
    /\ answer' \in {[kind |-> IF etag = published THEN "unchanged" ELSE "snapshot",
                     rev |-> published],
                    [kind |-> "failed", rev |-> published]}
    /\ UNCHANGED <<published, snap, etag, synced, syncError>>

\* ... and the response is applied in one step of the event loop.
Install ==
    /\ answer.kind = "snapshot" /\ ~Refused(answer.rev)
    /\ snap' = Validated(answer.rev)
    /\ etag' = answer.rev
    /\ synced' = answer.rev /\ syncError' = FALSE
    /\ answer' = Idle
    /\ UNCHANGED published

NotModified ==
    /\ answer.kind = "unchanged"
    /\ synced' = answer.rev /\ syncError' = FALSE
    /\ answer' = Idle
    /\ UNCHANGED <<published, snap, etag>>

\* Mutant: the ETag is taken before the packages are validated.
SyncFailsWithETag ==
    /\ \/ answer.kind = "failed" /\ UNCHANGED etag
       \/ answer.kind = "snapshot" /\ Refused(answer.rev) /\ etag' = answer.rev
    /\ syncError' = TRUE
    /\ answer' = Idle
    /\ UNCHANGED <<published, snap, synced>>

SyncFails ==
    /\ \/ answer.kind = "failed"
       \/ answer.kind = "snapshot" /\ Refused(answer.rev)
    /\ syncError' = TRUE
    /\ answer' = Idle
    /\ UNCHANGED <<published, snap, etag, synced>>

Refresh == Fetch \/ Install \/ NotModified \/ SyncFails
RegistryNext == Publish \/ Refresh
RegistrySpec == RegistryInit /\ [][RegistryNext]_registryVars

\* What ranks beside the baseline catalogue, what only hints at a next check,
\* and whose probe templates a plan may use.
RankingPackages ==
    CASE Mode = "assist"        -> snap.active
      [] Mode = "authoritative" -> snap.active \cup snap.shadow
      [] OTHER                  -> {}
HintPackages  == IF Mode = "assist" THEN snap.shadow ELSE {}
ProbePackages == IF Mode \in {"assist", "authoritative"} THEN snap.active ELSE {}

-----------------------------------------------------------------------------
RegistryTypeOK ==
    /\ published \in 1..Revisions
    /\ snap \in [rev : 0..Revisions, active : SUBSET Packages, shadow : SUBSET Packages]
    /\ etag \in 0..Revisions
    /\ answer \in [kind : {"idle", "unchanged", "snapshot", "failed"}, rev : 0..Revisions]
    /\ synced \in 0..Revisions
    /\ syncError \in BOOLEAN

\* A sync that was marked successful, by a 200 or by a 304, left the packages of
\* exactly the revision the backend answered with.
SyncedIsInstalled ==
    synced > 0 => snap = Validated(synced)

\* The agent never goes back to an older revision, and never drops the one it
\* has: every failed refresh keeps the last good snapshot.
NeverOlder == [][snap'.rev >= snap.rev]_registryVars
=============================================================================
