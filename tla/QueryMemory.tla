------------------------------ MODULE QueryMemory ------------------------------
(***************************************************************************)
(* The ledger of claimed reads that every evidence path of one analysis     *)
(* shares (services/query_memory.py).  A memory is a function from reads to *)
(* receipts; a read that was never claimed has the receipt Unread.          *)
(***************************************************************************)
EXTENDS Naturals

CONSTANT MaxAttempts   \* QueryMemory.max_attempts

Unread == [status |-> "none", attempts |-> 0]
Receipts == [status : {"none", "running", "succeeded", "failed"}, attempts : 0..MaxAttempts]

\* Mutant: claim refuses only what has succeeded.
MayClaimRunning(memory, read) == memory[read].status # "succeeded"

\* claim answers TRUE: the read is new, or failed and has an attempt left.
MayClaim(memory, read) ==
    \/ memory[read].status = "none"
    \/ memory[read].status = "failed" /\ memory[read].attempts < MaxAttempts

Claimed(memory, reads) ==
    [r \in DOMAIN memory |-> IF r \in reads
        THEN [status |-> "running", attempts |-> memory[r].attempts + 1] ELSE memory[r]]

\* A receipt that does not exist yet is made with its first attempt spent.
Completed(memory, read, succeeded) ==
    [memory EXCEPT ![read] = [status   |-> IF succeeded THEN "succeeded" ELSE "failed",
                              attempts |-> IF @.attempts = 0 THEN 1 ELSE @.attempts]]

\* Overwrites the receipt, also of a read that is running.
Remembered(memory, reads) ==
    [r \in DOMAIN memory |-> IF r \in reads
        THEN [status |-> "succeeded", attempts |-> 1] ELSE memory[r]]
================================================================================
