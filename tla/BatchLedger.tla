---------------------------- MODULE BatchLedger ----------------------------
(***************************************************************************)
(* What the collection ledger promises every collector, whatever           *)
(* interleaving of transactions, retries and crashes produced it: batches  *)
(* are numbered in the order they were opened, a batch is decided once,    *)
(* and the checkpoint of a partition moves only to a batch of that         *)
(* partition, in the transaction that completes it, and never back to an   *)
(* older batch.                                                            *)
(***************************************************************************)
EXTENDS Naturals

CONSTANTS Partitions, MaxBatches

VARIABLES
    status,      \* per batch
    partition,   \* per batch: the partition it collects
    position     \* per partition: the batch its checkpoint names, 0 for none
ledger == <<status, partition, position>>

BatchId == 1..MaxBatches
Success == {"completed", "completed_with_rejections"}
Failure == {"failed", "blocked"}

Init ==
    /\ status = [b \in BatchId |-> "absent"]
    /\ partition \in [BatchId -> Partitions]
    /\ position = [p \in Partitions |-> 0]

Open(b, p) ==
    /\ status[b] = "absent"
    /\ \A older \in BatchId : older < b => status[older] # "absent"
    /\ status' = [status EXCEPT ![b] = "started"]
    /\ partition' = [partition EXCEPT ![b] = p]
    /\ UNCHANGED position

\* Completing the newest batch of a partition so far moves its checkpoint.
Complete(b) ==
    LET p == partition[b] IN
    /\ status[b] = "started"
    /\ \E outcome \in Success : status' = [status EXCEPT ![b] = outcome]
    /\ position' = IF position[p] < b THEN [position EXCEPT ![p] = b] ELSE position
    /\ UNCHANGED partition

Fail(b) ==
    /\ status[b] = "started"
    /\ \E outcome \in Failure : status' = [status EXCEPT ![b] = outcome]
    /\ UNCHANGED <<partition, position>>

Next == \E b \in BatchId :
    \/ \E p \in Partitions : Open(b, p)
    \/ Complete(b)
    \/ Fail(b)

Spec == Init /\ [][Next]_ledger
=============================================================================
