--------------------------- MODULE MCPendingQueue ---------------------------
(***************************************************************************)
(* Small queues for TLC.                                                   *)
(***************************************************************************)
EXTENDS PendingQueueProperties, TLC

CONSTANTS p1, p2, b1, b2, b3, b4, i1, i2, i3, a, b, t1, t2

\* The processes, and the numbers of batches, are interchangeable.
Interchangeable == Permutations(Procs) \cup Permutations(BatchIds)

TwoIds == <<1, 2>>
TwoItems == <<i1, i2>>
TwoPayloads == <<a, b>>
OwnTitles == [x \in {a, b} |-> IF x = a THEN t1 ELSE t2]
RiskyFeedback == <<"risky", "feedback">>

SingleId == <<1>>
SingleItem == <<i1>>
SinglePayload == <<a>>
SinglePlain == <<"plain">>

\* Two files of one record, as a retried enqueue leaves them, and another record.
CopiedIds == <<1, 1, 2>>
CopiedItems == <<i1, i1, i2>>
CopiedPayloads == <<a, a, b>>
PlainTwiceSecret == <<"plain", "plain", "secret">>
====================
