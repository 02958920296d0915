----------------------------- MODULE MCSqsQueue -----------------------------
(***************************************************************************)
(* SqsQueue for TLC: a behaviour uses either a standard queue with its     *)
(* dead-letter queue, or a FIFO queue with two groups whose messages       *)
(* outlive their retention.                                                *)
(***************************************************************************)
EXTENDS SqsQueue, TLC

CONSTANTS q1, dlq, f1, g1, g2, d1, d2, r1, r2

VARIABLE used  \* the queues the clients of this behaviour create

mcvars == <<vars, used>>

\* The second delivery of a message of q1 goes to dlq.
RedriveOnce == [q \in Queues |-> IF q = q1 THEN [max |-> 1, dlq |-> dlq] ELSE NoPolicy]
Retained == [q \in Queues |-> IF q \in FifoQueues THEN 2 ELSE 9]

\* The senders of standard queues give no deduplication id and one group, and
\* send less.
StandardSends ==
  \/ used \subseteq FifoQueues
  \/ /\ accepted' = {} /\ sent' <= 2
     /\ sent' # sent => \A q, p \in used : \A m \in Rows(msgs'[q]), x \in Rows(msgs'[p]) : m.group = x.group

MCInit == Init /\ used \in {Queues \ FifoQueues, FifoQueues}
MCNext == Next /\ UNCHANGED used /\ queues' \subseteq used /\ StandardSends
MCSpec == MCInit /\ [][MCNext]_mcvars

Symmetries == Permutations({g1, g2}) \cup Permutations({d1, d2})
=============================================================================
