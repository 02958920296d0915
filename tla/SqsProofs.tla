------------------------------ MODULE SqsProofs ------------------------------
(***************************************************************************)
(* What every SQS queue keeps, for any queues, policies and callers: the   *)
(* limits of redrive and deduplication also when calls overlap, and the    *)
(* conservation of messages and of their handles when they do not.         *)
(***************************************************************************)
EXTENDS SqsQueue, FiniteSetTheorems, WellFoundedInduction, TLAPS

-----------------------------------------------------------------------------
(* Types and limits.                                                       *)

\* The deliveries a queue's policy allows a record of it.
Within(q, m) ==
  Redrive[q].max > 0 /\ Redrive[q].dlq \notin {NoQueue, q} => m.receiveCount <= Redrive[q].max

\* Rows of queue q when n handles are minted and k messages were accepted.
Known(m, n, k) == m \in Message /\ m.handle \in 1 .. n /\ m.id \in 1 .. k
TableOK(q, table, n, k) ==
  \A h \in DOMAIN table : table[h].handle = h /\ Known(table[h], n, k) /\ Within(q, table[h])
AliasesOK(table, n) == \A h \in DOMAIN table : h \in 1 .. n /\ table[h] \in 1 .. n

\* What a receive in progress holds.
ReceiveOK(rec, n, k) ==
  /\ rec = [queue |-> rec.queue, selection |-> rec.selection, kept |-> rec.kept,
            seen |-> rec.seen, want |-> rec.want, limit |-> rec.limit, timeout |-> rec.timeout]
  /\ rec.queue \in Queues /\ rec.timeout \in Nat
  /\ rec.selection \in Seq(Message)
  /\ \A i \in DOMAIN rec.selection : Known(rec.selection[i], n, k)

Shapes ==
  /\ DOMAIN msgs = Queues /\ DOMAIN alias = Queues /\ DOMAIN dedup = Queues
  /\ DOMAIN held = Queues /\ DOMAIN seqs = Queues /\ DOMAIN rcv = Receivers

Basics ==
  /\ now \in Nat /\ minted \in Nat /\ sent \in Nat
  /\ queues \subseteq Queues /\ dlqmark \subseteq Queues
  /\ DOMAIN goneAt \subseteq Queues /\ DOMAIN purgedAt \subseteq Queues
  /\ \A q \in Queues : seqs[q] \in Nat
  /\ removed \subseteq 1 .. sent

Tables == \A q \in Queues : TableOK(q, msgs[q], minted, sent) /\ AliasesOK(alias[q], minted)

Receives == \A r \in Receivers : rcv[r] # Idle => ReceiveOK(rcv[r], minted, sent)

SqsTypes == Basics /\ Shapes /\ Tables /\ Receives

\* What stays when something is read.
SameRows(a, b) == DOMAIN a = DOMAIN b /\ \A h \in DOMAIN a : b[h].id = a[h].id

LEMMA KnownGrows ==
  ASSUME NEW n \in Nat, NEW n1 \in Nat, n <= n1, NEW k \in Nat, NEW k1 \in Nat, k <= k1
  PROVE  /\ \A m : Known(m, n, k) => Known(m, n1, k1)
         /\ \A q, table : TableOK(q, table, n, k) => TableOK(q, table, n1, k1)
         /\ \A table : AliasesOK(table, n) => AliasesOK(table, n1)
         /\ \A rec : ReceiveOK(rec, n, k) => ReceiveOK(rec, n1, k1)
<1>1. \A m : Known(m, n, k) => Known(m, n1, k1)
  BY DEF Known
<1> QED
  BY <1>1 DEF TableOK, AliasesOK, ReceiveOK

LEMMA SettleAlike ==
  ASSUME NEW m \in Message, now \in Nat
  PROVE  /\ Settle(m) \in Message /\ Settle(m).handle = m.handle /\ Settle(m).id = m.id
         /\ Settle(m).receiveCount = m.receiveCount
BY DEF Settle, Message

LEMMA SettleAllOK ==
  ASSUME NEW q, NEW table, NEW n, NEW k, TableOK(q, table, n, k), now \in Nat
  PROVE  TableOK(q, SettleAll(table), n, k) /\ SameRows(table, SettleAll(table))
<1>1. DOMAIN SettleAll(table) = DOMAIN table
  BY DEF SettleAll
<1>2. ASSUME NEW h \in DOMAIN table
      PROVE  /\ SettleAll(table)[h].handle = h /\ Known(SettleAll(table)[h], n, k)
             /\ Within(q, SettleAll(table)[h]) /\ SettleAll(table)[h].id = table[h].id
  <2>1. table[h] \in Message /\ table[h].handle = h /\ Known(table[h], n, k) /\ Within(q, table[h])
    BY DEF TableOK, Known
  <2>2. PICK m \in Message : m = table[h]
    BY <2>1
  <2>3. SettleAll(table)[h] = Settle(m)
    BY <2>2 DEF SettleAll
  <2> QED
    BY <2>1, <2>2, <2>3, SettleAlike DEF Known, Within
<1> QED
  BY <1>1, <1>2 DEF TableOK, SameRows

LEMMA DropOK ==
  ASSUME NEW q, NEW table, NEW n, NEW k, TableOK(q, table, n, k), NEW keys
  PROVE  TableOK(q, Drop(table, keys), n, k)
BY DEF TableOK, Drop

LEMMA PutOK ==
  ASSUME NEW q, NEW table, NEW n, NEW k, TableOK(q, table, n, k), NEW m,
         Known(m, n, k), Within(q, m)
  PROVE  TableOK(q, Put(table, m.handle, m), n, k)
BY DEF TableOK, Put

\* The elements of a selection are rows it is made from, all different.
LEMMA SelectionOK ==
  ASSUME NEW q, NEW table, NEW S, NEW n, NEW s \in FirstOf(q, table, S, n)
  PROVE  s \in Seq(S) /\ \A i \in DOMAIN s : s[i] \in S
<1>1. PICK k \in 0 .. n : s \in [1 .. k -> S]
  BY DEF FirstOf
<1> QED
  BY <1>1

LEMMA TakenOK ==
  ASSUME NEW q, NEW table, NEW n, NEW s \in Taken(q, table, n)
  PROVE  s \in Seq(Rows(table)) /\ \A i \in DOMAIN s : s[i] \in Rows(table)
<1>1. PICK S : s \in FirstOf(q, table, S, n) /\ S \subseteq Rows(table)
  BY DEF Taken, Leading
<1> QED
  BY <1>1, SelectionOK

\* The message a handle of a request leads to.
LEMMA ReadOK ==
  ASSUME SqsTypes, NEW q \in Queues, NEW h \in 1 .. minted, NEW read, read = ReadMessage(q, h)
  PROVE  /\ TableOK(q, read.table, minted, sent) /\ SameRows(msgs[q], read.table)
         /\ AliasesOK(read.aliases, minted) /\ read.key = Resolve(q, h)
         /\ read.aliases = alias[q] \/ read.aliases = Aliased(alias[q], h, read.key)
         /\ read.found => /\ read.key \in DOMAIN msgs[q] /\ Known(read.msg, minted, sent)
                          /\ Within(q, read.msg) /\ read.msg.handle = read.key
                          /\ read.msg.id = msgs[q][read.key].id
<1>1. PICK k : k = Resolve(q, h)
  OBVIOUS
<1>2. TableOK(q, msgs[q], minted, sent) /\ AliasesOK(alias[q], minted) /\ now \in Nat
  BY DEF SqsTypes, Basics, Tables
<1>3. /\ read.key = k /\ read.found = (k \in DOMAIN msgs[q])
      /\ read.found => read.msg = Settle(msgs[q][k])
      /\ \/ read.table = msgs[q] /\ read.aliases = alias[q]
         \/ read.found /\ read.table = Put(msgs[q], k, Settle(msgs[q][k]))
              /\ read.aliases = Aliased(alias[q], h, k)
  BY <1>1, Zenon DEF ReadMessage
<1>4. CASE k \in DOMAIN msgs[q]
  <2>1. PICK m \in Message : m = msgs[q][k]
    BY <1>2, <1>4 DEF TableOK, Known
  <2>2. m.handle = k /\ Known(m, minted, sent) /\ Within(q, m) /\ k \in 1 .. minted
    BY <1>2, <1>4, <2>1 DEF TableOK, Known
  <2>3. PICK x \in Message : x = Settle(m) /\ x.handle = k /\ x.id = m.id /\ x.receiveCount = m.receiveCount
    BY <1>2, <2>2, SettleAlike
  <2>4. Known(x, minted, sent) /\ Within(q, x)
    BY <2>2, <2>3 DEF Known, Within
  <2>5. TableOK(q, Put(msgs[q], k, x), minted, sent) /\ SameRows(msgs[q], Put(msgs[q], k, x))
    BY <1>2, <1>4, <2>1, <2>3, <2>4, PutOK DEF SameRows, Put
  <2>6. AliasesOK(Aliased(alias[q], h, k), minted)
    BY <1>2, <2>2 DEF AliasesOK, Aliased, Put
  <2>7. SameRows(msgs[q], msgs[q])
    BY DEF SameRows
  <2> QED
    BY <1>1, <1>2, <1>3, <1>4, <2>1, <2>3, <2>4, <2>5, <2>6, <2>7
<1>5. CASE k \notin DOMAIN msgs[q]
  BY <1>1, <1>2, <1>3, <1>5 DEF SameRows
<1> QED
  BY <1>4, <1>5

-----------------------------------------------------------------------------
(* Every operation keeps the types.                                        *)

LEMMA TypesOK == SqsTypes => TypeOK
BY DEF SqsTypes, Basics, Tables, TypeOK, TableOK, Known, AliasesOK

LEMMA InitTypes == Init => SqsTypes
<1> SUFFICES ASSUME Init PROVE SqsTypes
  OBVIOUS
<1>1. Basics /\ Shapes
  BY DEF Init, Basics, Shapes, Empty
<1>2. Tables /\ Receives
  BY DEF Init, Tables, Receives, TableOK, AliasesOK, Empty
<1> QED
  BY <1>1, <1>2 DEF SqsTypes

\* A step that leaves the receives alone and loses no handle or message.
LEMMA ReceivesKept ==
  ASSUME SqsTypes, minted' \in Nat, sent' \in Nat, minted <= minted', sent <= sent',
         NEW r, UNCHANGED rcv \/ rcv'[r] = Idle,
         \A o \in Receivers : o # r => rcv'[o] = rcv[o]
  PROVE  Receives'
BY KnownGrows DEF SqsTypes, Basics, Receives

LEMMA ClearTypes ==
  ASSUME SqsTypes, NEW q \in Queues, ClearMessages(q), UNCHANGED <<alias, seqs, minted, sent>>
  PROVE  /\ Tables' /\ removed' \subseteq 1 .. sent
         /\ DOMAIN msgs' = Queues /\ DOMAIN dedup' = Queues /\ DOMAIN held' = Queues
<1>1. Tables'
  <2> SUFFICES ASSUME NEW p \in Queues
               PROVE  TableOK(p, msgs'[p], minted, sent) /\ AliasesOK(alias[p], minted)
    BY DEF Tables, ClearMessages
  <2>1. msgs'[p] = msgs[p] \/ msgs'[p] = Empty
    BY DEF ClearMessages, SqsTypes, Shapes
  <2>2. TableOK(p, Empty, minted, sent)
    BY DEF TableOK, Empty
  <2> QED
    BY <2>1, <2>2 DEF SqsTypes, Tables
<1>2. Ids(msgs[q]) \subseteq 1 .. sent
  BY DEF SqsTypes, Tables, TableOK, Known, Ids, Rows
<1> QED
  BY <1>1, <1>2 DEF ClearMessages, SqsTypes, Basics, Shapes

LEMMA QueueTypes ==
  ASSUME SqsTypes, NEW q \in Queues, CreateQueue(q) \/ DeleteQueue(q) \/ PurgeQueue(q)
  PROVE  SqsTypes'
<1>1. CASE CreateQueue(q)
  <2>1. Basics'
    BY <1>1, Policies DEF CreateQueue, SqsTypes, Basics, Drop
  <2>2. Shapes' /\ Tables' /\ Receives'
    BY <1>1 DEF CreateQueue, SqsTypes, Shapes, Tables, Receives
  <2> QED
    BY <2>1, <2>2 DEF SqsTypes
<1>2. CASE DeleteQueue(q)
  <2>1. ClearMessages(q) /\ UNCHANGED <<now, dlqmark, alias, seqs, minted, rcv, sent>>
    BY <1>2 DEF DeleteQueue
  <2>2. queues' \subseteq Queues /\ DOMAIN goneAt' \subseteq Queues /\ DOMAIN purgedAt' \subseteq Queues
    BY <1>2 DEF DeleteQueue, SqsTypes, Basics, Put, Drop
  <2>3. Basics' /\ Shapes' /\ Tables'
    BY <2>1, <2>2, ClearTypes DEF SqsTypes, Basics, Shapes
  <2> QED
    BY <2>1, <2>3 DEF SqsTypes, Receives
<1>3. CASE PurgeQueue(q)
  <2>1. ClearMessages(q) /\ UNCHANGED <<now, queues, goneAt, dlqmark, alias, seqs, minted, rcv, sent>>
    BY <1>3 DEF PurgeQueue
  <2>2. DOMAIN purgedAt' \subseteq Queues
    BY <1>3 DEF PurgeQueue, SqsTypes, Basics, Put, Drop
  <2>3. Basics' /\ Shapes' /\ Tables'
    BY <2>1, <2>2, ClearTypes DEF SqsTypes, Basics, Shapes
  <2> QED
    BY <2>1, <2>3 DEF SqsTypes, Receives
<1> QED
  BY <1>1, <1>2, <1>3

\* A step that writes one table of one queue.
LEMMA OneTable ==
  ASSUME SqsTypes, NEW q \in Queues, NEW table, msgs' = [msgs EXCEPT ![q] = table],
         TableOK(q, table, minted', sent'), minted' \in Nat, sent' \in Nat,
         minted <= minted', sent <= sent'
  PROVE  /\ \A p \in Queues : TableOK(p, msgs'[p], minted', sent')
         /\ DOMAIN msgs' = Queues
BY KnownGrows DEF SqsTypes, Basics, Shapes, Tables

LEMMA OneAlias ==
  ASSUME SqsTypes, NEW q \in Queues, NEW table, alias' = [alias EXCEPT ![q] = table],
         AliasesOK(table, minted'), minted' \in Nat, minted <= minted'
  PROVE  /\ \A p \in Queues : AliasesOK(alias'[p], minted')
         /\ DOMAIN alias' = Queues
BY KnownGrows DEF SqsTypes, Basics, Shapes, Tables

LEMMA SendTypes ==
  ASSUME SqsTypes, NEW q \in Queues, NEW g \in Groups, NEW id, NEW d \in Delays,
         SendMessage(q, g, id, d)
  PROVE  SqsTypes'
<1>1. PICK m : m = [id |-> sent + 1, handle |-> minted + 1, group |-> g, seq |-> seqs[q] + 1,
           receiveCount |-> 0, state |-> IF d > 0 THEN "invisible" ELSE "visible",
           reappear |-> IF d > 0 THEN now + d ELSE 0, sentAt |-> now, origin |-> NoQueue]
  OBVIOUS
<1>2. /\ sent' = sent + 1 /\ minted' = minted + 1 /\ seqs' = [seqs EXCEPT ![q] = @ + 1]
      /\ msgs' = [msgs EXCEPT ![q] = Put(msgs[q], minted + 1, m)]
      /\ UNCHANGED <<now, queues, goneAt, purgedAt, dlqmark, alias, rcv, removed, held>>
      /\ DOMAIN dedup' = DOMAIN dedup
  BY <1>1 DEF SendMessage, queueVars, SqsTypes, Shapes
<1>3. sent' \in Nat /\ minted' \in Nat /\ sent <= sent' /\ minted <= minted'
  BY <1>2 DEF SqsTypes, Basics
<1>4. m \in Message /\ m.handle = minted + 1 /\ m.id = sent + 1 /\ m.receiveCount = 0
  BY <1>1, Durations DEF Message, SqsTypes, Basics
<1>5. Known(m, minted', sent') /\ Within(q, m)
  BY <1>2, <1>3, <1>4, Policies DEF Known, Within, SqsTypes, Basics
<1>6. TableOK(q, msgs[q], minted', sent')
  BY <1>3, KnownGrows DEF SqsTypes, Basics, Tables
<1>7. TableOK(q, Put(msgs[q], minted + 1, m), minted', sent')
  BY <1>4, <1>5, <1>6, PutOK
<1>8. (\A p \in Queues : TableOK(p, msgs'[p], minted', sent')) /\ DOMAIN msgs' = Queues
  BY <1>2, <1>3, <1>7, OneTable
<1>9. Basics' /\ Shapes'
  BY <1>2, <1>3, <1>8 DEF SqsTypes, Basics, Shapes
<1>10. Tables' /\ Receives'
  BY <1>2, <1>3, <1>8, KnownGrows DEF SqsTypes, Basics, Tables, Receives
<1> QED
  BY <1>9, <1>10 DEF SqsTypes

\* A selection a receive goes on from.
LEMMA SelectionKnown ==
  ASSUME SqsTypes, NEW q \in Queues, NEW S, S \subseteq Rows(SettleAll(msgs[q])),
         NEW s \in Seq(S)
  PROVE  s \in Seq(Message) /\ \A i \in DOMAIN s : Known(s[i], minted, sent)
<1>1. TableOK(q, SettleAll(msgs[q]), minted, sent)
  BY SettleAllOK DEF SqsTypes, Basics, Tables
<1>2. \A m \in S : Known(m, minted, sent) /\ m \in Message
  BY <1>1 DEF TableOK, Rows, Known
<1> QED
  BY <1>2

LEMMA BeginTypes ==
  ASSUME SqsTypes, NEW r \in Receivers, NEW q \in Queues, NEW n, NEW t \in Timeouts,
         ReceiveBegin(r, q, n, t)
  PROVE  SqsTypes'
<1>1. PICK s \in Taken(q, SettleAll(msgs[q]), n) :
        rcv' = [rcv EXCEPT ![r] =
            IF s = <<>> THEN Idle
            ELSE [queue |-> q, selection |-> s, kept |-> 0, seen |-> {},
                  want |-> Len(s), limit |-> n, timeout |-> t]]
  BY DEF ReceiveBegin
<1>a. PICK settled : settled = SettleAll(msgs[q])
  OBVIOUS
<1>2. /\ msgs' = [msgs EXCEPT ![q] = settled]
      /\ UNCHANGED <<now, queues, goneAt, purgedAt, dlqmark, alias, dedup, seqs, minted, sent,
                     removed, held, accepted>>
  BY <1>a DEF ReceiveBegin, queueVars
<1>b. TableOK(q, msgs[q], minted, sent) /\ now \in Nat /\ minted \in Nat /\ sent \in Nat
  BY DEF SqsTypes, Basics, Tables
<1>c. minted' \in Nat /\ sent' \in Nat /\ minted <= minted' /\ sent <= sent'
  BY <1>2, <1>b
<1>3. TableOK(q, settled, minted', sent')
  BY <1>a, <1>b, <1>2, SettleAllOK
<1>4. (\A p \in Queues : TableOK(p, msgs'[p], minted', sent')) /\ DOMAIN msgs' = Queues
  BY <1>2, <1>3, <1>c, OneTable
<1>5. s \in Seq(Rows(SettleAll(msgs[q])))
  BY TakenOK
<1>6. s \in Seq(Message) /\ \A i \in DOMAIN s : Known(s[i], minted, sent)
  BY <1>5, SelectionKnown
<1>7. \/ rcv'[r] = Idle
      \/ rcv'[r] = [queue |-> q, selection |-> s, kept |-> 0, seen |-> {},
                   want |-> Len(s), limit |-> n, timeout |-> t]
  BY <1>1 DEF SqsTypes, Shapes
<1>8. rcv'[r] = Idle \/ ReceiveOK(rcv'[r], minted', sent')
  BY <1>2, <1>6, <1>7, Durations DEF ReceiveOK
<1>9. \A o \in Receivers : o # r => rcv'[o] = rcv[o]
  BY <1>1 DEF SqsTypes, Shapes
<1>10. Receives'
  BY <1>2, <1>8, <1>9 DEF SqsTypes, Receives
<1>11. Basics' /\ Shapes' /\ Tables'
  BY <1>1, <1>2, <1>4 DEF SqsTypes, Basics, Shapes, Tables
<1> QED
  BY <1>10, <1>11 DEF SqsTypes

LEMMA RefillTypes ==
  ASSUME SqsTypes, NEW r \in Receivers, ReceiveRefill(r)
  PROVE  SqsTypes'
<1>q. PICK q : q = rcv[r].queue
  OBVIOUS
<1>s. PICK settled : settled = SettleAll(msgs[q])
  OBVIOUS
<1>1. q \in Queues /\ ReceiveOK(rcv[r], minted, sent)
  BY <1>q DEF ReceiveRefill, SqsTypes, Receives, ReceiveOK
<1>2. PICK taken \in Taken(q, settled, rcv[r].limit) :
        \E s \in FirstOf(q, settled, {m \in Rows(taken) : m.handle \notin rcv[r].seen},
                         rcv[r].want - rcv[r].kept) :
          rcv' = [rcv EXCEPT ![r] = IF s = <<>> THEN Idle ELSE [rcv[r] EXCEPT !.selection = s]]
  BY <1>q, <1>s DEF ReceiveRefill
<1>3. PICK S : S = {m \in Rows(taken) : m.handle \notin rcv[r].seen}
  OBVIOUS
<1>4. PICK s \in FirstOf(q, settled, S, rcv[r].want - rcv[r].kept) :
          rcv' = [rcv EXCEPT ![r] = IF s = <<>> THEN Idle ELSE [rcv[r] EXCEPT !.selection = s]]
  BY <1>2, <1>3
<1>5. /\ msgs' = [msgs EXCEPT ![q] = settled]
      /\ UNCHANGED <<now, queues, goneAt, purgedAt, dlqmark, alias, dedup, seqs, minted, sent,
                     removed, held, accepted>>
  BY <1>q, <1>s DEF ReceiveRefill, queueVars
<1>a. TableOK(q, msgs[q], minted, sent) /\ now \in Nat /\ minted \in Nat /\ sent \in Nat
  BY <1>1 DEF SqsTypes, Basics, Tables
<1>c. minted' \in Nat /\ sent' \in Nat /\ minted <= minted' /\ sent <= sent'
  BY <1>5, <1>a
<1>6. TableOK(q, settled, minted', sent')
  BY <1>a, <1>5, <1>s, SettleAllOK
<1>7. (\A p \in Queues : TableOK(p, msgs'[p], minted', sent')) /\ DOMAIN msgs' = Queues
  BY <1>1, <1>5, <1>6, <1>c, OneTable
<1>8. taken \in Seq(Rows(settled)) /\ S \subseteq Rows(settled)
  <2>1. taken \in Seq(Rows(settled)) /\ \A i \in DOMAIN taken : taken[i] \in Rows(settled)
    BY <1>2, TakenOK
  <2>2. \A m \in Rows(taken) : \E i \in DOMAIN taken : m = taken[i]
    BY DEF Rows
  <2> QED
    BY <1>3, <2>1, <2>2
<1>9. s \in Seq(S)
  BY <1>4, SelectionOK
<1>10. s \in Seq(Message) /\ \A i \in DOMAIN s : Known(s[i], minted, sent)
  BY <1>1, <1>8, <1>9, <1>s, SelectionKnown
<1>11. rcv'[r] = IF s = <<>> THEN Idle ELSE [rcv[r] EXCEPT !.selection = s]
  BY <1>4 DEF SqsTypes, Shapes
<1>b. PICK rec : rec = rcv[r]
  OBVIOUS
<1>12. \/ rcv'[r] = Idle
       \/ rcv'[r] = [queue |-> rec.queue, selection |-> s, kept |-> rec.kept, seen |-> rec.seen,
                    want |-> rec.want, limit |-> rec.limit, timeout |-> rec.timeout]
  BY <1>1, <1>11, <1>b DEF ReceiveOK
<1>13. rcv'[r] = Idle \/ ReceiveOK(rcv'[r], minted', sent')
  BY <1>1, <1>5, <1>10, <1>12, <1>b DEF ReceiveOK
<1>14. \A o \in Receivers : o # r => rcv'[o] = rcv[o]
  BY <1>4 DEF SqsTypes, Shapes
<1>15. Receives'
  BY <1>5, <1>13, <1>14 DEF SqsTypes, Receives
<1>16. Basics' /\ Shapes' /\ Tables'
  BY <1>4, <1>5, <1>7 DEF SqsTypes, Basics, Shapes, Tables
<1> QED
  BY <1>15, <1>16 DEF SqsTypes

\* What a receive becomes once it handled the head of its selection.
AfterHead(rec, rest, kept, h) ==
  [queue |-> rec.queue, selection |-> rest, kept |-> kept, seen |-> rec.seen \cup {h},
   want |-> rec.want, limit |-> rec.limit, timeout |-> rec.timeout]

LEMMA ProgressShape ==
  ASSUME SqsTypes, NEW r \in Receivers, rcv[r] # Idle,
         NEW rest, NEW kept, NEW h, Progress(r, rest, kept, h)
  PROVE  /\ (\A o \in Receivers : o # r => rcv'[o] = rcv[o]) /\ DOMAIN rcv' = Receivers
         /\ rcv'[r] = Idle \/ rcv'[r] = AfterHead(rcv[r], rest, kept, h)
<1>1. ReceiveOK(rcv[r], minted, sent)
  BY DEF SqsTypes, Receives
<1>2. (\A o \in Receivers : o # r => rcv'[o] = rcv[o]) /\ DOMAIN rcv' = Receivers
  BY DEF Progress, SqsTypes, Shapes
<1>3. PICK rec : rec = rcv[r]
  OBVIOUS
<1>4. PICK next : next = [rcv[r] EXCEPT !.selection = rest, !.kept = kept, !.seen = @ \cup {h}]
  OBVIOUS
<1>5. rcv' = [rcv EXCEPT ![r] = IF kept = rcv[r].want THEN Idle ELSE next]
  BY <1>4, Zenon DEF Progress
<1>6. rcv'[r] = Idle \/ rcv'[r] = next
  BY <1>5 DEF SqsTypes, Shapes
<1>7. next = AfterHead(rec, rest, kept, h)
  BY <1>1, <1>3, <1>4 DEF ReceiveOK, AfterHead
<1> QED
  BY <1>2, <1>3, <1>6, <1>7

\* The receives after one of them handled the head of its selection.
LEMMA ProgressTypes ==
  ASSUME SqsTypes, NEW r \in Receivers, rcv[r] # Idle, rcv[r].selection # <<>>,
         NEW kept, NEW h, Progress(r, Tail(rcv[r].selection), kept, h),
         minted' \in Nat, sent' \in Nat, minted <= minted', sent <= sent'
  PROVE  Receives' /\ DOMAIN rcv' = Receivers
<1>1. ReceiveOK(rcv[r], minted, sent)
  BY DEF SqsTypes, Receives
<1>2. (\A o \in Receivers : o # r => rcv'[o] = rcv[o]) /\ DOMAIN rcv' = Receivers
  BY ProgressShape
<1>a. PICK rec : rec = rcv[r]
  OBVIOUS
<1>3. \/ rcv'[r] = Idle
      \/ rcv'[r] = [queue |-> rec.queue, selection |-> Tail(rec.selection), kept |-> kept,
                   seen |-> rec.seen \cup {h}, want |-> rec.want, limit |-> rec.limit,
                   timeout |-> rec.timeout]
  <2>1. PICK tail : tail = Tail(rcv[r].selection) /\ Progress(r, tail, kept, h)
    OBVIOUS
  <2>2. rcv'[r] = Idle \/ rcv'[r] = AfterHead(rcv[r], tail, kept, h)
    BY <2>1, ProgressShape
  <2> QED
    BY <1>a, <2>1, <2>2 DEF AfterHead
<1>4. PICK s \in Seq(Message) : s = rcv[r].selection
  BY <1>1 DEF ReceiveOK
<1>5. Tail(s) \in Seq(Message) /\ \A i \in DOMAIN Tail(s) : i + 1 \in DOMAIN s /\ Tail(s)[i] = s[i + 1]
  BY <1>4
<1>e. \A i \in DOMAIN Tail(s) : Known(Tail(s)[i], minted, sent)
  <2>1. \A i \in DOMAIN s : Known(s[i], minted, sent)
    BY <1>1, <1>4 DEF ReceiveOK
  <2> QED
    BY <1>5, <2>1
<1>6. rcv'[r] = Idle \/ ReceiveOK(rcv'[r], minted, sent)
  <2> SUFFICES ASSUME rcv'[r] # Idle PROVE ReceiveOK(rcv'[r], minted, sent)
    OBVIOUS
  <2>1. PICK x : x = rcv'[r] /\ x = [queue |-> rec.queue, selection |-> Tail(s), kept |-> kept,
                   seen |-> rec.seen \cup {h}, want |-> rec.want, limit |-> rec.limit,
                   timeout |-> rec.timeout]
    BY <1>3, <1>4, <1>a
  <2>2. rec.queue \in Queues /\ rec.timeout \in Nat
    BY <1>1, <1>a DEF ReceiveOK
  <2>3. PICK t : t = Tail(s) /\ t \in Seq(Message) /\ \A i \in DOMAIN t : Known(t[i], minted, sent)
    BY <1>5, <1>e
  <2>4. x.selection = t /\ x.queue = rec.queue /\ x.timeout = rec.timeout /\ x.kept = kept
        /\ x.seen = rec.seen \cup {h} /\ x.want = rec.want /\ x.limit = rec.limit
    BY <2>1, <2>3
  <2>5. ReceiveOK(x, minted, sent)
    BY <2>1, <2>2, <2>3, <2>4 DEF ReceiveOK
  <2> QED
    BY <2>1, <2>5
<1>7. rcv'[r] = Idle \/ ReceiveOK(rcv'[r], minted', sent')
  BY <1>6, KnownGrows DEF SqsTypes, Basics
<1> QED
  BY <1>2, <1>7, KnownGrows DEF SqsTypes, Basics, Receives

LEMMA ArrivedOK ==
  ASSUME NEW m \in Message, NEW handle \in Nat, NEW origin \in Queues \cup {NoQueue}
  PROVE  /\ Arrived(m, handle, origin) \in Message /\ Arrived(m, handle, origin).handle = handle
         /\ Arrived(m, handle, origin).id = m.id /\ Arrived(m, handle, origin).receiveCount = 0
BY DEF Arrived, Message

\* The message a receive is about to handle.
LEMMA HeadOK ==
  ASSUME SqsTypes, NEW r \in Receivers, rcv[r] # Idle, rcv[r].selection # <<>>
  PROVE  /\ rcv[r].queue \in Queues /\ Known(Head(rcv[r].selection), minted, sent)
         /\ rcv[r].timeout \in Nat
<1>1. ReceiveOK(rcv[r], minted, sent)
  BY DEF SqsTypes, Receives
<1>2. PICK s \in Seq(Message) : s = rcv[r].selection /\ \A i \in DOMAIN s : Known(s[i], minted, sent)
  BY <1>1 DEF ReceiveOK
<1>3. 1 \in DOMAIN s /\ Head(s) = s[1]
  BY <1>2
<1> QED
  BY <1>1, <1>2, <1>3 DEF ReceiveOK

\* Receive r redrives the message m of q to target, where it is the record x.
Redriving(r, q, m, target, x) ==
  /\ rcv[r] # Idle /\ rcv[r].selection # <<>>
  /\ q = rcv[r].queue /\ q \in Queues /\ target \in Queues \ {q}
  /\ m = Head(rcv[r].selection) /\ Known(m, minted, sent)
  /\ x \in Message /\ x.handle = minted + 1 /\ x.id = m.id /\ x.receiveCount = 0
  /\ minted' = minted + 1
  /\ msgs' = AfterMove(msgs, q, m.handle, target, x)
  /\ msgs'[q] = Drop(msgs[q], {m.handle}) /\ msgs'[target] = Put(msgs[target], x.handle, x)
  /\ \A p \in Queues \ {q, target} : msgs'[p] = msgs[p]
  /\ held' = [held EXCEPT ![q] = Drop(@, {h \in DOMAIN @ : @[h] = m.id})]
  /\ Progress(r, Tail(rcv[r].selection), rcv[r].kept, m.handle)
  /\ UNCHANGED <<now, queues, goneAt, purgedAt, dlqmark, alias, dedup, seqs, sent, removed,
                 accepted>>

LEMMA RedriveShape ==
  ASSUME SqsTypes, NEW r \in Receivers, ReceiveRedrives(r)
  PROVE  \E q, m, target, x : Redriving(r, q, m, target, x)
<1>1. PICK q : q = rcv[r].queue
  OBVIOUS
<1>2. PICK m : m = Head(rcv[r].selection)
  OBVIOUS
<1>3. PICK target : target = Redrive[q].dlq
  OBVIOUS
<1>4. rcv[r] # Idle /\ rcv[r].selection # <<>>
  BY DEF ReceiveRedrives
<1>5. PICK x : x = Arrived(m, minted + 1, IF m.origin = NoQueue THEN q ELSE m.origin)
  OBVIOUS
<1>6. /\ Exceeds(q, m) /\ minted' = minted + 1
      /\ msgs' = AfterMove(msgs, q, m.handle, target, x)
      /\ held' = [held EXCEPT ![q] = Drop(@, {h \in DOMAIN @ : @[h] = m.id})]
      /\ Progress(r, Tail(rcv[r].selection), rcv[r].kept, m.handle)
      /\ UNCHANGED <<now, queues, goneAt, purgedAt, dlqmark, alias, dedup, seqs, sent, removed,
                     accepted>>
  BY <1>1, <1>2, <1>3, <1>5 DEF ReceiveRedrives, queueVars
<1>7. q \in Queues /\ Known(m, minted, sent)
  BY <1>1, <1>2, <1>4, HeadOK
<1>8. target \in Queues /\ target # q
  BY <1>3, <1>6, <1>7, Policies DEF Exceeds
<1>9. /\ minted \in Nat /\ sent \in Nat /\ minted' \in Nat /\ sent' \in Nat
      /\ minted <= minted' /\ sent <= sent'
  BY <1>6 DEF SqsTypes, Basics
<1>10. x \in Message /\ x.handle = minted + 1 /\ x.id = m.id /\ x.receiveCount = 0
  <2>1. m \in Message /\ m.origin \in Queues \cup {NoQueue}
    BY <1>7 DEF Known, Message
  <2>2. PICK origin \in Queues \cup {NoQueue} : origin = IF m.origin = NoQueue THEN q ELSE m.origin
    BY <1>7, <2>1
  <2>3. minted + 1 \in Nat
    BY <1>9
  <2> QED
    BY <1>5, <2>1, <2>2, <2>3, ArrivedOK
<1>11. /\ msgs'[q] = Drop(msgs[q], {m.handle}) /\ msgs'[target] = Put(msgs[target], x.handle, x)
       /\ \A p \in Queues \ {q, target} : msgs'[p] = msgs[p]
  BY <1>6, <1>7, <1>8 DEF AfterMove, SqsTypes, Shapes
<1>12. target \in Queues \ {q}
  BY <1>8
<1> QED
  BY <1>1, <1>2, <1>4, <1>6, <1>7, <1>10, <1>11, <1>12, Zenon DEF Redriving

LEMMA RedriveTypes ==
  ASSUME SqsTypes, NEW r \in Receivers, ReceiveRedrives(r)
  PROVE  SqsTypes'
<1>1. PICK q, m, target, x : Redriving(r, q, m, target, x)
  BY RedriveShape
<1>6. /\ minted' = minted + 1
      /\ UNCHANGED <<now, queues, goneAt, purgedAt, dlqmark, alias, dedup, seqs, sent, removed,
                     accepted>>
  BY <1>1 DEF Redriving
<1>8. /\ q \in Queues /\ target \in Queues /\ target # q /\ Known(m, minted, sent)
      /\ DOMAIN held' = DOMAIN held
  BY <1>1 DEF Redriving
<1>9. /\ minted \in Nat /\ sent \in Nat /\ minted' \in Nat /\ sent' \in Nat
      /\ minted <= minted' /\ sent <= sent'
  BY <1>6 DEF SqsTypes, Basics
<1>10. x \in Message /\ x.handle = minted + 1 /\ x.id = m.id /\ x.receiveCount = 0
  BY <1>1 DEF Redriving
<1>11. Known(x, minted', sent') /\ Within(target, x)
  BY <1>6, <1>8, <1>9, <1>10, Policies DEF Known, Within
<1>12. \A p \in Queues : TableOK(p, msgs[p], minted', sent')
  BY <1>9, KnownGrows DEF SqsTypes, Tables
<1>13. /\ TableOK(q, Drop(msgs[q], {m.handle}), minted', sent')
       /\ TableOK(target, Put(msgs[target], x.handle, x), minted', sent')
  BY <1>8, <1>11, <1>12, DropOK, PutOK
<1>14. /\ msgs'[q] = Drop(msgs[q], {m.handle}) /\ msgs'[target] = Put(msgs[target], x.handle, x)
       /\ \A p \in Queues \ {q, target} : msgs'[p] = msgs[p]
       /\ DOMAIN msgs' = Queues
  BY <1>1 DEF Redriving, AfterMove, SqsTypes, Shapes
<1>15. Tables'
  BY <1>6, <1>9, <1>12, <1>13, <1>14, KnownGrows DEF Tables, SqsTypes
<1>16. Receives' /\ DOMAIN rcv' = Receivers
  BY <1>1, <1>9, ProgressTypes DEF Redriving
<1>17. Basics' /\ Shapes'
  BY <1>6, <1>8, <1>9, <1>14, <1>16 DEF SqsTypes, Basics, Shapes
<1> QED
  BY <1>15, <1>16, <1>17 DEF SqsTypes

\* A record under its new handle, out with a consumer.
Delivered(m, handle, until) ==
  [m EXCEPT !.handle = handle, !.receiveCount = @ + 1, !.state = "invisible", !.reappear = until]

LEMMA DeliveredOK ==
  ASSUME NEW m \in Message, NEW handle \in Nat, NEW until \in Nat
  PROVE  /\ Delivered(m, handle, until) \in Message /\ Delivered(m, handle, until).handle = handle
         /\ Delivered(m, handle, until).id = m.id
         /\ Delivered(m, handle, until).receiveCount = m.receiveCount + 1
<1>1. m.receiveCount \in Nat /\ m.receiveCount + 1 \in Nat
  BY DEF Message
<1>2. PICK x : x = Delivered(m, handle, until)
  OBVIOUS
<1>3. x = [id |-> m.id, handle |-> handle, group |-> m.group, seq |-> m.seq,
           receiveCount |-> m.receiveCount + 1, state |-> "invisible", reappear |-> until,
           sentAt |-> m.sentAt, origin |-> m.origin]
  BY <1>2 DEF Delivered, Message
<1> QED
  BY <1>1, <1>2, <1>3 DEF Message

\* Receive r hands out the message m of q as the record x.
Delivering(r, q, m, x) ==
  /\ rcv[r] # Idle /\ rcv[r].selection # <<>>
  /\ q = rcv[r].queue /\ q \in Queues /\ ~ Exceeds(q, m)
  /\ m = Head(rcv[r].selection) /\ Known(m, minted, sent)
  /\ x \in Message /\ x.id = m.id /\ x.receiveCount = m.receiveCount + 1
  /\ \/ x.handle = m.handle /\ minted' = minted
     \/ x.handle = minted + 1 /\ minted' = minted + 1
  /\ msgs' = [msgs EXCEPT ![q] = Rekeyed(@, m.handle, x)]
  /\ alias' = [alias EXCEPT ![q] = Aliased(@, m.handle, x.handle)]
  /\ held' = [held EXCEPT ![q] = Put(@, x.handle, m.id)]
  /\ Progress(r, Tail(rcv[r].selection), rcv[r].kept + 1, m.handle)
  /\ UNCHANGED <<now, queues, goneAt, purgedAt, dlqmark, dedup, seqs, sent, removed, accepted>>

LEMMA DeliverShape ==
  ASSUME SqsTypes, NEW r \in Receivers, ReceiveDelivers(r)
  PROVE  \E q, m, x : Delivering(r, q, m, x)
<1>1. PICK q : q = rcv[r].queue
  OBVIOUS
<1>2. PICK m : m = Head(rcv[r].selection)
  OBVIOUS
<1>3. PICK handle : handle = IF m.receiveCount > 0 THEN minted + 1 ELSE m.handle
  OBVIOUS
<1>4. rcv[r] # Idle /\ rcv[r].selection # <<>>
  BY DEF ReceiveDelivers
<1>5. PICK x : x = Delivered(m, handle, now + rcv[r].timeout)
  OBVIOUS
<1>6. /\ ~ Exceeds(q, m) /\ minted' = IF m.receiveCount > 0 THEN minted + 1 ELSE minted
      /\ msgs' = [msgs EXCEPT ![q] = Rekeyed(@, m.handle, x)]
      /\ alias' = [alias EXCEPT ![q] = Aliased(@, m.handle, handle)]
      /\ held' = [held EXCEPT ![q] = Put(@, handle, m.id)]
      /\ Progress(r, Tail(rcv[r].selection), rcv[r].kept + 1, m.handle)
      /\ UNCHANGED <<now, queues, goneAt, purgedAt, dlqmark, dedup, seqs, sent, removed,
                     accepted>>
  BY <1>1, <1>2, <1>3, <1>5 DEF ReceiveDelivers, queueVars, Delivered
<1>7. q \in Queues /\ Known(m, minted, sent) /\ rcv[r].timeout \in Nat
  BY <1>1, <1>2, <1>4, HeadOK
<1>8. m \in Message /\ m.receiveCount \in Nat /\ m.handle \in 1 .. minted
  BY <1>7 DEF Known, Message
<1>9. /\ minted \in Nat /\ sent \in Nat /\ minted' \in Nat /\ sent' \in Nat
      /\ minted <= minted' /\ sent <= sent' /\ now \in Nat /\ handle \in 1 .. minted'
  BY <1>3, <1>6, <1>8 DEF SqsTypes, Basics
<1>10. /\ x \in Message /\ x.handle = handle /\ x.id = m.id
       /\ x.receiveCount = m.receiveCount + 1
  <2>1. handle \in Nat
    BY <1>9
  <2>2. PICK until \in Nat : until = now + rcv[r].timeout
    BY <1>7, <1>9
  <2> QED
    BY <1>5, <1>8, <2>1, <2>2, DeliveredOK
<1>11. \/ x.handle = m.handle /\ minted' = minted
       \/ x.handle = minted + 1 /\ minted' = minted + 1
  BY <1>3, <1>6, <1>10
<1> QED
  BY <1>1, <1>2, <1>4, <1>6, <1>7, <1>10, <1>11 DEF Delivering

LEMMA DeliverTypes ==
  ASSUME SqsTypes, NEW r \in Receivers, ReceiveDelivers(r)
  PROVE  SqsTypes'
<1>1. PICK q, m, x : Delivering(r, q, m, x)
  BY DeliverShape
<1>6. /\ ~ Exceeds(q, m)
      /\ msgs' = [msgs EXCEPT ![q] = Rekeyed(msgs[q], m.handle, x)]
      /\ alias' = [alias EXCEPT ![q] = Aliased(alias[q], m.handle, x.handle)]
      /\ DOMAIN held' = DOMAIN held
      /\ UNCHANGED <<now, queues, goneAt, purgedAt, dlqmark, dedup, seqs, sent, removed,
                     accepted>>
  BY <1>1 DEF Delivering
<1>7. q \in Queues /\ Known(m, minted, sent)
  BY <1>1 DEF Delivering
<1>8. m \in Message /\ m.receiveCount \in Nat /\ m.handle \in 1 .. minted
  BY <1>7 DEF Known, Message
<1>9. /\ minted \in Nat /\ sent \in Nat /\ minted' \in Nat /\ sent' \in Nat
      /\ minted <= minted' /\ sent <= sent' /\ x.handle \in 1 .. minted'
  BY <1>1, <1>6, <1>8 DEF Delivering, SqsTypes, Basics
<1>10. x \in Message /\ x.id = m.id /\ x.receiveCount = m.receiveCount + 1
  BY <1>1 DEF Delivering
<1>11. Known(x, minted', sent')
  BY <1>6, <1>7, <1>9, <1>10 DEF Known
<1>12. Within(q, x)
  BY <1>6, <1>7, <1>8, <1>10, Policies DEF Within, Exceeds
<1>13. TableOK(q, Rekeyed(msgs[q], m.handle, x), minted', sent')
  <2>1. TableOK(q, msgs[q], minted', sent')
    BY <1>7, <1>9, KnownGrows DEF SqsTypes, Tables
  <2>2. PICK table : table = Drop(msgs[q], {m.handle}) /\ TableOK(q, table, minted', sent')
    BY <2>1, DropOK
  <2> QED
    BY <1>11, <1>12, <2>2, PutOK DEF Rekeyed
<1>14. (\A p \in Queues : TableOK(p, msgs'[p], minted', sent')) /\ DOMAIN msgs' = Queues
  BY <1>6, <1>7, <1>9, <1>13, OneTable
<1>15. AliasesOK(Aliased(alias[q], m.handle, x.handle), minted')
  BY <1>7, <1>8, <1>9 DEF SqsTypes, Tables, AliasesOK, Aliased, Put
<1>16. (\A p \in Queues : AliasesOK(alias'[p], minted')) /\ DOMAIN alias' = Queues
  BY <1>6, <1>7, <1>9, <1>15, OneAlias
<1>17. Receives' /\ DOMAIN rcv' = Receivers
  BY <1>1, <1>9, ProgressTypes DEF Delivering
<1>18. Basics' /\ Shapes'
  BY <1>6, <1>9, <1>14, <1>16, <1>17 DEF SqsTypes, Basics, Shapes
<1> QED
  BY <1>14, <1>16, <1>17, <1>18 DEF SqsTypes, Tables

LEMMA ReadTypes ==
  ASSUME SqsTypes, NEW q \in Queues,
         GetQueueAttributes(q)
         \/ \E h \in 1 .. minted : DeleteMessage(q, h)
                                   \/ \E t \in Timeouts : ChangeMessageVisibility(q, h, t)
  PROVE  SqsTypes'
<1>n. now \in Nat /\ minted \in Nat /\ sent \in Nat /\ TableOK(q, msgs[q], minted, sent)
  BY DEF SqsTypes, Basics, Tables
<1>1. CASE GetQueueAttributes(q)
  <2>1. PICK settled : settled = SettleAll(msgs[q]) /\ TableOK(q, settled, minted, sent)
    BY <1>n, SettleAllOK
  <2>2. /\ msgs' = [msgs EXCEPT ![q] = settled]
        /\ UNCHANGED <<now, queues, goneAt, purgedAt, dlqmark, alias, dedup, seqs, minted, rcv,
                       sent, removed, held, accepted>>
    BY <1>1, <2>1 DEF GetQueueAttributes, queueVars
  <2>3. /\ minted' \in Nat /\ sent' \in Nat /\ minted <= minted' /\ sent <= sent'
        /\ TableOK(q, settled, minted', sent')
    BY <1>n, <2>1, <2>2
  <2>4. (\A p \in Queues : TableOK(p, msgs'[p], minted', sent')) /\ DOMAIN msgs' = Queues
    BY <2>2, <2>3, OneTable
  <2> QED
    BY <2>2, <2>4 DEF SqsTypes, Basics, Shapes, Tables, Receives
<1>2. ASSUME NEW h \in 1 .. minted, DeleteMessage(q, h) PROVE SqsTypes'
  <2>1. PICK read : read = ReadMessage(q, h)
    OBVIOUS
  <2>2. PICK table : table = IF read.found /\ ~ (q \in FifoQueues /\ read.found
                                                 /\ read.msg.receiveCount > 0
                                                 /\ read.msg.state = "visible")
                             THEN Drop(read.table, {h}) ELSE read.table
    OBVIOUS
  <2>3. /\ alias' = [alias EXCEPT ![q] = read.aliases] /\ msgs' = [msgs EXCEPT ![q] = table]
        /\ removed' = removed \/ (read.found /\ removed' = removed \cup {read.msg.id})
        /\ UNCHANGED <<now, queues, goneAt, purgedAt, dlqmark, dedup, seqs, minted, rcv, sent,
                       held, accepted>>
    BY <1>2, <2>1, <2>2 DEF DeleteMessage, queueVars
  <2>4. /\ TableOK(q, read.table, minted, sent) /\ AliasesOK(read.aliases, minted)
        /\ read.found => Known(read.msg, minted, sent)
    BY <2>1, ReadOK
  <2>5. TableOK(q, table, minted, sent)
    BY <2>2, <2>4, DropOK
  <2>6. /\ minted' \in Nat /\ sent' \in Nat /\ minted <= minted' /\ sent <= sent'
        /\ TableOK(q, table, minted', sent') /\ AliasesOK(read.aliases, minted')
    BY <1>n, <2>3, <2>4, <2>5
  <2>7. (\A p \in Queues : TableOK(p, msgs'[p], minted', sent')) /\ DOMAIN msgs' = Queues
    BY <2>3, <2>6, OneTable
  <2>8. (\A p \in Queues : AliasesOK(alias'[p], minted')) /\ DOMAIN alias' = Queues
    BY <2>3, <2>6, OneAlias
  <2>9. removed' \subseteq 1 .. sent
    BY <2>3, <2>4 DEF Known, SqsTypes, Basics
  <2> QED
    BY <2>3, <2>7, <2>8, <2>9 DEF SqsTypes, Basics, Shapes, Tables, Receives
<1>3. ASSUME NEW h \in 1 .. minted, NEW t \in Timeouts, ChangeMessageVisibility(q, h, t)
      PROVE  SqsTypes'
  <2>1. PICK read : read = ReadMessage(q, h)
    OBVIOUS
  <2>2. PICK x : x = [read.msg EXCEPT !.state = "invisible", !.reappear = now + t]
    OBVIOUS
  <2>3. /\ alias' = [alias EXCEPT ![q] = Aliased(alias[q], h, read.key)] /\ read.found
        /\ msgs' = [msgs EXCEPT ![q] = Put(msgs[q], read.key, x)]
        /\ UNCHANGED <<now, queues, goneAt, purgedAt, dlqmark, dedup, seqs, minted, rcv, sent,
                       removed, held, accepted>>
    BY <1>3, <2>1, <2>2 DEF ChangeMessageVisibility, queueVars
  <2>4. /\ Known(read.msg, minted, sent) /\ Within(q, read.msg) /\ read.msg.handle = read.key
        /\ read.key \in DOMAIN msgs[q]
    BY <2>1, <2>3, ReadOK
  <2>5. PICK m \in Message : m = read.msg
    BY <2>4 DEF Known
  <2>6. PICK until \in Nat : until = now + t
    BY <1>n, Durations
  <2>7. /\ x \in Message /\ x.handle = m.handle /\ x.id = m.id
        /\ x.receiveCount = m.receiveCount
    BY <2>2, <2>5, <2>6 DEF Message
  <2>8. Known(x, minted, sent) /\ Within(q, x) /\ x.handle = read.key
    BY <2>4, <2>5, <2>7 DEF Known, Within
  <2>9. TableOK(q, Put(msgs[q], read.key, x), minted, sent)
    BY <1>n, <2>8, PutOK
  <2>10. AliasesOK(Aliased(alias[q], h, read.key), minted)
    <3>1. read.key \in 1 .. minted
      BY <2>4 DEF Known
    <3> QED
      BY <1>3, <3>1 DEF SqsTypes, Tables, AliasesOK, Aliased, Put
  <2>11. /\ minted' \in Nat /\ sent' \in Nat /\ minted <= minted' /\ sent <= sent'
         /\ TableOK(q, Put(msgs[q], read.key, x), minted', sent')
         /\ AliasesOK(Aliased(alias[q], h, read.key), minted')
    BY <1>n, <2>3, <2>9, <2>10
  <2>12. (\A p \in Queues : TableOK(p, msgs'[p], minted', sent')) /\ DOMAIN msgs' = Queues
    BY <2>3, <2>11, OneTable
  <2>13. (\A p \in Queues : AliasesOK(alias'[p], minted')) /\ DOMAIN alias' = Queues
    BY <2>3, <2>11, OneAlias
  <2> QED
    BY <2>3, <2>12, <2>13 DEF SqsTypes, Basics, Shapes, Tables, Receives
<1> QED
  BY <1>1, <1>2, <1>3

-----------------------------------------------------------------------------
(* What a message move does: the rows E of q go to the queues to[m] under  *)
(* the handles num[m].                                                     *)

Moves(q, E, to, num) ==
  /\ E \subseteq Rows(SettleAll(msgs[q]))
  /\ to \in [E -> Queues \ {q}]
  /\ num \in [E -> (minted + 1) .. minted']
  /\ \A a, b \in E : num[a] = num[b] => a = b
  /\ msgs'[q] = Drop(SettleAll(msgs[q]), {m.handle : m \in E})
  /\ \A t \in Queues \ {q} :
       /\ \A h \in DOMAIN msgs'[t] :
            h \in DOMAIN msgs[t] \/ \E m \in E : to[m] = t /\ num[m] = h
       /\ \A h \in DOMAIN msgs[t] : h \in DOMAIN msgs'[t] /\ msgs'[t][h] = msgs[t][h]
       /\ \A m \in E : to[m] = t => num[m] \in DOMAIN msgs'[t]
                                    /\ msgs'[t][num[m]] = Arrived(m, num[m], m.origin)
  /\ held' = [held EXCEPT ![q] = Drop(@, {h \in DOMAIN @ : \E m \in E : m.id = @[h]})]

LEMMA MoveShape ==
  ASSUME SqsTypes, NEW q \in Queues, NEW dest \in Queues \cup {NoQueue},
         StartMessageMoveTask(q, dest)
  PROVE  /\ \E E, to, num : Moves(q, E, to, num)
         /\ minted' \in Nat /\ minted <= minted' /\ DOMAIN msgs' = Queues
         /\ UNCHANGED <<now, queues, goneAt, purgedAt, dlqmark, alias, dedup, seqs, rcv, sent,
                        removed, accepted>>
<1> DEFINE target(m) == IF dest # NoQueue THEN dest ELSE m.origin
<1>1. PICK settled : settled = SettleAll(msgs[q])
  OBVIOUS
<1>2. /\ TableOK(q, settled, minted, sent) /\ minted \in Nat /\ now \in Nat
      /\ \A t \in Queues : TableOK(t, msgs[t], minted, sent)
  BY <1>1, SettleAllOK DEF SqsTypes, Basics, Tables
<1>3. PICK E : E = {m \in Rows(settled) : target(m) \notin {NoQueue, q}}
  OBVIOUS
<1> DEFINE handleOf(m) == minted + Cardinality({x \in E : x.handle <= m.handle})
           arrivals(t) == {Arrived(m, handleOf(m), m.origin) : m \in {x \in E : target(x) = t}}
<1>4. /\ minted' = minted + Cardinality(E)
      /\ msgs' = [t \in Queues |->
          IF t = q THEN Drop(settled, {m.handle : m \in E})
          ELSE [h \in DOMAIN msgs[t] \cup {m.handle : m \in arrivals(t)} |->
                  IF h \in DOMAIN msgs[t] THEN msgs[t][h]
                  ELSE CHOOSE m \in arrivals(t) : m.handle = h]]
      /\ held' = [held EXCEPT ![q] = Drop(@, {h \in DOMAIN @ : \E m \in E : m.id = @[h]})]
      /\ UNCHANGED <<now, queues, goneAt, purgedAt, dlqmark, alias, dedup, seqs, rcv, sent,
                     removed, accepted>>
  BY <1>1, <1>3 DEF StartMessageMoveTask, queueVars
<1>5. \A m \in E : /\ m \in Message /\ m.handle \in 1 .. minted /\ m.handle \in DOMAIN settled
                   /\ settled[m.handle] = m /\ target(m) \in Queues \ {q}
  <2> SUFFICES ASSUME NEW m \in E
               PROVE  /\ m \in Message /\ m.handle \in 1 .. minted /\ m.handle \in DOMAIN settled
                      /\ settled[m.handle] = m /\ target(m) \in Queues \ {q}
    OBVIOUS
  <2>1. PICK h \in DOMAIN settled : m = settled[h]
    BY <1>3 DEF Rows
  <2>2. m \in Message /\ m.handle = h /\ m.handle \in 1 .. minted
    BY <1>2, <2>1 DEF TableOK, Known
  <2>3. target(m) \in Queues \cup {NoQueue} /\ target(m) \notin {NoQueue, q}
    BY <1>3, <2>2 DEF Message
  <2> QED
    BY <2>1, <2>2, <2>3
<1>6. IsFiniteSet(E) /\ Cardinality(E) \in Nat
  <2>1. PICK f : f = [m \in E |-> m.handle]
    OBVIOUS
  <2>2. f \in [E -> 1 .. minted] /\ \A a, b \in E : f[a] = f[b] => a = b
    BY <1>5, <2>1
  <2>3. f \in Injection(E, 1 .. minted)
    BY <2>2 DEF Injection, IsInjective
  <2>4. IsFiniteSet(1 .. minted)
    BY <1>2, FS_Interval
  <2> QED
    BY <2>3, <2>4, FS_Injection, FS_CardinalityType
<1> DEFINE upTo(m) == {x \in E : x.handle <= m.handle}
<1>7. \A m \in E : IsFiniteSet(upTo(m)) /\ Cardinality(upTo(m)) \in 1 .. Cardinality(E)
  <2> SUFFICES ASSUME NEW m \in E
               PROVE  IsFiniteSet(upTo(m)) /\ Cardinality(upTo(m)) \in 1 .. Cardinality(E)
    OBVIOUS
  <2>1. m \in upTo(m) /\ upTo(m) \in SUBSET E
    BY <1>5
  <2> HIDE DEF upTo
  <2>2. IsFiniteSet(upTo(m)) /\ Cardinality(upTo(m)) <= Cardinality(E)
    BY <1>6, <2>1, FS_Subset
  <2>3. Cardinality(upTo(m)) \in Nat /\ Cardinality(upTo(m)) # 0
    BY <2>1, <2>2, FS_CardinalityType, FS_EmptySet
  <2> QED
    BY <1>6, <2>2, <2>3
<1>8. \A a, b \in E : a.handle < b.handle => Cardinality(upTo(a)) # Cardinality(upTo(b))
  <2> SUFFICES ASSUME NEW a \in E, NEW b \in E, a.handle < b.handle
               PROVE  Cardinality(upTo(a)) # Cardinality(upTo(b))
    OBVIOUS
  <2>1. upTo(a) \in SUBSET upTo(b) /\ b \in upTo(b) /\ b \notin upTo(a)
    BY <1>5
  <2> HIDE DEF upTo
  <2>2. IsFiniteSet(upTo(b))
    BY <1>7
  <2> QED
    BY <2>1, <2>2, FS_Subset
<1>9. PICK to : to = [m \in E |-> target(m)]
  OBVIOUS
<1>10. PICK num : num = [m \in E |-> handleOf(m)]
  OBVIOUS
<1>11. to \in [E -> Queues \ {q}]
  BY <1>5, <1>9
<1>12. \A m \in E : handleOf(m) = minted + Cardinality(upTo(m))
  OBVIOUS
<1>13. num \in [E -> (minted + 1) .. minted'] /\ \A a, b \in E : num[a] = num[b] => a = b
  <2> HIDE DEF handleOf, upTo
  <2>1. PICK card : card = [m \in E |-> Cardinality(upTo(m))]
    OBVIOUS
  <2>2. PICK all \in Nat : all = Cardinality(E)
    BY <1>6
  <2>3. \A m \in E : card[m] \in 1 .. all /\ num[m] = minted + card[m]
    BY <1>7, <1>10, <1>12, <2>1, <2>2
  <2>4. minted' = minted + all
    BY <1>4, <2>2
  <2>5. \A m \in E : num[m] \in (minted + 1) .. minted'
    BY <1>2, <2>2, <2>3, <2>4
  <2>6. ASSUME NEW a \in E, NEW b \in E, num[a] = num[b] PROVE a = b
    <3>1. card[a] = card[b]
      BY <1>2, <2>2, <2>3, <2>6
    <3>2. ~ (a.handle < b.handle) /\ ~ (b.handle < a.handle)
      BY <1>8, <2>1, <3>1
    <3>3. a.handle = b.handle
      BY <1>2, <1>5, <3>2
    <3> QED
      BY <1>5, <3>3
  <2> QED
    BY <1>10, <2>5, <2>6
<1> HIDE DEF handleOf, upTo
<1>14. ASSUME NEW t \in Queues \ {q}
       PROVE /\ \A h \in DOMAIN msgs'[t] :
                  h \in DOMAIN msgs[t] \/ \E m \in E : to[m] = t /\ num[m] = h
             /\ \A h \in DOMAIN msgs[t] : h \in DOMAIN msgs'[t] /\ msgs'[t][h] = msgs[t][h]
             /\ \A m \in E : to[m] = t => num[m] \in DOMAIN msgs'[t]
                                    /\ msgs'[t][num[m]] = Arrived(m, num[m], m.origin)
  <2>1. msgs'[t] = [h \in DOMAIN msgs[t] \cup {m.handle : m \in arrivals(t)} |->
                  IF h \in DOMAIN msgs[t] THEN msgs[t][h]
                  ELSE CHOOSE m \in arrivals(t) : m.handle = h]
    BY <1>4
  <2>2. \A m \in E : to[m] = t => Arrived(m, num[m], m.origin) \in arrivals(t)
    BY <1>9, <1>10
  <2>3. \A m \in E : Arrived(m, num[m], m.origin).handle = num[m] /\ num[m] > minted
    <3> SUFFICES ASSUME NEW m \in E
                 PROVE  Arrived(m, num[m], m.origin).handle = num[m] /\ num[m] > minted
      OBVIOUS
    <3>1. num[m] \in Nat /\ num[m] > minted
      BY <1>2, <1>13
    <3>2. m \in Message /\ m.origin \in Queues \cup {NoQueue}
      BY <1>5 DEF Message
    <3> QED
      BY <3>1, <3>2, ArrivedOK
  <2>4. \A x \in arrivals(t) : \E m \in E : to[m] = t /\ x = Arrived(m, num[m], m.origin)
    BY <1>9, <1>10
  <2>5. \A h \in DOMAIN msgs[t] : h \in 1 .. minted
    BY <1>2 DEF TableOK, Known
  <2> HIDE DEF arrivals
  <2>6. ASSUME NEW m \in E, to[m] = t
        PROVE  num[m] \in DOMAIN msgs'[t] /\ msgs'[t][num[m]] = Arrived(m, num[m], m.origin)
    <3>1. PICK x : x = Arrived(m, num[m], m.origin) /\ x \in arrivals(t) /\ x.handle = num[m]
      BY <2>2, <2>3, <2>6
    <3>2. num[m] \notin DOMAIN msgs[t]
      BY <1>2, <2>3, <2>5, <1>13
    <3>3. num[m] \in DOMAIN msgs'[t]
          /\ msgs'[t][num[m]] = CHOOSE y \in arrivals(t) : y.handle = num[m]
      BY <2>1, <3>1, <3>2
    <3>4. PICK y : y = CHOOSE z \in arrivals(t) : z.handle = num[m]
      OBVIOUS
    <3>5. y \in arrivals(t) /\ y.handle = num[m]
      BY <3>1, <3>4
    <3>6. PICK w \in E : to[w] = t /\ y = Arrived(w, num[w], w.origin)
      BY <2>4, <3>5
    <3>7. num[w] = num[m]
      BY <2>3, <3>5, <3>6
    <3>8. w = m
      BY <1>13, <3>7
    <3> QED
      BY <3>3, <3>4, <3>6, <3>8
  <2>7. \A h \in DOMAIN msgs'[t] : h \in DOMAIN msgs[t] \/ \E m \in E : to[m] = t /\ num[m] = h
    BY <2>1, <2>3, <2>4
  <2> QED
    BY <2>1, <2>6, <2>7
<1>15. DOMAIN msgs' = Queues /\ msgs'[q] = Drop(settled, {m.handle : m \in E})
  BY <1>4
<1>16. Moves(q, E, to, num)
  BY <1>1, <1>3, <1>4, <1>11, <1>13, <1>14, <1>15 DEF Moves
<1> QED
  BY <1>2, <1>4, <1>6, <1>15, <1>16

LEMMA MoveTypes ==
  ASSUME SqsTypes, NEW q \in Queues, NEW dest \in Queues \cup {NoQueue},
         StartMessageMoveTask(q, dest)
  PROVE  SqsTypes'
<1>1. PICK E, to, num : Moves(q, E, to, num)
  BY MoveShape
<1>2. /\ minted' \in Nat /\ minted <= minted' /\ DOMAIN msgs' = Queues
      /\ UNCHANGED <<now, queues, goneAt, purgedAt, dlqmark, alias, dedup, seqs, rcv, sent,
                     removed, accepted>>
  BY MoveShape
<1>3. /\ minted \in Nat /\ sent \in Nat /\ sent' \in Nat /\ sent <= sent' /\ now \in Nat
      /\ \A t \in Queues : TableOK(t, msgs[t], minted, sent) /\ TableOK(t, msgs[t], minted', sent')
  BY <1>2, KnownGrows DEF SqsTypes, Basics, Tables
<1>4. TableOK(q, SettleAll(msgs[q]), minted, sent)
  BY <1>3, SettleAllOK
<1>5. TableOK(q, msgs'[q], minted', sent')
  <2>1. TableOK(q, Drop(SettleAll(msgs[q]), {m.handle : m \in E}), minted, sent)
    BY <1>4, DropOK
  <2> QED
    BY <1>1, <1>2, <1>3, <2>1, KnownGrows DEF Moves
<1>6. ASSUME NEW t \in Queues \ {q} PROVE TableOK(t, msgs'[t], minted', sent')
  <2> SUFFICES ASSUME NEW h \in DOMAIN msgs'[t]
               PROVE  /\ msgs'[t][h].handle = h /\ Known(msgs'[t][h], minted', sent')
                      /\ Within(t, msgs'[t][h])
    BY DEF TableOK
  <2>1. CASE h \in DOMAIN msgs[t]
    BY <1>1, <1>3, <2>1 DEF Moves, TableOK
  <2>2. ASSUME NEW m \in E, to[m] = t, num[m] = h
        PROVE  /\ msgs'[t][h].handle = h /\ Known(msgs'[t][h], minted', sent')
               /\ Within(t, msgs'[t][h])
    <3>1. num[m] \in (minted + 1) .. minted' /\ msgs'[t][num[m]] = Arrived(m, num[m], m.origin)
      BY <1>1, <2>2 DEF Moves
    <3>2. m \in Rows(SettleAll(msgs[q]))
      BY <1>1 DEF Moves
    <3>3. Known(m, minted, sent)
      BY <1>4, <3>2 DEF TableOK, Rows
    <3>4. m \in Message /\ m.origin \in Queues \cup {NoQueue} /\ m.id \in 1 .. sent
      BY <3>3 DEF Known, Message
    <3>5. h \in Nat /\ h \in 1 .. minted'
      BY <1>2, <1>3, <2>2, <3>1
    <3>6. PICK x : x = Arrived(m, h, m.origin)
      OBVIOUS
    <3>7. x \in Message /\ x.handle = h /\ x.id = m.id /\ x.receiveCount = 0
      BY <3>4, <3>5, <3>6, ArrivedOK
    <3>8. Known(x, minted', sent') /\ Within(t, x)
      BY <1>2, <3>4, <3>5, <3>7, Policies DEF Known, Within
    <3> QED
      BY <2>2, <3>1, <3>6, <3>7, <3>8
  <2> QED
    BY <1>1, <2>1, <2>2 DEF Moves
<1>7. Tables'
  BY <1>2, <1>3, <1>5, <1>6, KnownGrows DEF Tables, SqsTypes
<1>8. Receives'
  BY <1>2, <1>3, KnownGrows DEF SqsTypes, Receives
<1>9. Basics' /\ Shapes'
  BY <1>1, <1>2 DEF SqsTypes, Basics, Shapes, Moves
<1> QED
  BY <1>7, <1>8, <1>9 DEF SqsTypes

LEMMA TickTypes ==
  ASSUME SqsTypes, Tick
  PROVE  SqsTypes'
BY DEF Tick, queueVars, SqsTypes, Basics, Shapes, Tables, Receives

LEMMA StepTypes ==
  ASSUME SqsTypes, [Next]_vars
  PROVE  SqsTypes'
<1>1. CASE UNCHANGED vars
  BY <1>1 DEF vars, SqsTypes, Basics, Shapes, Tables, Receives
<1>2. CASE Next
  BY <1>2, QueueTypes, ReadTypes, SendTypes, BeginTypes, MoveTypes, RedriveTypes, DeliverTypes,
     RefillTypes, TickTypes DEF Next
<1> QED
  BY <1>1, <1>2

\* Every accepted send still has its deduplication row, good for its window.
Accepted(a, n, k) == a.queue \in Queues /\ a.at \in Nat /\ a.at <= n /\ a.id \in 1 .. k
RowsKept ==
  /\ \A q \in Queues : \A key \in DOMAIN dedup[q] : dedup[q][key] \in Nat
  /\ \A a \in accepted : /\ Accepted(a, now, sent) /\ a.key \in DOMAIN dedup[a.queue]
                         /\ dedup[a.queue][a.key] >= a.at + DedupWindow

\* Deduplication: the window a send opened is over before the next send of its
\* key is accepted.
LEMMA DedupStep ==
  ASSUME SqsTypes, RowsKept, DedupHolds, [Next]_vars
  PROVE  RowsKept' /\ DedupHolds'
<1>n. now \in Nat /\ sent \in Nat /\ DedupWindow \in Nat /\ DOMAIN dedup = Queues
  BY Durations DEF SqsTypes, Basics, Shapes
<1>1. CASE UNCHANGED <<accepted, dedup>> /\ now' \in Nat /\ now <= now' /\ UNCHANGED sent
  <2>1. \A a \in accepted : Accepted(a, now', sent')
    BY <1>1, <1>n DEF RowsKept, Accepted
  <2> QED
    BY <1>1, <2>1 DEF RowsKept, DedupHolds
<1>2. ASSUME NEW q \in Queues, ClearMessages(q), UNCHANGED <<now, sent>>
      PROVE  RowsKept' /\ DedupHolds'
  <2>1. /\ accepted' = {a \in accepted : a.queue # q} /\ dedup' = [dedup EXCEPT ![q] = Empty]
    BY <1>2 DEF ClearMessages
  <2>2. \A p \in Queues : dedup'[p] = IF p = q THEN Empty ELSE dedup[p]
    BY <1>n, <2>1
  <2>3. \A p \in Queues : \A key \in DOMAIN dedup'[p] : dedup'[p][key] \in Nat
    BY <2>2 DEF RowsKept, Empty
  <2>4. \A a \in accepted' : /\ Accepted(a, now', sent') /\ a.key \in DOMAIN dedup'[a.queue]
                             /\ dedup'[a.queue][a.key] >= a.at + DedupWindow
    BY <1>2, <2>1, <2>2 DEF RowsKept, Accepted
  <2> QED
    BY <2>1, <2>3, <2>4 DEF RowsKept, DedupHolds
<1>3. ASSUME NEW q \in Queues, NEW g \in Groups, NEW id, NEW d \in Delays, SendMessage(q, g, id, d)
      PROVE  RowsKept' /\ DedupHolds'
  <2>1. PICK key : key = IF q \in PerGroup THEN <<g, id>> ELSE <<id>>
    OBVIOUS
  <2>2. UNCHANGED now /\ sent' = sent + 1
    BY <1>3 DEF SendMessage
  <2>3. CASE id = NoDedup
    <3>1. UNCHANGED <<accepted, dedup>>
      BY <1>3, <2>3 DEF SendMessage
    <3>2. \A a \in accepted : Accepted(a, now', sent')
      BY <1>n, <2>2 DEF RowsKept, Accepted
    <3> QED
      BY <3>1, <3>2 DEF RowsKept, DedupHolds
  <2>4. CASE id # NoDedup
    <3>1. PICK new : new = [queue |-> q, key |-> key, at |-> now, id |-> sent + 1]
      OBVIOUS
    <3>2. /\ accepted' = accepted \cup {new} /\ ~ Duplicate(q, key)
          /\ dedup' = [dedup EXCEPT ![q] = Put(dedup[q], key, now + DedupWindow)]
      BY <1>3, <2>1, <2>4, <3>1 DEF SendMessage
    <3>a. PICK until \in Nat : until = now + DedupWindow
      BY <1>n
    <3>3. /\ \A p \in Queues : p # q => dedup'[p] = dedup[p]
          /\ DOMAIN dedup'[q] = DOMAIN dedup[q] \cup {key} /\ dedup'[q][key] = until
          /\ \A k \in DOMAIN dedup[q] : k # key => dedup'[q][k] = dedup[q][k]
      BY <1>n, <3>2, <3>a DEF Put
    <3>4. \A p \in Queues : \A k \in DOMAIN dedup'[p] : dedup'[p][k] \in Nat
      <4> SUFFICES ASSUME NEW p \in Queues, NEW k \in DOMAIN dedup'[p] PROVE dedup'[p][k] \in Nat
        OBVIOUS
      <4>1. CASE p = q /\ k = key
        BY <3>3, <4>1
      <4>2. CASE ~ (p = q /\ k = key)
        <5>1. k \in DOMAIN dedup[p] /\ dedup'[p][k] = dedup[p][k]
          BY <3>3, <4>2
        <5> QED
          BY <5>1 DEF RowsKept
      <4> QED
        BY <4>1, <4>2
    <3>5. ASSUME NEW a \in accepted
          PROVE  /\ Accepted(a, now', sent') /\ a.key \in DOMAIN dedup'[a.queue]
                 /\ dedup'[a.queue][a.key] >= a.at + DedupWindow
                 /\ a.id < sent + 1 /\ (a.queue = q /\ a.key = key => now - a.at >= DedupWindow)
      <4>1. /\ Accepted(a, now, sent) /\ a.key \in DOMAIN dedup[a.queue]
            /\ dedup[a.queue][a.key] >= a.at + DedupWindow /\ dedup[a.queue][a.key] \in Nat
        BY DEF RowsKept, Accepted
      <4>2. /\ Accepted(a, now', sent') /\ a.id < sent + 1 /\ a.at \in Nat /\ a.at <= now
            /\ a.queue \in Queues
        BY <1>n, <2>2, <4>1 DEF Accepted
      <4>3. CASE a.queue = q /\ a.key = key
        <5>1. now >= dedup[q][key]
          BY <1>n, <3>2, <4>1, <4>3 DEF Duplicate
        <5>2. dedup'[q][key] = now + DedupWindow /\ key \in DOMAIN dedup'[q]
          BY <3>3, <3>a
        <5> QED
          BY <1>n, <4>1, <4>2, <4>3, <5>1, <5>2
      <4>4. CASE ~ (a.queue = q /\ a.key = key)
        <5>1. a.key \in DOMAIN dedup'[a.queue] /\ dedup'[a.queue][a.key] = dedup[a.queue][a.key]
          BY <3>3, <4>1, <4>2, <4>4
        <5> QED
          BY <4>1, <4>2, <4>4, <5>1
      <4> QED
        BY <4>3, <4>4
    <3>6. /\ Accepted(new, now', sent') /\ new.key \in DOMAIN dedup'[new.queue]
          /\ dedup'[new.queue][new.key] >= new.at + DedupWindow
      <4>1. new.queue = q /\ new.key = key /\ new.at = now /\ new.id = sent + 1
        BY <3>1
      <4> QED
        BY <1>n, <2>2, <3>3, <3>a, <4>1 DEF Accepted
    <3>7. DedupHolds'
      <4> SUFFICES ASSUME NEW a \in accepted', NEW b \in accepted', a.queue = b.queue,
                          a.key = b.key, a.id < b.id
                   PROVE  b.at - a.at >= DedupWindow
        BY DEF DedupHolds
      <4>1. CASE a \in accepted /\ b \in accepted
        BY <4>1 DEF DedupHolds
      <4>2. CASE a \in accepted /\ b = new
        BY <3>1, <3>5, <4>2
      <4>3. CASE a = new
        <5>1. new.id = sent + 1 /\ \A x \in accepted : x.id \in Nat /\ x.id < sent + 1
          BY <1>n, <3>1, <3>5 DEF RowsKept, Accepted
        <5> QED
          BY <1>n, <3>2, <4>3, <5>1
      <4> QED
        BY <3>2, <4>1, <4>2, <4>3
    <3> QED
      BY <3>2, <3>4, <3>5, <3>6, <3>7 DEF RowsKept
  <2> QED
    BY <2>3, <2>4
<1>4. CASE UNCHANGED vars
  BY <1>1, <1>4, <1>n DEF vars
<1>5. CASE Tick
  BY <1>1, <1>5, <1>n DEF Tick
<1>6. ASSUME NEW q \in Queues, CreateQueue(q) \/ GetQueueAttributes(q)
      PROVE  RowsKept' /\ DedupHolds'
  BY <1>1, <1>6, <1>n DEF CreateQueue, GetQueueAttributes
<1>7. ASSUME NEW q \in Queues, DeleteQueue(q) \/ PurgeQueue(q) PROVE RowsKept' /\ DedupHolds'
  BY <1>2, <1>7 DEF DeleteQueue, PurgeQueue
<1>8. ASSUME NEW q, NEW h, DeleteMessage(q, h) \/ \E t \in Timeouts : ChangeMessageVisibility(q, h, t)
      PROVE  RowsKept' /\ DedupHolds'
  <2>1. UNCHANGED <<accepted, dedup, now, sent>>
    BY <1>8, Zenon DEF DeleteMessage, ChangeMessageVisibility
  <2> QED
    BY <1>1, <1>n, <2>1
<1>9. ASSUME NEW q, NEW dest, StartMessageMoveTask(q, dest) PROVE RowsKept' /\ DedupHolds'
  BY <1>1, <1>9, <1>n DEF StartMessageMoveTask
<1>10. ASSUME NEW r, \/ \E q, n, t : ReceiveBegin(r, q, n, t)
                     \/ ReceiveRedrives(r) \/ ReceiveDelivers(r) \/ ReceiveRefill(r)
       PROVE  RowsKept' /\ DedupHolds'
  BY <1>1, <1>10, <1>n DEF ReceiveBegin, ReceiveRedrives, ReceiveDelivers, ReceiveRefill
<1> QED
  BY <1>3, <1>4, <1>5, <1>6, <1>7, <1>8, <1>9, <1>10 DEF Next

\* Redrive and deduplication hold for any queues and callers, also when calls
\* overlap: no message is received more often than the policy of its queue
\* allows, and no deduplication id is accepted twice within its window.
THEOREM LimitsAreKept == Spec => []LimitsHold
<1>1. Init => SqsTypes /\ RowsKept /\ DedupHolds
  BY InitTypes DEF Init, RowsKept, DedupHolds, Empty
<1>2. SqsTypes /\ RowsKept /\ DedupHolds /\ [Next]_vars => (SqsTypes /\ RowsKept /\ DedupHolds)'
  BY StepTypes, DedupStep
<1>3. SqsTypes /\ RowsKept /\ DedupHolds => LimitsHold
  BY DEF SqsTypes, Tables, TableOK, Within, LimitsHold, RedriveBounds, Rows
<1> QED
  BY <1>1, <1>2, <1>3, PTL DEF Spec

-----------------------------------------------------------------------------
(* One call at a time: a receive works on the records as they are.         *)

OneReceive == \A r, o \in Receivers : rcv[r] # Idle /\ rcv[o] # Idle => r = o

\* The rows a selection still has to handle are the rows of the table.
Current(table, s) ==
  /\ \A i \in DOMAIN s : s[i].handle \in DOMAIN table /\ table[s[i].handle] = s[i]
  /\ \A i, j \in DOMAIN s : s[i].handle = s[j].handle => i = j

ReceivesCurrent ==
  OneReceive /\ \A r \in Receivers : rcv[r] # Idle => Current(msgs[rcv[r].queue], rcv[r].selection)

LEMMA CurrentSelection ==
  ASSUME NEW q, NEW table, NEW n1, NEW k1, TableOK(q, table, n1, k1), NEW S,
         S \subseteq Rows(table), NEW n, NEW s \in FirstOf(q, table, S, n)
  PROVE  Current(table, s)
<1>1. \A i \in DOMAIN s : s[i] \in Rows(table)
  BY SelectionOK
<1>2. \A m \in Rows(table) : m \in Message /\ m.handle \in DOMAIN table /\ table[m.handle] = m
  BY DEF TableOK, Rows, Known
<1>3. \A i, j \in DOMAIN s : i < j => Precedes(q, table, s[i], s[j])
  BY DEF FirstOf
<1>4. \A m \in Message : ~ Precedes(q, table, m, m)
  BY DEF Precedes, Older, Message
<1>5. \A i \in DOMAIN s : i \in Int
  <2>1. PICK k \in 0 .. n : s \in [1 .. k -> S]
    BY DEF FirstOf
  <2> QED
    BY <2>1
<1>6. ASSUME NEW i \in DOMAIN s, NEW j \in DOMAIN s, s[i].handle = s[j].handle PROVE i = j
  <2>1. s[i] = s[j] /\ s[i] \in Message
    BY <1>1, <1>2, <1>6
  <2>2. ~ (i < j) /\ ~ (j < i)
    BY <1>3, <1>4, <2>1
  <2> QED
    BY <1>5, <2>2
<1> QED
  BY <1>1, <1>2, <1>6 DEF Current

LEMMA CurrentTaken ==
  ASSUME NEW q, NEW table, NEW n1, NEW k1, TableOK(q, table, n1, k1),
         NEW n, NEW s \in Taken(q, table, n)
  PROVE  Current(table, s)
<1>1. PICK S : s \in FirstOf(q, table, S, n) /\ S \subseteq Rows(table)
  BY DEF Taken, Leading
<1> QED
  BY <1>1, CurrentSelection

\* Handling the head leaves the rows of the tail alone.
LEMMA ProgressCurrent ==
  ASSUME SqsTypes, ReceivesCurrent, NEW r \in Receivers, rcv[r] # Idle, rcv[r].selection # <<>>,
         NEW kept, NEW h, Progress(r, Tail(rcv[r].selection), kept, h),
         h = Head(rcv[r].selection).handle,
         \A k \in DOMAIN msgs[rcv[r].queue] : k # h =>
           k \in DOMAIN msgs'[rcv[r].queue] /\ msgs'[rcv[r].queue][k] = msgs[rcv[r].queue][k]
  PROVE  ReceivesCurrent'
<1>1. ReceiveOK(rcv[r], minted, sent)
  BY DEF SqsTypes, Receives
<1>2. (\A o \in Receivers : o # r => rcv'[o] = rcv[o]) /\ DOMAIN rcv' = Receivers
  BY ProgressShape
<1>3. PICK rec : rec = rcv[r]
  OBVIOUS
<1>7. \/ rcv'[r] = Idle
      \/ rcv'[r] = [queue |-> rec.queue, selection |-> Tail(rec.selection), kept |-> kept,
                   seen |-> rec.seen \cup {h}, want |-> rec.want, limit |-> rec.limit,
                   timeout |-> rec.timeout]
  <2>1. PICK tail : tail = Tail(rcv[r].selection) /\ Progress(r, tail, kept, h)
    OBVIOUS
  <2>2. rcv'[r] = Idle \/ rcv'[r] = AfterHead(rcv[r], tail, kept, h)
    BY <2>1, ProgressShape
  <2> QED
    BY <1>3, <2>1, <2>2 DEF AfterHead
<1>8. PICK s \in Seq(Message) : s = rcv[r].selection
  BY <1>1 DEF ReceiveOK
<1>9. PICK t : t = Tail(s) /\ \A i \in DOMAIN t : i \in Nat \ {0} /\ i + 1 \in DOMAIN s /\ t[i] = s[i + 1]
  <2>1. \A i \in DOMAIN Tail(s) : i \in Nat \ {0} /\ i + 1 \in DOMAIN s /\ Tail(s)[i] = s[i + 1]
    BY <1>8
  <2> QED
    BY <2>1
<1>10. s[1].handle = h /\ 1 \in DOMAIN s
  BY <1>8
<1>11. PICK table : table = msgs[rcv[r].queue] /\ Current(table, s)
  BY <1>8 DEF ReceivesCurrent
<1>12. \A i \in DOMAIN t : t[i].handle \in DOMAIN table /\ table[t[i].handle] = t[i]
  BY <1>9, <1>11 DEF Current
<1>13. \A i \in DOMAIN t : t[i].handle # h
  <2> SUFFICES ASSUME NEW i \in DOMAIN t, t[i].handle = h PROVE FALSE
    OBVIOUS
  <2>1. i \in Nat \ {0} /\ i + 1 \in DOMAIN s /\ s[i + 1].handle = s[1].handle
    BY <1>9, <1>10
  <2>2. i + 1 = 1
    BY <1>10, <1>11, <2>1 DEF Current
  <2> QED
    BY <2>1, <2>2
<1>14. \A i, j \in DOMAIN t : t[i].handle = t[j].handle => i = j
  <2> SUFFICES ASSUME NEW i \in DOMAIN t, NEW j \in DOMAIN t, t[i].handle = t[j].handle PROVE i = j
    OBVIOUS
  <2>1. /\ i \in Nat \ {0} /\ i + 1 \in DOMAIN s /\ j \in Nat \ {0} /\ j + 1 \in DOMAIN s
        /\ s[i + 1].handle = s[j + 1].handle
    BY <1>9
  <2>2. i + 1 = j + 1
    BY <1>11, <2>1 DEF Current
  <2> QED
    BY <2>1, <2>2
<1>15. Current(msgs'[rcv[r].queue], t)
  BY <1>11, <1>12, <1>13, <1>14 DEF Current
<1>16. rcv'[r] # Idle => rcv'[r].queue = rcv[r].queue /\ rcv'[r].selection = t
  <2>1. Tail(rec.selection) = t
    BY <1>3, <1>8, <1>9
  <2> QED
    <3> SUFFICES ASSUME rcv'[r] # Idle PROVE rcv'[r].queue = rcv[r].queue /\ rcv'[r].selection = t
      OBVIOUS
    <3>1. PICK x : x = rcv'[r] /\ x = [queue |-> rec.queue, selection |-> Tail(rec.selection),
                   kept |-> kept, seen |-> rec.seen \cup {h}, want |-> rec.want,
                   limit |-> rec.limit, timeout |-> rec.timeout]
      BY <1>7
    <3>2. x.queue = rec.queue /\ x.selection = Tail(rec.selection)
      BY <3>1
    <3> QED
      BY <1>3, <2>1, <3>1, <3>2
<1>17. \A o \in Receivers : o # r => rcv[o] = Idle
  BY DEF ReceivesCurrent, OneReceive
<1> QED
  BY <1>2, <1>15, <1>16, <1>17 DEF ReceivesCurrent, OneReceive

LEMMA ReceiveStep ==
  ASSUME SqsTypes, ReceivesCurrent, ~ Overlap, [Next]_vars
  PROVE  ReceivesCurrent'
<1>t. /\ \A q \in Queues : TableOK(q, msgs[q], minted, sent)
      /\ now \in Nat /\ minted \in Nat /\ DOMAIN rcv = Receivers /\ DOMAIN msgs = Queues
  BY DEF SqsTypes, Basics, Tables, Shapes
<1>1. CASE Quiet /\ UNCHANGED rcv
  BY <1>1 DEF Quiet, ReceivesCurrent, OneReceive
<1>2. ASSUME NEW r \in Receivers, NEW q \in Queues, NEW n, NEW t \in Timeouts,
             ReceiveBegin(r, q, n, t)
      PROVE  ReceivesCurrent'
  <2>1. PICK settled : settled = SettleAll(msgs[q]) /\ TableOK(q, settled, minted, sent)
    BY <1>t, SettleAllOK
  <2>2. PICK s \in Taken(q, settled, n) :
        rcv' = [rcv EXCEPT ![r] =
            IF s = <<>> THEN Idle
            ELSE [queue |-> q, selection |-> s, kept |-> 0, seen |-> {},
                  want |-> Len(s), limit |-> n, timeout |-> t]]
    BY <1>2, <2>1 DEF ReceiveBegin
  <2>3. msgs' = [msgs EXCEPT ![q] = settled] /\ \A o \in Receivers : rcv[o] = Idle
    BY <1>2, <2>1 DEF ReceiveBegin, Quiet
  <2>4. msgs'[q] = settled
    BY <1>t, <2>3
  <2>5. /\ \A o \in Receivers : o # r => rcv'[o] = Idle
        /\ rcv'[r] # Idle => rcv'[r] = [queue |-> q, selection |-> s, kept |-> 0, seen |-> {},
                                      want |-> Len(s), limit |-> n, timeout |-> t]
    BY <1>t, <2>2, <2>3
  <2>6. rcv'[r] # Idle => rcv'[r].queue = q /\ rcv'[r].selection = s
    BY <2>5
  <2>7. Current(settled, s)
    BY <2>1, CurrentTaken
  <2> QED
    BY <2>4, <2>5, <2>6, <2>7 DEF ReceivesCurrent, OneReceive
<1>3. ASSUME NEW r \in Receivers, ReceiveRefill(r) PROVE ReceivesCurrent'
  <2>1. PICK q : q = rcv[r].queue
    OBVIOUS
  <2>2. rcv[r] # Idle /\ ReceiveOK(rcv[r], minted, sent) /\ q \in Queues
    BY <1>3, <2>1 DEF ReceiveRefill, SqsTypes, Receives, ReceiveOK
  <2>3. PICK settled : settled = SettleAll(msgs[q]) /\ TableOK(q, settled, minted, sent)
    BY <1>t, <2>2, SettleAllOK
  <2>4. PICK taken \in Taken(q, settled, rcv[r].limit) :
          \E s \in FirstOf(q, settled, {m \in Rows(taken) : m.handle \notin rcv[r].seen},
                           rcv[r].want - rcv[r].kept) :
            rcv' = [rcv EXCEPT ![r] = IF s = <<>> THEN Idle ELSE [rcv[r] EXCEPT !.selection = s]]
    BY <1>3, <2>1, <2>3 DEF ReceiveRefill
  <2>5. PICK S : S = {m \in Rows(taken) : m.handle \notin rcv[r].seen}
    OBVIOUS
  <2>6. PICK s \in FirstOf(q, settled, S, rcv[r].want - rcv[r].kept) :
          rcv' = [rcv EXCEPT ![r] = IF s = <<>> THEN Idle ELSE [rcv[r] EXCEPT !.selection = s]]
    BY <2>4, <2>5
  <2>7. S \subseteq Rows(settled)
    <3>1. \A i \in DOMAIN taken : taken[i] \in Rows(settled)
      BY <2>4, TakenOK
    <3>2. \A m \in Rows(taken) : \E i \in DOMAIN taken : m = taken[i]
      BY DEF Rows
    <3> QED
      BY <2>5, <3>1, <3>2
  <2>8. Current(settled, s)
    BY <2>3, <2>6, <2>7, CurrentSelection
  <2>9. msgs' = [msgs EXCEPT ![q] = settled]
    BY <1>3, <2>1, <2>3 DEF ReceiveRefill
  <2>10. msgs'[q] = settled
    BY <1>t, <2>2, <2>9
  <2>11. PICK next : next = [rcv[r] EXCEPT !.selection = s]
    OBVIOUS
  <2>12. next.queue = q /\ next.selection = s
    <3>1. PICK rec : rec = rcv[r]
      OBVIOUS
    <3> QED
      BY <2>1, <2>2, <2>11, <3>1 DEF ReceiveOK
  <2>13. (rcv'[r] = Idle \/ rcv'[r] = next) /\ \A o \in Receivers : o # r => rcv'[o] = rcv[o]
    BY <1>t, <2>6, <2>11
  <2>14. \A o \in Receivers : o # r => rcv[o] = Idle
    BY <2>2 DEF ReceivesCurrent, OneReceive
  <2> QED
    BY <2>8, <2>10, <2>12, <2>13, <2>14 DEF ReceivesCurrent, OneReceive
<1>4. ASSUME NEW r \in Receivers, ReceiveRedrives(r) PROVE ReceivesCurrent'
  <2>1. PICK q, m, target, x : Redriving(r, q, m, target, x)
    BY <1>4, RedriveShape
  <2>2. \A k \in DOMAIN msgs[q] : k # m.handle => k \in DOMAIN msgs'[q] /\ msgs'[q][k] = msgs[q][k]
    BY <2>1 DEF Redriving, Drop
  <2>3. /\ rcv[r] # Idle /\ rcv[r].selection # <<>> /\ q = rcv[r].queue
        /\ m = Head(rcv[r].selection)
        /\ Progress(r, Tail(rcv[r].selection), rcv[r].kept, m.handle)
    BY <2>1 DEF Redriving
  <2> QED
    BY <2>2, <2>3, ProgressCurrent
<1>5. ASSUME NEW r \in Receivers, ReceiveDelivers(r) PROVE ReceivesCurrent'
  <2>1. PICK q, m, x : Delivering(r, q, m, x)
    BY <1>5, DeliverShape
  <2>2. msgs'[q] = Rekeyed(msgs[q], m.handle, x) /\ q \in Queues
    BY <1>t, <2>1 DEF Delivering
  <2>3. \A k \in DOMAIN msgs[q] : k \in 1 .. minted
    BY <1>t, <2>2 DEF TableOK, Known
  <2>4. \A k \in DOMAIN msgs[q] : k # m.handle => k # x.handle
    BY <1>t, <2>1, <2>3 DEF Delivering
  <2>5. \A k \in DOMAIN msgs[q] : k # m.handle => k \in DOMAIN msgs'[q] /\ msgs'[q][k] = msgs[q][k]
    BY <2>2, <2>4 DEF Rekeyed, Drop, Put
  <2> QED
    BY <2>1, <2>5, ProgressCurrent DEF Delivering
<1>6. CASE UNCHANGED vars
  BY <1>6 DEF vars, ReceivesCurrent, OneReceive
<1>7. CASE Tick
  BY <1>1, <1>7 DEF Tick
<1>8. ASSUME NEW q \in Queues, \/ CreateQueue(q) \/ DeleteQueue(q) \/ PurgeQueue(q)
                               \/ GetQueueAttributes(q)
                               \/ \E g, id, d : SendMessage(q, g, id, d)
                               \/ \E dest : StartMessageMoveTask(q, dest)
      PROVE  ReceivesCurrent'
  BY <1>1, <1>8 DEF CreateQueue, DeleteQueue, PurgeQueue, GetQueueAttributes, SendMessage,
     StartMessageMoveTask
<1>9. ASSUME NEW q, NEW h, DeleteMessage(q, h) \/ \E t : ChangeMessageVisibility(q, h, t)
      PROVE  ReceivesCurrent'
  <2>1. Quiet /\ UNCHANGED rcv
    BY <1>9, Zenon DEF DeleteMessage, ChangeMessageVisibility
  <2> QED
    BY <1>1, <2>1
<1> QED
  BY <1>2, <1>3, <1>4, <1>5, <1>6, <1>7, <1>8, <1>9 DEF Next

-----------------------------------------------------------------------------
(* Every message accepted and not removed is one row of one queue.         *)

RowsUnique ==
  \A p, q \in Queues : \A h \in DOMAIN msgs[p], k \in DOMAIN msgs[q] :
    msgs[p][h].id = msgs[q][k].id => p = q /\ h = k
RowsLive == \A q \in Queues : \A h \in DOMAIN msgs[q] : msgs[q][h].id \notin removed
AllStored ==
  \A id \in (1 .. sent) \ removed : \E q \in Queues : \E h \in DOMAIN msgs[q] : msgs[q][h].id = id
Stored == RowsUnique /\ RowsLive /\ AllStored

\* The rows E of q become the rows num[m] of the queues to[m].
MovedRows(q, E, to, num) ==
  \A m \in E : /\ m.handle \in DOMAIN msgs[q] /\ msgs[q][m.handle].id = m.id
               /\ to[m] \in Queues /\ num[m] \in DOMAIN msgs'[to[m]]
               /\ msgs'[to[m]][num[m]].id = m.id
RowsFrom(q, E, to, num) ==
  \A p \in Queues : \A k \in DOMAIN msgs'[p] :
    \/ /\ k \in DOMAIN msgs[p] /\ msgs'[p][k].id = msgs[p][k].id
       /\ p = q => \A m \in E : m.handle # k
    \/ \E m \in E : to[m] = p /\ num[m] = k
RowsTo(q, E) ==
  \A p \in Queues : \A k \in DOMAIN msgs[p] :
    \/ p = q /\ \E m \in E : m.handle = k
    \/ k \in DOMAIN msgs'[p] /\ msgs'[p][k].id = msgs[p][k].id

\* Rows moved, under new handles, keep every message stored once.
LEMMA RowsMoved ==
  ASSUME Stored, UNCHANGED <<sent, removed>>, NEW q \in Queues, NEW E, NEW to, NEW num,
         MovedRows(q, E, to, num), \A a, b \in E : a.handle = b.handle => a = b,
         RowsFrom(q, E, to, num), RowsTo(q, E)
  PROVE  Stored'
<1>1. RowsUnique'
  <2> SUFFICES ASSUME NEW p \in Queues, NEW p2 \in Queues, NEW h \in DOMAIN msgs'[p],
                      NEW k \in DOMAIN msgs'[p2], msgs'[p][h].id = msgs'[p2][k].id
               PROVE  p = p2 /\ h = k
    BY DEF RowsUnique
  <2>1. CASE /\ h \in DOMAIN msgs[p] /\ msgs'[p][h].id = msgs[p][h].id
             /\ k \in DOMAIN msgs[p2] /\ msgs'[p2][k].id = msgs[p2][k].id
    <3>1. msgs[p][h].id = msgs[p2][k].id
      BY <2>1
    <3> QED
      BY <2>1, <3>1 DEF Stored, RowsUnique
  <2>2. ASSUME h \in DOMAIN msgs[p], msgs'[p][h].id = msgs[p][h].id, p = q => \A m \in E : m.handle # h,
               NEW m \in E, to[m] = p2, num[m] = k
        PROVE  FALSE
    <3>1. msgs[p][h].id = msgs[q][m.handle].id /\ m.handle \in DOMAIN msgs[q]
      BY <2>2 DEF MovedRows
    <3>2. p = q /\ h = m.handle
      BY <2>2, <3>1 DEF Stored, RowsUnique
    <3> QED
      BY <2>2, <3>2
  <2>3. ASSUME k \in DOMAIN msgs[p2], msgs'[p2][k].id = msgs[p2][k].id, p2 = q => \A m \in E : m.handle # k,
               NEW m \in E, to[m] = p, num[m] = h
        PROVE  FALSE
    <3>1. msgs[p2][k].id = msgs[q][m.handle].id /\ m.handle \in DOMAIN msgs[q]
      BY <2>3 DEF MovedRows
    <3>2. p2 = q /\ k = m.handle
      BY <2>3, <3>1 DEF Stored, RowsUnique
    <3> QED
      BY <2>3, <3>2
  <2>4. ASSUME NEW a \in E, to[a] = p, num[a] = h, NEW b \in E, to[b] = p2, num[b] = k
        PROVE  p = p2 /\ h = k
    <3>1. msgs[q][a.handle].id = msgs[q][b.handle].id
      BY <2>4 DEF MovedRows
    <3>2. a = b
      BY <3>1 DEF Stored, RowsUnique, MovedRows
    <3> QED
      BY <2>4, <3>2
  <2> QED
    BY <2>1, <2>2, <2>3, <2>4 DEF RowsFrom
<1>2. RowsLive'
  <2> SUFFICES ASSUME NEW p \in Queues, NEW k \in DOMAIN msgs'[p] PROVE msgs'[p][k].id \notin removed
    BY DEF RowsLive
  <2>1. CASE k \in DOMAIN msgs[p] /\ msgs'[p][k].id = msgs[p][k].id
    BY <2>1 DEF Stored, RowsLive
  <2>2. ASSUME NEW m \in E, to[m] = p, num[m] = k PROVE msgs'[p][k].id \notin removed
    <3>1. msgs'[p][k].id = m.id /\ msgs[q][m.handle].id = m.id /\ m.handle \in DOMAIN msgs[q]
      BY <2>2 DEF MovedRows
    <3> QED
      BY <3>1 DEF Stored, RowsLive
  <2> QED
    BY <2>1, <2>2 DEF RowsFrom
<1>3. AllStored'
  <2> SUFFICES ASSUME NEW id \in (1 .. sent) \ removed
               PROVE  \E p \in Queues : \E h \in DOMAIN msgs'[p] : msgs'[p][h].id = id
    BY DEF AllStored
  <2>1. PICK p \in Queues : \E h \in DOMAIN msgs[p] : msgs[p][h].id = id
    BY DEF Stored, AllStored
  <2>2. PICK h \in DOMAIN msgs[p] : msgs[p][h].id = id
    BY <2>1
  <2>3. CASE h \in DOMAIN msgs'[p] /\ msgs'[p][h].id = msgs[p][h].id
    BY <2>2, <2>3
  <2>4. ASSUME p = q, NEW m \in E, m.handle = h
        PROVE  \E t \in Queues : \E k \in DOMAIN msgs'[t] : msgs'[t][k].id = id
    BY <2>2, <2>4 DEF MovedRows
  <2> QED
    BY <2>2, <2>3, <2>4 DEF RowsTo
<1> QED
  BY <1>1, <1>2, <1>3 DEF Stored

\* Rows rewritten in their places.
LEMMA RowsSame ==
  ASSUME Stored, UNCHANGED <<sent, removed>>, \A p \in Queues : SameRows(msgs[p], msgs'[p])
  PROVE  Stored'
<1>1. RowsUnique' /\ RowsLive'
  BY DEF Stored, RowsUnique, RowsLive, SameRows
<1>2. AllStored'
  BY DEF Stored, AllStored, SameRows
<1> QED
  BY <1>1, <1>2 DEF Stored

\* Rows taken out of q together with their messages.
LEMMA RowsRemoved ==
  ASSUME Stored, UNCHANGED sent, NEW q \in Queues, NEW keys \in SUBSET DOMAIN msgs[q],
         \A p \in Queues : p # q => SameRows(msgs[p], msgs'[p]),
         DOMAIN msgs'[q] = DOMAIN msgs[q] \ keys,
         \A h \in DOMAIN msgs'[q] : msgs'[q][h].id = msgs[q][h].id,
         removed' = removed \cup {msgs[q][h].id : h \in keys}
  PROVE  Stored'
<1>1. \A p \in Queues : \A h \in DOMAIN msgs'[p] : h \in DOMAIN msgs[p] /\ msgs'[p][h].id = msgs[p][h].id
  BY DEF SameRows
<1>2. RowsUnique'
  BY <1>1 DEF Stored, RowsUnique
<1>3. RowsLive'
  <2> SUFFICES ASSUME NEW p \in Queues, NEW k \in DOMAIN msgs'[p] PROVE msgs'[p][k].id \notin removed'
    BY DEF RowsLive
  <2>1. msgs[p][k].id \notin removed /\ msgs'[p][k].id = msgs[p][k].id /\ k \in DOMAIN msgs[p]
    BY <1>1 DEF Stored, RowsLive
  <2>2. \A h \in keys : msgs[q][h].id # msgs[p][k].id
    BY <2>1 DEF Stored, RowsUnique
  <2> QED
    BY <2>1, <2>2
<1>4. AllStored'
  <2> SUFFICES ASSUME NEW id \in (1 .. sent) \ removed'
               PROVE  \E p \in Queues : \E h \in DOMAIN msgs'[p] : msgs'[p][h].id = id
    BY DEF AllStored
  <2>1. PICK p \in Queues : \E h \in DOMAIN msgs[p] : msgs[p][h].id = id
    BY DEF Stored, AllStored
  <2>2. PICK h \in DOMAIN msgs[p] : msgs[p][h].id = id
    BY <2>1
  <2>3. p = q => h \notin keys
    BY <2>2
  <2>4. h \in DOMAIN msgs'[p] /\ msgs'[p][h].id = id
    BY <2>2, <2>3 DEF SameRows
  <2> QED
    BY <2>4
<1> QED
  BY <1>2, <1>3, <1>4 DEF Stored

-----------------------------------------------------------------------------
(* Aliases lead from every handle to its root, the current handle.         *)

LEMMA LeastNumber ==
  ASSUME NEW S \in SUBSET Nat, S # {}
  PROVE  \E x \in S : \A y \in S : x <= y
<1>1. PICK x \in S : \A y \in S : ~(<<y, x>> \in OpToRel(<, Nat))
  <2>1. S \subseteq Nat
    OBVIOUS
  <2> QED
    BY <2>1, WFMin, NatLessThanWellFounded, Zenon
<1>2. \A y \in S : ~(y < x)
  <2>1. \A y \in S : y \in Nat /\ x \in Nat
    OBVIOUS
  <2> QED
    BY <1>1, <2>1, Zenon DEF OpToRel
<1> QED
  BY <1>2

Growing(t, n) == \A h \in DOMAIN t : h \in 1 .. n /\ t[h] \in 1 .. n /\ h < t[h]

RootsOf(f, t, n) ==
  /\ f \in [1 .. n -> 1 .. n]
  /\ \A k \in 1 .. n : f[k] \notin DOMAIN t /\ f[k] = IF k \in DOMAIN t THEN f[t[k]] ELSE k

\* Two functions that follow a growing table agree: they do at the greatest
\* handle, which has no alias, and so down to every handle.
LEMMA RootsUnique ==
  ASSUME NEW n \in Nat, NEW t, Growing(t, n), NEW f, NEW g,
         \A k \in 1 .. n : f[k] = IF k \in DOMAIN t THEN f[t[k]] ELSE k,
         \A k \in 1 .. n : g[k] = IF k \in DOMAIN t THEN g[t[k]] ELSE k
  PROVE  \A k \in 1 .. n : f[k] = g[k]
<1> SUFFICES ASSUME NEW bad \in 1 .. n, f[bad] # g[bad] PROVE FALSE
  OBVIOUS
<1>1. PICK S : S = {d \in Nat : n - d \in 1 .. n /\ f[n - d] # g[n - d]}
  OBVIOUS
<1>2. n - bad \in S
  <2>1. n - bad \in Nat /\ n - (n - bad) = bad
    OBVIOUS
  <2> QED
    BY <1>1, <2>1
<1>3. S \in SUBSET Nat
  BY <1>1
<1>4. PICK d \in S : \A e \in S : d <= e
  BY <1>2, <1>3, LeastNumber
<1>5. PICK k \in 1 .. n : k = n - d /\ f[k] # g[k] /\ d \in Nat
  BY <1>1, <1>4
<1>6. k \in DOMAIN t
  BY <1>5
<1>7. t[k] \in 1 .. n /\ k < t[k] /\ f[t[k]] # g[t[k]]
  BY <1>5, <1>6 DEF Growing
<1>8. n - t[k] \in Nat /\ n - (n - t[k]) = t[k] /\ n - t[k] < d
  BY <1>5, <1>7
<1>9. n - t[k] \in S
  BY <1>1, <1>7, <1>8
<1> QED
  BY <1>4, <1>5, <1>8, <1>9

LEMMA ResolveDef ==
  ASSUME NEW q, NEW h
  PROVE Resolve(q, h) = (CHOOSE g : g = [k \in 1 .. minted |->
          IF k \in DOMAIN alias[q] THEN g[alias[q][k]] ELSE k])[h]
BY DEF Resolve

LEMMA ResolveIs ==
  ASSUME NEW q, minted \in Nat, Growing(alias[q], minted), NEW f, RootsOf(f, alias[q], minted),
         NEW h \in 1 .. minted
  PROVE  Resolve(q, h) = f[h]
<1> DEFINE Follows(g) == g = [k \in 1 .. minted |-> IF k \in DOMAIN alias[q] THEN g[alias[q][k]] ELSE k]
<1>1. Follows(f)
  BY DEF RootsOf
<1>2. PICK g : g = CHOOSE x : Follows(x)
  OBVIOUS
<1>3. Follows(g)
  BY <1>1, <1>2
<1>4. \A k \in 1 .. minted : g[k] = IF k \in DOMAIN alias[q] THEN g[alias[q][k]] ELSE k
  BY <1>3
<1>5. g[h] = f[h]
  BY <1>4, RootsUnique DEF RootsOf
<1> QED
  BY <1>2, <1>5, ResolveDef

\* More handles minted, without an alias.
LEMMA RootsGrow ==
  ASSUME NEW n \in Nat, NEW n1 \in Nat, n <= n1, NEW t, Growing(t, n), NEW f, RootsOf(f, t, n)
  PROVE  /\ Growing(t, n1)
         /\ RootsOf([k \in 1 .. n1 |-> IF k \in 1 .. n THEN f[k] ELSE k], t, n1)
<1>1. PICK g : g = [k \in 1 .. n1 |-> IF k \in 1 .. n THEN f[k] ELSE k]
  OBVIOUS
<1>2. Growing(t, n1)
  BY DEF Growing
<1>3. g \in [1 .. n1 -> 1 .. n1]
  BY <1>1 DEF RootsOf
<1>4. ASSUME NEW k \in 1 .. n1
      PROVE  g[k] \notin DOMAIN t /\ g[k] = IF k \in DOMAIN t THEN g[t[k]] ELSE k
  <2>1. CASE k \in 1 .. n
    <3>1. g[k] = f[k] /\ f[k] \notin DOMAIN t
      BY <1>1, <2>1 DEF RootsOf
    <3>2. k \in DOMAIN t => g[t[k]] = f[t[k]]
      BY <1>1, <1>2 DEF Growing
    <3> QED
      BY <2>1, <3>1, <3>2 DEF RootsOf
  <2>2. CASE k \notin 1 .. n
    BY <1>1, <2>2 DEF Growing
  <2> QED
    BY <2>1, <2>2
<1> QED
  BY <1>1, <1>2, <1>3, <1>4 DEF RootsOf

\* A current handle gets an alias to a later one.
LEMMA RootsAlias ==
  ASSUME NEW n \in Nat, NEW t, Growing(t, n), NEW f, RootsOf(f, t, n),
         NEW a \in (1 .. n) \ DOMAIN t, NEW b \in (1 .. n) \ DOMAIN t, a < b
  PROVE  /\ Growing(Put(t, a, b), n)
         /\ RootsOf([k \in 1 .. n |-> IF f[k] = a THEN b ELSE f[k]], Put(t, a, b), n)
<1>1. PICK g : g = [k \in 1 .. n |-> IF f[k] = a THEN b ELSE f[k]]
  OBVIOUS
<1>2. PICK u : u = Put(t, a, b)
  OBVIOUS
<1>3. DOMAIN u = DOMAIN t \cup {a} /\ u[a] = b /\ \A k \in DOMAIN t : u[k] = t[k]
  BY <1>2 DEF Put
<1>4. Growing(u, n)
  BY <1>3 DEF Growing
<1>5. g \in [1 .. n -> 1 .. n]
  BY <1>1 DEF RootsOf
<1>6. f[a] = a /\ f[b] = b
  BY DEF RootsOf
<1>7. ASSUME NEW k \in 1 .. n
      PROVE  g[k] \notin DOMAIN u /\ g[k] = IF k \in DOMAIN u THEN g[u[k]] ELSE k
  <2>1. g[k] \notin DOMAIN u
    BY <1>1, <1>3 DEF RootsOf
  <2>2. CASE k = a
    BY <1>1, <1>3, <1>6, <2>1, <2>2
  <2>3. CASE k # a /\ k \in DOMAIN t
    <3>1. u[k] = t[k] /\ t[k] \in 1 .. n /\ f[k] = f[t[k]]
      BY <1>3, <2>3 DEF Growing, RootsOf
    <3> QED
      BY <1>1, <1>3, <2>1, <2>3, <3>1
  <2>4. CASE k # a /\ k \notin DOMAIN t
    <3>1. f[k] = k
      BY <2>4 DEF RootsOf
    <3> QED
      BY <1>1, <1>3, <2>1, <2>4, <3>1
  <2> QED
    BY <2>2, <2>3, <2>4
<1> QED
  BY <1>1, <1>2, <1>4, <1>5, <1>7 DEF RootsOf

\* A prior handle is pointed at its root.
LEMMA RootsShort ==
  ASSUME NEW n \in Nat, NEW t, Growing(t, n), NEW f, RootsOf(f, t, n), NEW h \in DOMAIN t
  PROVE  /\ h < f[h] /\ Growing(Put(t, h, f[h]), n) /\ RootsOf(f, Put(t, h, f[h]), n)
<1>1. \A k \in 1 .. n : k <= f[k]
  <2> SUFFICES ASSUME NEW bad \in 1 .. n, ~ (bad <= f[bad]) PROVE FALSE
    OBVIOUS
  <2>1. PICK S : S = {d \in Nat : n - d \in 1 .. n /\ ~ (n - d <= f[n - d])}
    OBVIOUS
  <2>2. n - bad \in Nat /\ n - (n - bad) = bad
    OBVIOUS
  <2>3. n - bad \in S /\ S \in SUBSET Nat
    BY <2>1, <2>2
  <2>4. PICK d \in S : \A e \in S : d <= e
    BY <2>3, LeastNumber
  <2>5. PICK k \in 1 .. n : k = n - d /\ ~ (k <= f[k]) /\ d \in Nat /\ f[k] \in 1 .. n
    BY <2>1, <2>4 DEF RootsOf
  <2>6. k \in DOMAIN t /\ f[k] = f[t[k]]
    BY <2>5 DEF RootsOf
  <2>7. t[k] \in 1 .. n /\ k < t[k] /\ ~ (t[k] <= f[t[k]])
    BY <2>5, <2>6 DEF Growing
  <2>8. n - t[k] \in Nat /\ n - (n - t[k]) = t[k] /\ n - t[k] < d
    BY <2>5, <2>7
  <2>9. n - t[k] \in S
    BY <2>1, <2>7, <2>8
  <2> QED
    BY <2>4, <2>5, <2>8, <2>9
<1>2. h \in 1 .. n /\ t[h] \in 1 .. n /\ h < t[h] /\ f[h] = f[t[h]] /\ f[h] \in 1 .. n
  BY DEF Growing, RootsOf
<1>3. h < f[h]
  BY <1>1, <1>2
<1>4. f[f[h]] = f[h]
  BY <1>2 DEF RootsOf
<1>5. PICK u : u = Put(t, h, f[h])
  OBVIOUS
<1>6. DOMAIN u = DOMAIN t /\ u[h] = f[h] /\ \A k \in DOMAIN t : k # h => u[k] = t[k]
  BY <1>5 DEF Put
<1>7. Growing(u, n)
  BY <1>2, <1>3, <1>6 DEF Growing
<1>8. RootsOf(f, u, n)
  BY <1>4, <1>6 DEF RootsOf
<1> QED
  BY <1>3, <1>5, <1>7, <1>8

\* The handles given lead to the messages they were given for.
Leads(f, table, given, gone, n) ==
  \A h \in DOMAIN given : /\ h \in 1 .. n
                          /\ given[h] \notin gone => /\ f[h] \in DOMAIN table
                                                     /\ table[f[h]].id = given[h]

Routes(q) ==
  /\ Growing(alias[q], minted)
  /\ DOMAIN alias[q] \cap DOMAIN msgs[q] = {}
  /\ \E f : RootsOf(f, alias[q], minted) /\ Leads(f, msgs[q], held[q], removed, minted)

Reachable == Stored /\ \A q \in Queues : Routes(q)

\* A table that keeps the rows of the messages handed out, and gets no row
\* under an old handle.
Keeps(table, table1, given1, gone1, n) ==
  /\ \A k \in DOMAIN table : \/ k \in DOMAIN table1 /\ table1[k].id = table[k].id
                             \/ table[k].id \in gone1
                             \/ \A h \in DOMAIN given1 : given1[h] # table[k].id
  /\ \A k \in DOMAIN table1 : k \in DOMAIN table \/ k \notin 1 .. n
Fewer(given, given1) == \A h \in DOMAIN given1 : h \in DOMAIN given /\ given1[h] = given[h]
Carried(table, table1, given, given1, gone, gone1, n) ==
  gone \subseteq gone1 /\ Fewer(given, given1) /\ Keeps(table, table1, given1, gone1, n)

LEMMA LeadsKept ==
  ASSUME NEW n \in Nat, NEW n1 \in Nat, n <= n1, NEW f, NEW f1, \A k \in 1 .. n : f1[k] = f[k],
         NEW table, NEW table1, NEW given, NEW given1, NEW gone, NEW gone1,
         Leads(f, table, given, gone, n), Carried(table, table1, given, given1, gone, gone1, n)
  PROVE  Leads(f1, table1, given1, gone1, n1)
<1> SUFFICES ASSUME NEW h \in DOMAIN given1
             PROVE  /\ h \in 1 .. n1
                    /\ given1[h] \notin gone1 => /\ f1[h] \in DOMAIN table1
                                                 /\ table1[f1[h]].id = given1[h]
  BY DEF Leads
<1>1. h \in DOMAIN given /\ given1[h] = given[h]
  BY DEF Fewer, Carried
<1>2. h \in 1 .. n /\ (given[h] \notin gone => f[h] \in DOMAIN table /\ table[f[h]].id = given[h])
  BY <1>1 DEF Leads
<1>3. h \in 1 .. n1 /\ f1[h] = f[h]
  BY <1>2
<1>4. ASSUME given1[h] \notin gone1
      PROVE  f1[h] \in DOMAIN table1 /\ table1[f1[h]].id = given1[h]
  <2>1. f[h] \in DOMAIN table /\ table[f[h]].id = given1[h]
    BY <1>1, <1>2, <1>4 DEF Carried
  <2> QED
    BY <1>3, <1>4, <2>1 DEF Keeps, Carried
<1> QED
  BY <1>3, <1>4

\* What a step that gives no new alias must keep for queue p.
Kept(p) ==
  /\ alias'[p] = alias[p]
  /\ Carried(msgs[p], msgs'[p], held[p], held'[p], removed, removed', minted)

LEMMA RouteKept ==
  ASSUME minted \in Nat, minted' \in Nat, minted <= minted', NEW p, Routes(p), Kept(p)
  PROVE  Routes(p)'
<1>1. PICK f : RootsOf(f, alias[p], minted) /\ Leads(f, msgs[p], held[p], removed, minted)
  BY DEF Routes
<1>2. Growing(alias[p], minted) /\ DOMAIN alias[p] \cap DOMAIN msgs[p] = {}
  BY DEF Routes
<1>3. PICK g : g = [k \in 1 .. minted' |-> IF k \in 1 .. minted THEN f[k] ELSE k]
  OBVIOUS
<1>4. Growing(alias[p], minted') /\ RootsOf(g, alias[p], minted')
  BY <1>1, <1>2, <1>3, RootsGrow
<1>5. \A k \in 1 .. minted : g[k] = f[k]
  BY <1>3
<1>6. Leads(g, msgs'[p], held'[p], removed', minted')
  BY <1>1, <1>5, LeadsKept DEF Kept
<1>7. DOMAIN alias[p] \cap DOMAIN msgs'[p] = {}
  BY <1>2 DEF Kept, Carried, Keeps, Growing
<1> QED
  BY <1>4, <1>6, <1>7 DEF Routes, Kept

\* A handle that is not its own root has an alias, and no row.
LEMMA HandleRoot ==
  ASSUME SqsTypes, NEW q \in Queues, Routes(q), NEW h \in 1 .. minted
  PROVE  /\ Resolve(q, h) \in 1 .. minted
         /\ h # Resolve(q, h) => h \in DOMAIN alias[q] /\ h \notin DOMAIN msgs[q]
<1>1. PICK f : RootsOf(f, alias[q], minted)
  BY DEF Routes
<1>2. Resolve(q, h) = f[h]
  BY <1>1, ResolveIs DEF Routes, SqsTypes, Basics
<1>3. f[h] \in 1 .. minted /\ (h \notin DOMAIN alias[q] => f[h] = h)
  BY <1>1 DEF RootsOf
<1> QED
  BY <1>2, <1>3 DEF Routes

\* A step that reads a message by the handle h of a request.
LEMMA RouteRead ==
  ASSUME SqsTypes, NEW q \in Queues, Routes(q), NEW h \in 1 .. minted, UNCHANGED minted,
         alias'[q] = alias[q] \/ alias'[q] = Aliased(alias[q], h, Resolve(q, h)),
         Carried(msgs[q], msgs'[q], held[q], held'[q], removed, removed', minted)
  PROVE  Routes(q)'
<1>1. PICK f : RootsOf(f, alias[q], minted) /\ Leads(f, msgs[q], held[q], removed, minted)
  BY DEF Routes
<1>2. Growing(alias[q], minted) /\ DOMAIN alias[q] \cap DOMAIN msgs[q] = {} /\ minted \in Nat
  BY DEF Routes, SqsTypes, Basics
<1>3. Resolve(q, h) = f[h]
  BY <1>1, <1>2, ResolveIs
<1>4. h # f[h] => h \in DOMAIN alias[q]
  BY <1>3, HandleRoot
<1>5. CASE alias'[q] = alias[q]
  BY <1>2, <1>5, RouteKept DEF Kept
<1>6. CASE h # f[h] /\ alias'[q] = Put(alias[q], h, f[h])
  <2>1. Growing(alias'[q], minted) /\ RootsOf(f, alias'[q], minted)
    BY <1>1, <1>2, <1>4, <1>6, RootsShort
  <2>2. Leads(f, msgs'[q], held'[q], removed', minted)
    <3>1. PICK g : g = f
      OBVIOUS
    <3>2. \A k \in 1 .. minted : g[k] = f[k]
      BY <3>1
    <3>3. minted <= minted
      BY <1>2
    <3>4. Leads(g, msgs'[q], held'[q], removed', minted)
      BY <1>1, <1>2, <3>2, <3>3, LeadsKept
    <3> QED
      BY <3>1, <3>4
  <2>3. DOMAIN alias'[q] = DOMAIN alias[q]
    BY <1>4, <1>6 DEF Put
  <2>4. DOMAIN alias'[q] \cap DOMAIN msgs'[q] = {}
    BY <1>2, <2>3 DEF Carried, Keeps, Growing
  <2> QED
    BY <2>1, <2>2, <2>4 DEF Routes
<1> QED
  BY <1>3, <1>5, <1>6 DEF Aliased

-----------------------------------------------------------------------------
(* Every operation keeps the messages stored once and the handles leading. *)

LEMMA ReachInPlace ==
  ASSUME SqsTypes, Reachable, UNCHANGED <<alias, held, removed, sent, minted>>,
         \A p \in Queues : SameRows(msgs[p], msgs'[p])
  PROVE  Reachable'
<1>1. Stored'
  BY RowsSame DEF Reachable
<1>2. \A p \in Queues : Kept(p)
  BY DEF Kept, Carried, Keeps, Fewer, SameRows
<1> QED
  BY <1>1, <1>2, RouteKept DEF Reachable, SqsTypes, Basics

LEMMA ReachClear ==
  ASSUME SqsTypes, Reachable, NEW q \in Queues, ClearMessages(q), UNCHANGED <<alias, minted, sent>>
  PROVE  Reachable'
<1>1. /\ msgs' = [msgs EXCEPT ![q] = Empty] /\ held' = [held EXCEPT ![q] = Empty]
      /\ removed' = removed \cup Ids(msgs[q]) /\ DOMAIN msgs = Queues /\ DOMAIN held = Queues
  BY DEF ClearMessages, SqsTypes, Shapes
<1>2. /\ \A p \in Queues : p # q => msgs'[p] = msgs[p] /\ held'[p] = held[p]
      /\ DOMAIN msgs'[q] = {} /\ DOMAIN held'[q] = {}
  BY <1>1 DEF Empty
<1>3. Ids(msgs[q]) = {msgs[q][h].id : h \in DOMAIN msgs[q]}
  BY DEF Ids, Rows
<1>4. \A p \in Queues : p # q => SameRows(msgs[p], msgs'[p])
  BY <1>2 DEF SameRows
<1>5. PICK keys \in SUBSET DOMAIN msgs[q] : keys = DOMAIN msgs[q]
  OBVIOUS
<1>6. Stored'
  BY <1>1, <1>2, <1>3, <1>4, <1>5, RowsRemoved DEF Reachable
<1>7. \A p \in Queues : Kept(p)
  BY <1>1, <1>2 DEF Kept, Carried, Keeps, Fewer
<1> QED
  BY <1>6, <1>7, RouteKept DEF Reachable, SqsTypes, Basics

LEMMA ReachSend ==
  ASSUME SqsTypes, Reachable, NEW q \in Queues, NEW g, NEW id, NEW d, SendMessage(q, g, id, d)
  PROVE  Reachable'
<1>1. PICK m : m = [id |-> sent + 1, handle |-> minted + 1, group |-> g, seq |-> seqs[q] + 1,
           receiveCount |-> 0, state |-> IF d > 0 THEN "invisible" ELSE "visible",
           reappear |-> IF d > 0 THEN now + d ELSE 0, sentAt |-> now, origin |-> NoQueue]
  OBVIOUS
<1>2. /\ sent' = sent + 1 /\ minted' = minted + 1
      /\ msgs' = [msgs EXCEPT ![q] = Put(msgs[q], minted + 1, m)]
      /\ UNCHANGED <<alias, removed, held>>
  BY <1>1 DEF SendMessage
<1>3. m.id = sent + 1
  BY <1>1
<1>4. /\ sent \in Nat /\ minted \in Nat /\ removed \subseteq 1 .. sent /\ DOMAIN msgs = Queues
      /\ \A p \in Queues : \A h \in DOMAIN msgs[p] : h \in 1 .. minted /\ msgs[p][h].id \in 1 .. sent
  BY DEF SqsTypes, Basics, Shapes, Tables, TableOK, Known
<1>5. /\ \A p \in Queues : p # q => msgs'[p] = msgs[p]
      /\ DOMAIN msgs'[q] = DOMAIN msgs[q] \cup {minted + 1} /\ msgs'[q][minted + 1].id = sent + 1
      /\ \A h \in DOMAIN msgs[q] : msgs'[q][h] = msgs[q][h]
  BY <1>2, <1>3, <1>4 DEF Put
<1>6. \A p \in Queues : \A h \in DOMAIN msgs'[p] :
        \/ h \in DOMAIN msgs[p] /\ msgs'[p][h].id = msgs[p][h].id
        \/ p = q /\ h = minted + 1 /\ msgs'[p][h].id = sent + 1
  BY <1>5
<1>7. RowsUnique'
  <2> SUFFICES ASSUME NEW p \in Queues, NEW p2 \in Queues, NEW h \in DOMAIN msgs'[p],
                      NEW k \in DOMAIN msgs'[p2], msgs'[p][h].id = msgs'[p2][k].id
               PROVE  p = p2 /\ h = k
    BY DEF RowsUnique
  <2>1. \A x \in 1 .. sent : x # sent + 1
    BY <1>4
  <2>2. CASE h \in DOMAIN msgs[p] /\ msgs'[p][h].id = msgs[p][h].id
    <3>1. k \in DOMAIN msgs[p2] /\ msgs'[p2][k].id = msgs[p2][k].id
      BY <1>4, <1>6, <2>1, <2>2
    <3>2. msgs[p][h].id = msgs[p2][k].id
      BY <2>2, <3>1
    <3> QED
      BY <2>2, <3>1, <3>2 DEF Reachable, Stored, RowsUnique
  <2>3. CASE p = q /\ h = minted + 1 /\ msgs'[p][h].id = sent + 1
    BY <1>4, <1>6, <2>1, <2>3
  <2> QED
    BY <1>6, <2>2, <2>3
<1>8. RowsLive'
  <2> SUFFICES ASSUME NEW p \in Queues, NEW h \in DOMAIN msgs'[p] PROVE msgs'[p][h].id \notin removed
    BY <1>2 DEF RowsLive
  <2>1. sent + 1 \notin removed
    BY <1>4
  <2> QED
    BY <1>6, <2>1 DEF Reachable, Stored, RowsLive
<1>9. AllStored'
  <2> SUFFICES ASSUME NEW x \in (1 .. sent + 1) \ removed
               PROVE  \E p \in Queues : \E h \in DOMAIN msgs'[p] : msgs'[p][h].id = x
    BY <1>2 DEF AllStored
  <2>1. CASE x = sent + 1
    BY <1>5, <2>1
  <2>2. CASE x # sent + 1
    <3>1. x \in (1 .. sent) \ removed
      BY <1>4, <2>2
    <3>2. PICK p \in Queues : \E h \in DOMAIN msgs[p] : msgs[p][h].id = x
      BY <3>1 DEF Reachable, Stored, AllStored
    <3> QED
      BY <1>5, <3>2
  <2> QED
    BY <2>1, <2>2
<1>10. \A p \in Queues : Kept(p)
  <2>1. minted + 1 \notin 1 .. minted
    BY <1>4
  <2> QED
    BY <1>2, <1>5, <2>1 DEF Kept, Carried, Keeps, Fewer
<1>11. minted' \in Nat /\ minted <= minted'
  BY <1>2, <1>4
<1> QED
  BY <1>4, <1>7, <1>8, <1>9, <1>10, <1>11, RouteKept DEF Reachable, Stored

LEMMA SameCarried ==
  ASSUME NEW table, NEW table1, SameRows(table, table1), NEW given, NEW given1, given1 = given,
         NEW gone, NEW gone1, gone \subseteq gone1, NEW n
  PROVE  Carried(table, table1, given, given1, gone, gone1, n)
BY DEF Carried, Fewer, Keeps, SameRows

LEMMA ReachDelete ==
  ASSUME SqsTypes, Reachable, NEW q \in Queues, NEW h \in 1 .. minted, DeleteMessage(q, h)
  PROVE  Reachable'
<1>1. PICK read : read = ReadMessage(q, h)
  OBVIOUS
<1>2. PICK k : k = read.key
  OBVIOUS
<1>3. \/ msgs' = [msgs EXCEPT ![q] = read.table] /\ UNCHANGED removed
      \/ /\ msgs' = [msgs EXCEPT ![q] = Drop(read.table, {h})] /\ read.found
         /\ removed' = IF h = k THEN removed \cup {read.msg.id} ELSE removed
  BY <1>1, <1>2, Zenon DEF DeleteMessage
<1>4. /\ alias' = [alias EXCEPT ![q] = read.aliases] /\ UNCHANGED <<minted, sent, held>>
  BY <1>1, Zenon DEF DeleteMessage
<1>5. /\ DOMAIN msgs = Queues /\ DOMAIN alias = Queues /\ Routes(q) /\ minted \in Nat
      /\ \A p \in Queues : p # q => msgs'[p] = msgs[p] /\ alias'[p] = alias[p]
      /\ alias'[q] = read.aliases
      /\ msgs'[q] = read.table \/ msgs'[q] = Drop(read.table, {h})
  BY <1>3, <1>4 DEF SqsTypes, Basics, Shapes, Reachable
<1>6. /\ SameRows(msgs[q], read.table) /\ k = Resolve(q, h)
      /\ alias'[q] = alias[q] \/ alias'[q] = Aliased(alias[q], h, Resolve(q, h))
      /\ read.found => k \in DOMAIN msgs[q] /\ read.msg.id = msgs[q][k].id
  BY <1>1, <1>2, <1>5, ReadOK
<1>7. h # k => h \notin DOMAIN msgs[q]
  BY <1>5, <1>6, HandleRoot
<1>8. CASE SameRows(msgs[q], msgs'[q]) /\ UNCHANGED removed
  <2>1. \A p \in Queues : SameRows(msgs[p], msgs'[p])
    BY <1>5, <1>8 DEF SameRows
  <2>2. Stored'
    BY <1>4, <1>8, <2>1, RowsSame DEF Reachable
  <2>3. \A p \in Queues : Carried(msgs[p], msgs'[p], held[p], held'[p], removed, removed', minted)
    BY <1>4, <1>8, <2>1, SameCarried
  <2>4. \A p \in Queues : p # q => Routes(p)'
    BY <1>4, <1>5, <2>3, RouteKept DEF Kept, Reachable
  <2>5. Routes(q)'
    BY <1>4, <1>5, <1>6, <2>3, RouteRead
  <2> QED
    BY <2>2, <2>4, <2>5 DEF Reachable
<1>9. CASE /\ msgs'[q] = Drop(read.table, {h}) /\ h = k /\ read.found
           /\ removed' = removed \cup {read.msg.id}
  <2>1. DOMAIN msgs'[q] = DOMAIN msgs[q] \ {k}
    BY <1>6, <1>9 DEF Drop, SameRows
  <2>2. \A x \in DOMAIN msgs'[q] : msgs'[q][x].id = msgs[q][x].id
    BY <1>6, <1>9, <2>1 DEF Drop, SameRows
  <2>3. removed' = removed \cup {msgs[q][x].id : x \in {k}}
    BY <1>6, <1>9
  <2>4. Stored'
    <3>1. PICK keys \in SUBSET DOMAIN msgs[q] : keys = {k}
      BY <1>6, <1>9
    <3>2. \A p \in Queues : p # q => SameRows(msgs[p], msgs'[p])
      BY <1>5 DEF SameRows
    <3> QED
      BY <1>4, <2>1, <2>2, <2>3, <3>1, <3>2, RowsRemoved DEF Reachable
  <2>5. Carried(msgs[q], msgs'[q], held[q], held'[q], removed, removed', minted)
    BY <1>4, <1>6, <1>9, <2>1, <2>2 DEF Carried, Keeps, Fewer
  <2>6. Routes(q)'
    BY <1>4, <1>5, <1>6, <2>5, RouteRead
  <2>7. \A p \in Queues : p # q => Carried(msgs[p], msgs'[p], held[p], held'[p], removed, removed', minted)
    BY <1>4, <1>5, <1>9 DEF Carried, Keeps, Fewer
  <2>8. \A p \in Queues : p # q => Routes(p)'
    BY <1>4, <1>5, <2>7, RouteKept DEF Kept, Reachable
  <2> QED
    BY <2>4, <2>6, <2>8 DEF Reachable
<1>10. CASE msgs'[q] = read.table /\ UNCHANGED removed
  BY <1>6, <1>8, <1>10
<1>11. CASE msgs'[q] = Drop(read.table, {h}) /\ h # k /\ UNCHANGED removed
  <2>1. SameRows(msgs[q], msgs'[q])
    BY <1>6, <1>7, <1>11 DEF SameRows, Drop
  <2> QED
    BY <1>8, <1>11, <2>1
<1>12. \/ msgs'[q] = read.table /\ UNCHANGED removed
       \/ /\ msgs'[q] = Drop(read.table, {h}) /\ read.found
          /\ removed' = IF h = k THEN removed \cup {read.msg.id} ELSE removed
  BY <1>3, <1>5
<1> QED
  BY <1>9, <1>10, <1>11, <1>12

LEMMA ReachVisibility ==
  ASSUME SqsTypes, Reachable, NEW q \in Queues, NEW h \in 1 .. minted, NEW t,
         ChangeMessageVisibility(q, h, t)
  PROVE  Reachable'
<1>1. PICK read : read = ReadMessage(q, h)
  OBVIOUS
<1>2. PICK x : x = [read.msg EXCEPT !.state = "invisible", !.reappear = now + t]
  OBVIOUS
<1>3. /\ alias' = [alias EXCEPT ![q] = Aliased(alias[q], h, read.key)] /\ read.found
      /\ msgs' = [msgs EXCEPT ![q] = Put(msgs[q], read.key, x)]
      /\ UNCHANGED <<minted, sent, removed, held>>
  BY <1>1, <1>2 DEF ChangeMessageVisibility
<1>4. /\ DOMAIN msgs = Queues /\ DOMAIN alias = Queues /\ Routes(q) /\ minted \in Nat
  BY DEF SqsTypes, Basics, Shapes, Reachable
<1>5. /\ read.key = Resolve(q, h) /\ read.key \in DOMAIN msgs[q]
      /\ Known(read.msg, minted, sent) /\ read.msg.id = msgs[q][read.key].id
  BY <1>1, <1>3, ReadOK
<1>6. x.id = read.msg.id
  <2>1. PICK m \in Message : m = read.msg
    BY <1>5 DEF Known
  <2> QED
    BY <1>2, <2>1 DEF Message
<1>7. SameRows(msgs[q], msgs'[q])
  BY <1>3, <1>4, <1>5, <1>6 DEF SameRows, Put
<1>8. \A p \in Queues : p # q => msgs'[p] = msgs[p] /\ alias'[p] = alias[p]
  BY <1>3, <1>4
<1>9. \A p \in Queues : SameRows(msgs[p], msgs'[p])
  BY <1>7, <1>8 DEF SameRows
<1>10. \A p \in Queues : Carried(msgs[p], msgs'[p], held[p], held'[p], removed, removed', minted)
  BY <1>3, <1>9, SameCarried
<1>11. Stored'
  BY <1>3, <1>9, RowsSame DEF Reachable
<1>12. \A p \in Queues : p # q => Routes(p)'
  BY <1>3, <1>4, <1>8, <1>10, RouteKept DEF Kept, Reachable
<1>13. alias'[q] = Aliased(alias[q], h, Resolve(q, h))
  BY <1>3, <1>4, <1>5
<1>14. Routes(q)'
  BY <1>3, <1>4, <1>10, <1>13, RouteRead
<1> QED
  BY <1>11, <1>12, <1>14 DEF Reachable

\* The record a receive handles is a row of its queue.
LEMMA HeadCurrent ==
  ASSUME SqsTypes, ReceivesCurrent, NEW r \in Receivers, rcv[r] # Idle, rcv[r].selection # <<>>,
         NEW q, q = rcv[r].queue, NEW m, m = Head(rcv[r].selection)
  PROVE  m.handle \in DOMAIN msgs[q] /\ msgs[q][m.handle] = m
<1>1. ReceiveOK(rcv[r], minted, sent)
  BY DEF SqsTypes, Receives
<1>2. PICK s \in Seq(Message) : s = rcv[r].selection
  BY <1>1 DEF ReceiveOK
<1>3. 1 \in DOMAIN s /\ m = s[1]
  BY <1>2
<1>4. Current(msgs[q], s)
  BY <1>2 DEF ReceivesCurrent
<1> QED
  BY <1>3, <1>4 DEF Current

LEMMA ReachRedrive ==
  ASSUME SqsTypes, ReceivesCurrent, Reachable, NEW r \in Receivers, ReceiveRedrives(r)
  PROVE  Reachable'
<1>1. PICK q, m, target, x : Redriving(r, q, m, target, x)
  BY RedriveShape
<1>2. m.handle \in DOMAIN msgs[q] /\ msgs[q][m.handle] = m
  BY <1>1, HeadCurrent DEF Redriving
<1>3. /\ q \in Queues /\ target \in Queues \ {q} /\ x.handle = minted + 1 /\ x.id = m.id
      /\ minted' = minted + 1
      /\ msgs'[q] = Drop(msgs[q], {m.handle}) /\ msgs'[target] = Put(msgs[target], x.handle, x)
      /\ \A p \in Queues \ {q, target} : msgs'[p] = msgs[p]
      /\ UNCHANGED <<alias, sent, removed>>
  BY <1>1 DEF Redriving
<1>4. /\ \A p \in Queues : p # q => held'[p] = held[p]
      /\ held'[q] = Drop(held[q], {h \in DOMAIN held[q] : held[q][h] = m.id})
  BY <1>1 DEF Redriving, SqsTypes, Shapes
<1>5. /\ minted \in Nat /\ sent \in Nat
      /\ \A p \in Queues : \A h \in DOMAIN msgs[p] : h \in 1 .. minted
  BY DEF SqsTypes, Basics, Tables, TableOK, Known
<1>6. minted + 1 \notin 1 .. minted /\ minted' \in Nat /\ minted <= minted'
  BY <1>3, <1>5
<1>7. /\ DOMAIN msgs'[q] = DOMAIN msgs[q] \ {m.handle}
      /\ \A h \in DOMAIN msgs'[q] : msgs'[q][h] = msgs[q][h]
      /\ DOMAIN msgs'[target] = DOMAIN msgs[target] \cup {minted + 1}
      /\ msgs'[target][minted + 1] = x
      /\ \A h \in DOMAIN msgs[target] : msgs'[target][h] = msgs[target][h]
  BY <1>3, <1>5, <1>6 DEF Drop, Put
<1>8. Stored'
  <2>1. PICK E : E = {m}
    OBVIOUS
  <2>2. PICK to : to = [a \in E |-> target]
    OBVIOUS
  <2>3. PICK num : num = [a \in E |-> minted + 1]
    OBVIOUS
  <2>4. MovedRows(q, E, to, num)
    BY <1>2, <1>3, <1>7, <2>1, <2>2, <2>3 DEF MovedRows
  <2>5. RowsFrom(q, E, to, num)
    BY <1>3, <1>7, <2>1, <2>2, <2>3 DEF RowsFrom
  <2>6. RowsTo(q, E)
    BY <1>3, <1>7, <2>1 DEF RowsTo
  <2> QED
    BY <1>3, <2>1, <2>4, <2>5, <2>6, RowsMoved DEF Reachable
<1>9. Kept(q)
  <2>1. Fewer(held[q], held'[q])
    BY <1>4 DEF Fewer, Drop
  <2>2. \A h \in DOMAIN held'[q] : held'[q][h] # m.id
    BY <1>4 DEF Drop
  <2> QED
    BY <1>2, <1>3, <1>7, <2>1, <2>2 DEF Kept, Carried, Keeps
<1>10. \A p \in Queues : p # q => Kept(p)
  BY <1>3, <1>4, <1>6, <1>7 DEF Kept, Carried, Keeps, Fewer
<1> QED
  BY <1>5, <1>6, <1>8, <1>9, <1>10, RouteKept DEF Reachable

LEMMA ReachDeliver ==
  ASSUME SqsTypes, ReceivesCurrent, Reachable, NEW r \in Receivers, ReceiveDelivers(r)
  PROVE  Reachable'
<1>1. PICK q, m, x : Delivering(r, q, m, x)
  BY DeliverShape
<1>2. PICK h : h = m.handle
  OBVIOUS
<1>3. h \in DOMAIN msgs[q] /\ msgs[q][h] = m
  BY <1>1, <1>2, HeadCurrent DEF Delivering
<1>4. /\ q \in Queues /\ x.id = m.id /\ UNCHANGED <<sent, removed>>
      /\ \/ x.handle = h /\ minted' = minted
         \/ x.handle = minted + 1 /\ minted' = minted + 1
  BY <1>1, <1>2 DEF Delivering
<1>5. /\ \A p \in Queues : p # q => msgs'[p] = msgs[p] /\ held'[p] = held[p] /\ alias'[p] = alias[p]
      /\ msgs'[q] = Rekeyed(msgs[q], h, x) /\ held'[q] = Put(held[q], x.handle, m.id)
      /\ alias'[q] = Aliased(alias[q], h, x.handle)
  BY <1>1, <1>2 DEF Delivering, SqsTypes, Shapes
<1>6. /\ minted \in Nat /\ sent \in Nat /\ minted' \in Nat /\ minted <= minted' /\ h \in 1 .. minted
      /\ \A k \in DOMAIN msgs[q] : k \in 1 .. minted
      /\ x.handle \in 1 .. minted'
  BY <1>3, <1>4 DEF SqsTypes, Basics, Tables, TableOK, Known
<1>7. /\ DOMAIN msgs'[q] = (DOMAIN msgs[q] \ {h}) \cup {x.handle} /\ msgs'[q][x.handle] = x
      /\ \A k \in DOMAIN msgs[q] : k # h => k # x.handle /\ msgs'[q][k] = msgs[q][k]
  <2>1. \A k \in DOMAIN msgs[q] : k # h => k # x.handle
    BY <1>4, <1>6
  <2> QED
    BY <1>5, <2>1 DEF Rekeyed, Drop, Put
<1>8. Stored'
  <2>1. PICK E : E = {m}
    OBVIOUS
  <2>2. PICK to : to = [a \in E |-> q]
    OBVIOUS
  <2>3. PICK num : num = [a \in E |-> x.handle]
    OBVIOUS
  <2>4. MovedRows(q, E, to, num)
    BY <1>2, <1>3, <1>4, <1>7, <2>1, <2>2, <2>3 DEF MovedRows
  <2>5. RowsFrom(q, E, to, num)
    BY <1>2, <1>4, <1>5, <1>7, <2>1, <2>2, <2>3 DEF RowsFrom
  <2>6. RowsTo(q, E)
    BY <1>2, <1>5, <1>7, <2>1 DEF RowsTo
  <2> QED
    BY <1>4, <2>1, <2>4, <2>5, <2>6, RowsMoved DEF Reachable
<1>9. \A p \in Queues : p # q => Routes(p)'
  <2>1. \A p \in Queues : p # q => Kept(p)
    BY <1>4, <1>5 DEF Kept, Carried, Keeps, Fewer
  <2> QED
    BY <1>6, <2>1, RouteKept DEF Reachable
<1>10. Routes(q)'
  <2>1. PICK f : RootsOf(f, alias[q], minted) /\ Leads(f, msgs[q], held[q], removed, minted)
    BY <1>4 DEF Reachable, Routes
  <2>2. Growing(alias[q], minted) /\ DOMAIN alias[q] \cap DOMAIN msgs[q] = {}
    BY <1>4 DEF Reachable, Routes
  <2>3. h \notin DOMAIN alias[q] /\ f[h] = h
    BY <1>3, <1>6, <2>1, <2>2 DEF RootsOf
  <2>4. ASSUME NEW k \in DOMAIN held[q], held[q][k] \notin removed
        PROVE  /\ f[k] \in DOMAIN msgs[q] /\ msgs[q][f[k]].id = held[q][k]
               /\ f[k] = h => msgs'[q][x.handle].id = held[q][k]
    BY <1>3, <1>4, <1>7, <2>1, <2>4 DEF Leads
  <2>5. /\ \A k \in DOMAIN held'[q] : k = x.handle \/ (k \in DOMAIN held[q] /\ held'[q][k] = held[q][k])
        /\ held'[q][x.handle] = m.id
    BY <1>5 DEF Put
  <2>6. CASE x.handle = h /\ minted' = minted
    <3>1. alias'[q] = alias[q]
      BY <1>5, <2>6 DEF Aliased
    <3>2. Leads(f, msgs'[q], held'[q], removed', minted')
      <4> SUFFICES ASSUME NEW k \in DOMAIN held'[q]
                   PROVE  /\ k \in 1 .. minted
                          /\ held'[q][k] \notin removed => /\ f[k] \in DOMAIN msgs'[q]
                                                           /\ msgs'[q][f[k]].id = held'[q][k]
        BY <1>4, <2>6 DEF Leads
      <4>1. CASE k = x.handle
        BY <1>4, <1>6, <1>7, <2>3, <2>5, <2>6, <4>1
      <4>2. CASE k # x.handle
        <5>1. k \in DOMAIN held[q] /\ held'[q][k] = held[q][k] /\ k \in 1 .. minted
          BY <2>1, <2>5, <4>2 DEF Leads
        <5>2. ASSUME held[q][k] \notin removed
              PROVE  f[k] \in DOMAIN msgs'[q] /\ msgs'[q][f[k]].id = held[q][k]
          <6>1. /\ f[k] \in DOMAIN msgs[q] /\ msgs[q][f[k]].id = held[q][k]
                /\ f[k] = h => msgs'[q][x.handle].id = held[q][k]
            BY <2>4, <5>1, <5>2
          <6> QED
            BY <1>7, <2>6, <6>1
        <5> QED
          BY <5>1, <5>2
      <4> QED
        BY <4>1, <4>2
    <3>3. DOMAIN alias'[q] \cap DOMAIN msgs'[q] = {}
      BY <1>3, <1>7, <2>2, <2>6, <3>1
    <3> QED
      BY <2>1, <2>2, <2>6, <3>1, <3>2, <3>3 DEF Routes
  <2>7. CASE x.handle = minted + 1 /\ minted' = minted + 1
    <3>1. PICK n : n = minted + 1
      OBVIOUS
    <3>2. n \in Nat /\ n \in 1 .. n /\ h \in 1 .. n /\ h < n /\ n \notin 1 .. minted /\ minted <= n
      BY <1>6, <3>1
    <3>3. alias'[q] = Put(alias[q], h, n) /\ minted' = n /\ x.handle = n
      BY <1>5, <2>7, <3>1, <3>2 DEF Aliased
    <3>4. PICK f1 : f1 = [k \in 1 .. n |-> IF k \in 1 .. minted THEN f[k] ELSE k]
      OBVIOUS
    <3>5. Growing(alias[q], n) /\ RootsOf(f1, alias[q], n)
      BY <1>6, <2>1, <2>2, <3>2, <3>4, RootsGrow
    <3>6. h \in (1 .. n) \ DOMAIN alias[q] /\ n \in (1 .. n) \ DOMAIN alias[q]
      BY <2>2, <2>3, <3>2 DEF Growing
    <3>7. PICK f2 : f2 = [k \in 1 .. n |-> IF f1[k] = h THEN n ELSE f1[k]]
      OBVIOUS
    <3>8. Growing(Put(alias[q], h, n), n) /\ RootsOf(f2, Put(alias[q], h, n), n)
      BY <3>2, <3>5, <3>6, <3>7, RootsAlias
    <3>9. Leads(f2, msgs'[q], held'[q], removed', n)
      <4> SUFFICES ASSUME NEW k \in DOMAIN held'[q]
                   PROVE  /\ k \in 1 .. n
                          /\ held'[q][k] \notin removed => /\ f2[k] \in DOMAIN msgs'[q]
                                                           /\ msgs'[q][f2[k]].id = held'[q][k]
        BY <1>4 DEF Leads
      <4>1. CASE k = n
        <5>1. f1[n] = n /\ f2[n] = n
          BY <3>2, <3>4, <3>7
        <5> QED
          BY <1>4, <1>7, <2>5, <3>2, <3>3, <4>1, <5>1
      <4>2. CASE k # n
        <5>1. k \in DOMAIN held[q] /\ held'[q][k] = held[q][k] /\ k \in 1 .. minted
          BY <2>1, <2>5, <3>3, <4>2 DEF Leads
        <5>2. k \in 1 .. n /\ f1[k] = f[k] /\ f2[k] = IF f[k] = h THEN n ELSE f[k]
          BY <1>6, <3>1, <3>4, <3>7, <5>1
        <5>3. ASSUME held[q][k] \notin removed
              PROVE  f2[k] \in DOMAIN msgs'[q] /\ msgs'[q][f2[k]].id = held[q][k]
          <6>1. /\ f[k] \in DOMAIN msgs[q] /\ msgs[q][f[k]].id = held[q][k]
                /\ f[k] = h => msgs'[q][x.handle].id = held[q][k]
            BY <2>4, <5>1, <5>3
          <6> QED
            BY <1>7, <3>3, <5>2, <6>1
        <5> QED
          BY <5>1, <5>2, <5>3
      <4> QED
        BY <4>1, <4>2
    <3>10. DOMAIN alias'[q] \cap DOMAIN msgs'[q] = {}
      <4>1. DOMAIN alias'[q] = DOMAIN alias[q] \cup {h}
        BY <3>3 DEF Put
      <4>2. h \notin DOMAIN msgs'[q] /\ n \notin DOMAIN alias[q]
        BY <1>7, <3>2, <3>3, <3>6
      <4> QED
        BY <1>7, <2>2, <3>2, <3>3, <4>1, <4>2
    <3> QED
      BY <3>3, <3>8, <3>9, <3>10 DEF Routes
  <2> QED
    BY <1>4, <2>6, <2>7
<1> QED
  BY <1>8, <1>9, <1>10 DEF Reachable

LEMMA ReachMove ==
  ASSUME SqsTypes, Reachable, NEW q \in Queues, NEW dest \in Queues \cup {NoQueue},
         StartMessageMoveTask(q, dest)
  PROVE  Reachable'
<1>1. PICK E, to, num : Moves(q, E, to, num)
  BY MoveShape
<1>2. /\ minted' \in Nat /\ minted <= minted' /\ DOMAIN msgs' = Queues
      /\ UNCHANGED <<alias, sent, removed>>
  BY MoveShape
<1>3. /\ minted \in Nat /\ now \in Nat /\ TableOK(q, msgs[q], minted, sent) /\ DOMAIN held = Queues
      /\ \A p \in Queues : \A h \in DOMAIN msgs[p] : h \in 1 .. minted
  BY DEF SqsTypes, Basics, Shapes, Tables, TableOK, Known
<1>4. PICK settled : settled = SettleAll(msgs[q]) /\ TableOK(q, settled, minted, sent)
                     /\ SameRows(msgs[q], settled)
  BY <1>3, SettleAllOK
<1>5. \A m \in E : /\ m \in Message /\ m.handle \in DOMAIN settled /\ settled[m.handle] = m
                   /\ m.handle \in DOMAIN msgs[q] /\ msgs[q][m.handle].id = m.id
  <2> SUFFICES ASSUME NEW m \in E
               PROVE  /\ m \in Message /\ m.handle \in DOMAIN settled /\ settled[m.handle] = m
                      /\ m.handle \in DOMAIN msgs[q] /\ msgs[q][m.handle].id = m.id
    OBVIOUS
  <2>1. PICK h \in DOMAIN settled : m = settled[h]
    BY <1>1, <1>4 DEF Moves, Rows
  <2>2. m \in Message /\ m.handle = h
    BY <1>4, <2>1 DEF TableOK, Known
  <2> QED
    BY <1>4, <2>1, <2>2 DEF SameRows
<1>6. /\ to \in [E -> Queues \ {q}] /\ num \in [E -> (minted + 1) .. minted']
      /\ msgs'[q] = Drop(settled, {m.handle : m \in E})
      /\ held' = [held EXCEPT ![q] = Drop(held[q], {h \in DOMAIN held[q] : \E m \in E : m.id = held[q][h]})]
  BY <1>1, <1>4 DEF Moves
<1>7. \A t \in Queues \ {q} :
       /\ \A h \in DOMAIN msgs'[t] :
            h \in DOMAIN msgs[t] \/ \E m \in E : to[m] = t /\ num[m] = h
       /\ \A h \in DOMAIN msgs[t] : h \in DOMAIN msgs'[t] /\ msgs'[t][h] = msgs[t][h]
       /\ \A m \in E : to[m] = t => num[m] \in DOMAIN msgs'[t] /\ msgs'[t][num[m]].id = m.id
  <2>1. \A m \in E : Arrived(m, num[m], m.origin).id = m.id
    <3> SUFFICES ASSUME NEW m \in E PROVE Arrived(m, num[m], m.origin).id = m.id
      OBVIOUS
    <3>1. m \in Message /\ m.origin \in Queues \cup {NoQueue} /\ num[m] \in Nat
      BY <1>2, <1>3, <1>5, <1>6 DEF Message
    <3> QED
      BY <3>1, ArrivedOK
  <2> QED
    BY <1>1, <2>1 DEF Moves
<1>8. /\ \A h \in DOMAIN msgs'[q] : h \in DOMAIN msgs[q] /\ msgs'[q][h].id = msgs[q][h].id
                                    /\ \A m \in E : m.handle # h
      /\ \A h \in DOMAIN msgs[q] : \/ \E m \in E : m.handle = h
                                   \/ h \in DOMAIN msgs'[q] /\ msgs'[q][h].id = msgs[q][h].id
  BY <1>4, <1>6 DEF Drop, SameRows
<1>9. Stored'
  <2>1. MovedRows(q, E, to, num)
    BY <1>5, <1>6, <1>7 DEF MovedRows
  <2>2. RowsFrom(q, E, to, num)
    <3> SUFFICES ASSUME NEW p \in Queues, NEW k \in DOMAIN msgs'[p]
                 PROVE \/ /\ k \in DOMAIN msgs[p] /\ msgs'[p][k].id = msgs[p][k].id
                          /\ p = q => \A m \in E : m.handle # k
                       \/ \E m \in E : to[m] = p /\ num[m] = k
      BY DEF RowsFrom
    <3>1. CASE p = q
      BY <1>8, <3>1
    <3>2. CASE p # q
      BY <1>7, <3>2
    <3> QED
      BY <3>1, <3>2
  <2>3. RowsTo(q, E)
    <3> SUFFICES ASSUME NEW p \in Queues, NEW k \in DOMAIN msgs[p]
                 PROVE \/ p = q /\ \E m \in E : m.handle = k
                       \/ k \in DOMAIN msgs'[p] /\ msgs'[p][k].id = msgs[p][k].id
      BY DEF RowsTo
    <3>1. CASE p = q
      BY <1>8, <3>1
    <3>2. CASE p # q
      BY <1>7, <3>2
    <3> QED
      BY <3>1, <3>2
  <2>4. \A a, b \in E : a.handle = b.handle => a = b
    BY <1>5
  <2> QED
    BY <1>2, <2>1, <2>2, <2>3, <2>4, RowsMoved DEF Reachable
<1>10. Kept(q)
  <2>1. held'[q] = Drop(held[q], {h \in DOMAIN held[q] : \E m \in E : m.id = held[q][h]})
    BY <1>3, <1>6
  <2>2. Fewer(held[q], held'[q]) /\ \A h \in DOMAIN held'[q] : \A m \in E : held'[q][h] # m.id
    BY <2>1 DEF Fewer, Drop
  <2>3. Keeps(msgs[q], msgs'[q], held'[q], removed', minted)
    BY <1>5, <1>8, <2>2 DEF Keeps
  <2> QED
    BY <1>2, <2>2, <2>3 DEF Kept, Carried
<1>11. ASSUME NEW p \in Queues, p # q PROVE Kept(p)
  <2>1. held'[p] = held[p]
    BY <1>3, <1>6, <1>11
  <2>2. \A m \in E : num[m] \notin 1 .. minted
    BY <1>2, <1>3, <1>6
  <2>3. Keeps(msgs[p], msgs'[p], held'[p], removed', minted)
    BY <1>7, <1>11, <2>2 DEF Keeps
  <2> QED
    BY <1>2, <2>1, <2>3 DEF Kept, Carried, Fewer
<1> QED
  BY <1>2, <1>3, <1>9, <1>10, <1>11, RouteKept DEF Reachable

LEMMA InitReachable == Init => Reachable
<1> SUFFICES ASSUME Init PROVE Reachable
  OBVIOUS
<1>1. \A q \in Queues : DOMAIN msgs[q] = {} /\ DOMAIN alias[q] = {} /\ DOMAIN held[q] = {}
  BY DEF Init, Empty
<1>2. minted = 0 /\ sent = 0
  BY DEF Init
<1>3. Stored
  BY <1>1, <1>2 DEF Stored, RowsUnique, RowsLive, AllStored
<1>4. ASSUME NEW q \in Queues PROVE Routes(q)
  <2>1. PICK f : f = [k \in 1 .. minted |-> k]
    OBVIOUS
  <2>2. RootsOf(f, alias[q], minted)
    BY <1>2, <2>1 DEF RootsOf
  <2>3. Leads(f, msgs[q], held[q], removed, minted)
    BY <1>1 DEF Leads
  <2> QED
    BY <1>1, <2>2, <2>3 DEF Routes, Growing
<1> QED
  BY <1>3, <1>4 DEF Reachable

\* A table of settled rows in the place of the table.
LEMMA ReachSettled ==
  ASSUME SqsTypes, Reachable, NEW q \in Queues, msgs' = [msgs EXCEPT ![q] = SettleAll(msgs[q])],
         UNCHANGED <<alias, held, removed, sent, minted>>
  PROVE  Reachable'
<1>1. TableOK(q, msgs[q], minted, sent) /\ now \in Nat /\ DOMAIN msgs = Queues
  BY DEF SqsTypes, Basics, Shapes, Tables
<1>2. PICK settled : settled = SettleAll(msgs[q]) /\ SameRows(msgs[q], settled)
  BY <1>1, SettleAllOK
<1>3. \A p \in Queues : SameRows(msgs[p], msgs'[p])
  BY <1>1, <1>2 DEF SameRows
<1> QED
  BY <1>3, ReachInPlace

LEMMA ReachStep ==
  ASSUME SqsTypes, ReceivesCurrent, Reachable, [Next]_vars
  PROVE  Reachable'
<1>1. CASE UNCHANGED <<msgs, alias, held, removed, sent, minted>>
  <2>1. \A p \in Queues : SameRows(msgs[p], msgs'[p])
    BY <1>1 DEF SameRows
  <2> QED
    BY <1>1, <2>1, ReachInPlace
<1>2. ASSUME NEW q \in Queues, DeleteQueue(q) \/ PurgeQueue(q) PROVE Reachable'
  BY <1>2, ReachClear DEF DeleteQueue, PurgeQueue
<1>3. ASSUME NEW q \in Queues,
             GetQueueAttributes(q) \/ \E r, n, t : ReceiveBegin(r, q, n, t)
      PROVE  Reachable'
  <2>1. CASE GetQueueAttributes(q)
    <3>1. msgs' = [msgs EXCEPT ![q] = SettleAll(msgs[q])] /\ UNCHANGED <<alias, held, removed, sent, minted>>
      BY <2>1 DEF GetQueueAttributes
    <3> QED
      BY <3>1, ReachSettled
  <2>2. ASSUME NEW r, NEW n, NEW t, ReceiveBegin(r, q, n, t) PROVE Reachable'
    <3>1. msgs' = [msgs EXCEPT ![q] = SettleAll(msgs[q])] /\ UNCHANGED <<alias, held, removed, sent, minted>>
      BY <2>2, Zenon DEF ReceiveBegin
    <3> QED
      BY <3>1, ReachSettled
  <2> QED
    BY <1>3, <2>1, <2>2
<1>4. ASSUME NEW r \in Receivers, ReceiveRefill(r) PROVE Reachable'
  <2>1. PICK q : q = rcv[r].queue
    OBVIOUS
  <2>2. q \in Queues
    BY <1>4, <2>1 DEF ReceiveRefill, SqsTypes, Receives, ReceiveOK
  <2>3. msgs' = [msgs EXCEPT ![q] = SettleAll(msgs[q])] /\ UNCHANGED <<alias, held, removed, sent, minted>>
    BY <1>4, <2>1, Zenon DEF ReceiveRefill
  <2> QED
    BY <2>2, <2>3, ReachSettled
<1>5. CASE UNCHANGED vars
  BY <1>1, <1>5 DEF vars
<1>6. CASE Tick
  BY <1>1, <1>6 DEF Tick
<1>7. ASSUME NEW q, CreateQueue(q) PROVE Reachable'
  BY <1>1, <1>7 DEF CreateQueue
<1> QED
  BY <1>2, <1>3, <1>4, <1>5, <1>6, <1>7, ReachSend, ReachDelete, ReachVisibility, ReachMove,
     ReachRedrive, ReachDeliver DEF Next

\* Stored once is what Conserved counts.
LEMMA CountedOnce == SqsTypes /\ Reachable => Conserved /\ HandlesResolve
<1> SUFFICES ASSUME SqsTypes, Reachable PROVE Conserved /\ HandlesResolve
  OBVIOUS
<1>1. \A q \in Queues : \A h \in DOMAIN msgs[q] : h \in 1 .. minted
  BY DEF SqsTypes, Tables, TableOK, Known
<1>2. ASSUME NEW id \in 1 .. sent
      PROVE  Cardinality(Copies(id)) = IF id \in removed THEN 0 ELSE 1
  <2>1. CASE id \in removed
    <3>1. Copies(id) = {}
      BY <2>1 DEF Copies, Reachable, Stored, RowsLive
    <3> QED
      BY <2>1, <3>1, FS_EmptySet
  <2>2. CASE id \notin removed
    <3>1. PICK q \in Queues : \E h \in DOMAIN msgs[q] : msgs[q][h].id = id
      BY <2>2 DEF Reachable, Stored, AllStored
    <3>2. PICK h \in DOMAIN msgs[q] : msgs[q][h].id = id
      BY <3>1
    <3>3. <<q, h>> \in Copies(id)
      BY <1>1, <3>2 DEF Copies
    <3>4. \A c \in Copies(id) : c = <<q, h>>
      <4> SUFFICES ASSUME NEW c \in Copies(id) PROVE c = <<q, h>>
        OBVIOUS
      <4>1. /\ c \in Queues \X (1 .. minted) /\ c[2] \in DOMAIN msgs[c[1]]
            /\ msgs[c[1]][c[2]].id = id
        BY DEF Copies
      <4>2. c[1] = q /\ c[2] = h
        BY <3>2, <4>1 DEF Reachable, Stored, RowsUnique
      <4> QED
        BY <4>1, <4>2
    <3>5. Copies(id) = {<<q, h>>}
      BY <3>3, <3>4
    <3> QED
      BY <2>2, <3>5, FS_Singleton
  <2> QED
    BY <2>1, <2>2
<1>3. HandlesResolve
  <2> SUFFICES ASSUME NEW q \in Queues, NEW h \in DOMAIN held[q], held[q][h] \notin removed
               PROVE  /\ Resolve(q, h) \in DOMAIN msgs[q]
                      /\ msgs[q][Resolve(q, h)].id = held[q][h]
    BY DEF HandlesResolve
  <2>1. PICK f : RootsOf(f, alias[q], minted) /\ Leads(f, msgs[q], held[q], removed, minted)
    BY DEF Reachable, Routes
  <2>2. h \in 1 .. minted /\ f[h] \in DOMAIN msgs[q] /\ msgs[q][f[h]].id = held[q][h]
    BY <2>1 DEF Leads
  <2>3. Resolve(q, h) = f[h]
    BY <2>1, <2>2, ResolveIs DEF Reachable, Routes, SqsTypes, Basics
  <2> QED
    BY <2>2, <2>3
<1> QED
  BY <1>2, <1>3 DEF Conserved

\* While calls come one at a time, every message sent and not deleted is in
\* exactly one queue, through receives, expiries, re-keyings, redrives, moves
\* and purges, and every handle a consumer holds for it leads to it.
THEOREM MessagesAreReachable == ~ Overlap => (Spec => []MessagesReachable)
<1> SUFFICES ASSUME ~ Overlap PROVE Spec => []MessagesReachable
  OBVIOUS
<1>1. Init => SqsTypes /\ ReceivesCurrent /\ Reachable
  BY InitTypes, InitReachable DEF Init, ReceivesCurrent, OneReceive
<1>2. SqsTypes /\ ReceivesCurrent /\ Reachable /\ [Next]_vars
        => (SqsTypes /\ ReceivesCurrent /\ Reachable)'
  BY StepTypes, ReceiveStep, ReachStep
<1>3. SqsTypes /\ ReceivesCurrent /\ Reachable => MessagesReachable
  BY TypesOK, CountedOnce DEF MessagesReachable
<1> QED
  BY <1>1, <1>2, <1>3, PTL DEF Spec

=============================================================================
