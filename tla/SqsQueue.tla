------------------------------ MODULE SqsQueue ------------------------------
(***************************************************************************)
(* SQS as the behaviour engine runs it: the queue and message records of   *)
(* behavior/aws/sqs/service.yaml, moved by the engine's select, statechart *)
(* and effect code (internal/engine).                                      *)
(*                                                                         *)
(* Every operation but one runs under the engine's lock and is one action. *)
(* ReceiveMessage waits, so it runs without the lock: its selection and    *)
(* each of its writes are steps of their own.  Overlap says whether other  *)
(* calls may come between them (concurrent clients) or not (a client that  *)
(* awaits every answer).                                                   *)
(*                                                                         *)
(* A receipt handle is the number of its minting, so a later handle is a   *)
(* larger number; message bodies and attributes are left out.              *)
(***************************************************************************)
EXTENDS Integers, Sequences, FiniteSets

CONSTANTS
  Queues,       \* queue names
  FifoQueues,   \* those that end in .fifo
  PerGroup,     \* FIFO queues whose DeduplicationScope is messageGroup
  Redrive,      \* queue -> the RedrivePolicy it is created with
  Groups,       \* message group ids
  DedupIds,     \* deduplication ids senders use
  NoDedup,      \* a send without one
  NoQueue,      \* no destination, no origin
  Timeouts,     \* visibility timeouts callers ask for
  Delays,       \* DelaySeconds of the sends to standard queues
  Batches,      \* MaxNumberOfMessages of the receives
  Receivers,    \* callers of ReceiveMessage
  Overlap,      \* do calls overlap?
  Minute,       \* the 60 s of a deletion tombstone and of successive purges
  DedupWindow,  \* the 5 m deduplication window
  Retention,    \* queue -> its MessageRetentionPeriod
  MaxTime,      \* bound: the clock
  MaxSends,     \* bound: messages accepted
  MaxMinted     \* bound: receipt handles minted

NoPolicy == [max |-> 0, dlq |-> NoQueue]

ASSUME QueueSets == FifoQueues \subseteq Queues /\ PerGroup \subseteq FifoQueues
ASSUME OverlapIsBoolean == Overlap \in BOOLEAN
ASSUME Policies ==
  /\ Redrive \in [Queues -> [max : Nat, dlq : Queues \cup {NoQueue}]]
  /\ Retention \in [Queues -> Nat]
ASSUME Durations == Timeouts \cup Delays \cup {Minute, DedupWindow} \subseteq Nat

VARIABLES
  now,       \* the engine's clock
  queues,    \* names with a queue record
  goneAt,    \* qdeleted: name -> when it was deleted
  purgedAt,  \* name -> purgedAt of the queue record, once purged
  dlqmark,   \* queues some RedrivePolicy has named
  msgs,      \* queue -> handle -> message record (msgs:<queue>)
  alias,     \* queue -> prior handle -> handle (rhandles:<queue>)
  dedup,     \* queue -> deduplication key -> until (dedup:<queue>)
  seqs,      \* queue -> last sequence number (seq:<queue>)
  minted,    \* receipt handles generated
  rcv,       \* receiver -> its ReceiveMessage in progress
  sent,      \* history: messages accepted, numbered 1 .. sent
  removed,   \* history: messages an operation took out for good
  held,      \* history: queue -> handle a consumer was given -> message
  accepted   \* history: deduplicated sends accepted since the last clearing

vars == <<now, queues, goneAt, purgedAt, dlqmark, msgs, alias, dedup, seqs, minted,
          rcv, sent, removed, held, accepted>>
queueVars == <<queues, goneAt, purgedAt, dlqmark>>

-----------------------------------------------------------------------------
(* Tables and records. *)

Empty == [x \in {} |-> x]
Put(table, key, row) == [k \in DOMAIN table \cup {key} |-> IF k = key THEN row ELSE table[k]]
Drop(table, keys) == [k \in DOMAIN table \ keys |-> table[k]]

Message == [id : Nat, handle : Nat, group : Groups, seq : Nat, receiveCount : Nat,
            state : {"visible", "invisible"}, reappear : Nat, sentAt : Nat,
            origin : Queues \cup {NoQueue}]

\* No ReceiveMessage in progress.
Idle == [queue |-> NoQueue, selection |-> <<>>, kept |-> 0, seen |-> {}, want |-> 0, limit |-> 0,
         timeout |-> 0]

\* Calls come one at a time unless Overlap.
Quiet == Overlap \/ \A r \in Receivers : rcv[r] = Idle

\* settle: an expired reappear deadline makes the message visible when looked at.
Settle(m) ==
  IF m.state = "invisible" /\ now >= m.reappear
  THEN [m EXCEPT !.state = "visible", !.reappear = 0] ELSE m

SettleAll(table) == [h \in DOMAIN table |-> Settle(table[h])]

\* resolveKeyAlias: follow the prior handles to the current one.
Resolve(q, h) ==
  LET current[k \in 1 .. minted] == IF k \in DOMAIN alias[q] THEN current[alias[q][k]] ELSE k
  IN current[h]

-----------------------------------------------------------------------------
(* The selection of ReceiveMessage (runSelect, drainGroups). *)

\* order_by item.seq; moved messages may share a number, the handle decides then.
Older(a, b) == a.seq < b.seq \/ (a.seq = b.seq /\ a.handle < b.handle)

Selectable(q, m) == m.state = "visible" /\ now < m.sentAt + Retention[q]

Rows(table) == {table[h] : h \in DOMAIN table}

\* Mistake: any selectable message of the group is taken.
LeadingAny(q, table) == {m \in Rows(table) : Selectable(q, m)}

\* The leading selectable run of every group: nothing behind a member that
\* cannot be taken.
Leading(q, table) ==
  {m \in Rows(table) :
     \A x \in Rows(table) : x.group = m.group /\ (x = m \/ Older(x, m)) => Selectable(q, x)}

\* drainGroups' order: whole groups first, then groups never received, then
\* the group whose first selectable message is oldest.
GroupFirst(q, table, a, b) ==
  LET members(m) == {x \in Rows(table) : x.group = m.group}
      partial(m) == members(m) \cap Leading(q, table) # members(m)
      received(m) == \E x \in members(m) : x.receiveCount > 0
      first(m) == CHOOSE x \in members(m) :
                    /\ Selectable(q, x)
                    /\ \A y \in members(m) : Selectable(q, y) /\ y # x => Older(x, y)
  IN IF partial(a) # partial(b) THEN partial(b)
     ELSE IF received(a) # received(b) THEN received(b)
     ELSE Older(first(a), first(b))

Precedes(q, table, a, b) ==
  IF q \in FifoQueues /\ a.group # b.group THEN GroupFirst(q, table, a, b) ELSE Older(a, b)

\* The first n of S, or all of them, in their order.
FirstOf(q, table, S, n) ==
  {s \in UNION {[1 .. k -> S] : k \in 0 .. n} :
     /\ \A i, j \in DOMAIN s : i < j => Precedes(q, table, s[i], s[j])
     /\ \A i \in DOMAIN s, x \in S \ Rows(s) : Precedes(q, table, s[i], x)
     /\ Len(s) = n \/ S = Rows(s)}

Taken(q, table, n) ==
  FirstOf(q, table, IF q \in FifoQueues THEN Leading(q, table)
                    ELSE {m \in Rows(table) : Selectable(q, m)}, n)

-----------------------------------------------------------------------------
(* Queues. *)

Init ==
  /\ now = 0
  /\ queues = {}
  /\ goneAt = Empty /\ purgedAt = Empty /\ dlqmark = {}
  /\ msgs = [q \in Queues |-> Empty]
  /\ alias = [q \in Queues |-> Empty]
  /\ dedup = [q \in Queues |-> Empty]
  /\ seqs = [q \in Queues |-> 0]
  /\ minted = 0
  /\ rcv = [r \in Receivers |-> Idle]
  /\ sent = 0 /\ removed = {}
  /\ held = [q \in Queues |-> Empty]
  /\ accepted = {}

\* CreateQueue: refused within a minute of the deletion; a queue that exists
\* is answered as it is.
CreateQueue(q) ==
  /\ Quiet
  /\ q \in DOMAIN goneAt => now - goneAt[q] >= Minute
  /\ goneAt' = Drop(goneAt, {q})
  /\ queues' = queues \cup {q}
  /\ dlqmark' = IF q \notin queues /\ Redrive[q].dlq # NoQueue
                THEN dlqmark \cup {Redrive[q].dlq} ELSE dlqmark
  /\ UNCHANGED <<now, purgedAt, msgs, alias, dedup, seqs, minted, rcv, sent, removed, held,
       accepted>>

\* removeWhere reads every row of rhandles as a JSON document; an alias row is
\* a bare handle, so a queue that has one fails the operation at this effect.
AliasesClear(q) == alias[q] = Empty

Ids(table) == {m.id : m \in Rows(table)}

\* What DeleteQueue and PurgeQueue do before they reach the alias table.
ClearMessages(q) ==
  /\ msgs' = [msgs EXCEPT ![q] = Empty]
  /\ dedup' = [dedup EXCEPT ![q] = Empty]
  /\ removed' = removed \cup Ids(msgs[q])
  /\ held' = [held EXCEPT ![q] = Empty]
  /\ accepted' = {a \in accepted : a.queue # q}

DeleteQueue(q) ==
  /\ Quiet
  /\ q \in queues
  /\ ClearMessages(q)
  /\ IF AliasesClear(q)
     THEN /\ queues' = queues \ {q}
          /\ goneAt' = Put(goneAt, q, now)
          /\ purgedAt' = Drop(purgedAt, {q})
     ELSE UNCHANGED <<queues, goneAt, purgedAt>>
  /\ UNCHANGED <<now, dlqmark, alias, seqs, minted, rcv, sent>>

PurgeQueue(q) ==
  /\ Quiet
  /\ q \in queues
  /\ q \in DOMAIN purgedAt => now - purgedAt[q] >= Minute
  /\ ClearMessages(q)
  /\ purgedAt' = IF AliasesClear(q) THEN Put(purgedAt, q, now) ELSE purgedAt
  /\ UNCHANGED <<now, queues, goneAt, dlqmark, alias, seqs, minted, rcv, sent>>

-----------------------------------------------------------------------------
(* Messages. *)

Duplicate(q, key) == key \in DOMAIN dedup[q] /\ now < dedup[q][key]

\* SendMessage; a duplicate inside the window is answered and writes nothing.
SendMessage(q, group, id, delay) ==
  LET key == IF q \in PerGroup THEN <<group, id>> ELSE <<id>>
  IN /\ Quiet
     /\ q \in queues
     /\ sent < MaxSends /\ minted < MaxMinted
     /\ q \in FifoQueues => id # NoDedup /\ delay = 0
     /\ id # NoDedup => ~ Duplicate(q, key)
     /\ sent' = sent + 1
     /\ minted' = minted + 1
     /\ seqs' = [seqs EXCEPT ![q] = @ + 1]
     /\ msgs' = [msgs EXCEPT ![q] = Put(@, minted + 1,
          [id |-> sent + 1, handle |-> minted + 1, group |-> group, seq |-> seqs[q] + 1,
           receiveCount |-> 0, state |-> IF delay > 0 THEN "invisible" ELSE "visible",
           reappear |-> IF delay > 0 THEN now + delay ELSE 0, sentAt |-> now,
           origin |-> NoQueue])]
     /\ IF id = NoDedup
        THEN UNCHANGED <<dedup, accepted>>
        ELSE /\ dedup' = [dedup EXCEPT ![q] = Put(@, key, now + DedupWindow)]
             /\ accepted' = accepted \cup {[queue |-> q, key |-> key, at |-> now, id |-> sent + 1]}
     /\ UNCHANGED <<now, queueVars, alias, rcv, removed, held>>

\* ReceiveMessage, first selection: what expired is settled and written back,
\* and an empty selection answers at once (the wait is module LongPoll).
ReceiveBegin(r, q, n, timeout) ==
  LET settled == SettleAll(msgs[q])
  IN /\ Quiet
     /\ rcv[r] = Idle
     /\ q \in queues
     /\ msgs' = [msgs EXCEPT ![q] = settled]
     /\ \E selection \in Taken(q, settled, n) :
          rcv' = [rcv EXCEPT ![r] =
            IF selection = <<>> THEN Idle
            ELSE [queue |-> q, selection |-> selection, kept |-> 0, seen |-> {},
                  want |-> Len(selection), limit |-> n, timeout |-> timeout]]
     /\ UNCHANGED <<now, queueVars, alias, dedup, seqs, minted, sent, removed, held, accepted>>

\* The redrive guard of RECEIVE: this delivery would exceed maxReceiveCount.
\* Mistake: the delivery itself is not counted.
ExceedsLate(q, m) ==
  /\ Redrive[q].max > 0
  /\ m.receiveCount > Redrive[q].max
  /\ Redrive[q].dlq \notin {NoQueue, q}
Exceeds(q, m) ==
  /\ Redrive[q].max > 0
  /\ m.receiveCount + 1 > Redrive[q].max
  /\ Redrive[q].dlq \notin {NoQueue, q}

\* A message moved to another queue: new handle, count reset, visible.
Arrived(m, handle, origin) ==
  [m EXCEPT !.handle = handle, !.receiveCount = 0, !.state = "visible",
            !.reappear = 0, !.origin = origin]

\* settleWrite of a move.  Mistake: the source row is not deleted.
AfterMoveKept(tables, from, h, to, m) == [tables EXCEPT ![to] = Put(@, m.handle, m)]
AfterMove(tables, from, h, to, m) ==
  [tables EXCEPT ![from] = Drop(@, {h}), ![to] = Put(@, m.handle, m)]

\* settleWrite of a delivery under a new handle: the row is re-keyed.
Rekeyed(table, h, m) == Put(Drop(table, {h}), m.handle, m)

\* putKeyAlias.
Aliased(table, h, handle) == IF handle = h THEN table ELSE Put(table, h, handle)

\* The receive is over once it kept what it wanted.
Progress(r, rest, kept, h) ==
  LET next == [rcv[r] EXCEPT !.selection = rest, !.kept = kept, !.seen = @ \cup {h}]
  IN rcv' = [rcv EXCEPT ![r] = IF kept = rcv[r].want THEN Idle ELSE next]

\* RECEIVE on the next selected message, from the record read at selection:
\* redriven to the dead-letter queue (and not handed out) ...
ReceiveRedrives(r) ==
  /\ rcv[r] # Idle /\ rcv[r].selection # <<>>
  /\ LET q == rcv[r].queue
         m == Head(rcv[r].selection)
         target == Redrive[q].dlq
     IN /\ Exceeds(q, m)
        /\ minted < MaxMinted
        /\ minted' = minted + 1
        /\ msgs' = AfterMove(msgs, q, m.handle, target,
             Arrived(m, minted + 1, IF m.origin = NoQueue THEN q ELSE m.origin))
        /\ held' = [held EXCEPT ![q] = Drop(@, {h \in DOMAIN @ : @[h] = m.id})]
        /\ Progress(r, Tail(rcv[r].selection), rcv[r].kept, m.handle)
  /\ UNCHANGED <<now, queueVars, alias, dedup, seqs, sent, removed, accepted>>

\* ... or handed out: the first delivery keeps the handle of the send, a later
\* one mints a new handle and leaves an alias behind.
ReceiveDelivers(r) ==
  /\ rcv[r] # Idle /\ rcv[r].selection # <<>>
  /\ LET q == rcv[r].queue
         m == Head(rcv[r].selection)
         again == m.receiveCount > 0
         handle == IF again THEN minted + 1 ELSE m.handle
         out == [m EXCEPT !.handle = handle, !.receiveCount = @ + 1, !.state = "invisible",
                          !.reappear = now + rcv[r].timeout]
     IN /\ ~ Exceeds(q, m)
        /\ again => minted < MaxMinted
        /\ minted' = IF again THEN minted + 1 ELSE minted
        /\ alias' = [alias EXCEPT ![q] = Aliased(@, m.handle, handle)]
        /\ msgs' = [msgs EXCEPT ![q] = Rekeyed(@, m.handle, out)]
        /\ held' = [held EXCEPT ![q] = Put(@, handle, m.id)]
        /\ Progress(r, Tail(rcv[r].selection), rcv[r].kept + 1, m.handle)
  /\ UNCHANGED <<now, queueVars, dedup, seqs, sent, removed, accepted>>

\* Redriven messages are replaced from a fresh selection until nothing new is
\* left to hand out.
ReceiveRefill(r) ==
  /\ rcv[r] # Idle /\ rcv[r].selection = <<>>
  /\ LET q == rcv[r].queue
         settled == SettleAll(msgs[q])
     IN /\ msgs' = [msgs EXCEPT ![q] = settled]
        /\ \E taken \in Taken(q, settled, rcv[r].limit) :
             \E selection \in FirstOf(q, settled, {m \in Rows(taken) : m.handle \notin rcv[r].seen},
                                      rcv[r].want - rcv[r].kept) :
               rcv' = [rcv EXCEPT ![r] =
                 IF selection = <<>> THEN Idle ELSE [@ EXCEPT !.selection = selection]]
  /\ UNCHANGED <<now, queueVars, alias, dedup, seqs, minted, sent, removed, held, accepted>>

\* Reading a message by handle settles it, and a change is written back.
ReadMessage(q, h) ==
  LET k == Resolve(q, h)
      found == k \in DOMAIN msgs[q]
      m == Settle(msgs[q][k])
      changed == found /\ m # msgs[q][k]
  IN [key |-> k, found |-> found, msg |-> IF found THEN m ELSE Idle,
      table |-> IF changed THEN Put(msgs[q], k, m) ELSE msgs[q],
      aliases |-> IF changed THEN Aliased(alias[q], h, k) ELSE alias[q]]

\* DeleteMessage: on a FIFO queue a handle whose message is visible again has
\* expired; a missing message is success.  The row deleted is the one under
\* the handle of the request.
DeleteMessage(q, h) ==
  LET read == ReadMessage(q, h)
      expired == q \in FifoQueues /\ read.found /\ read.msg.receiveCount > 0
                 /\ read.msg.state = "visible"
      deletes == read.found /\ ~ expired
  IN /\ Quiet
     /\ q \in queues
     /\ alias' = [alias EXCEPT ![q] = read.aliases]
     /\ msgs' = [msgs EXCEPT ![q] = IF deletes THEN Drop(read.table, {h}) ELSE read.table]
     /\ removed' = IF deletes /\ h = read.key THEN removed \cup {read.msg.id} ELSE removed
     /\ UNCHANGED <<now, queueVars, dedup, seqs, minted, rcv, sent, held, accepted>>

\* ChangeMessageVisibility: hidden until the new timeout, whatever it was.
ChangeMessageVisibility(q, h, timeout) ==
  LET read == ReadMessage(q, h)
  IN /\ Quiet
     /\ q \in queues
     /\ read.found
     /\ alias' = [alias EXCEPT ![q] = Aliased(@, h, read.key)]
     /\ msgs' = [msgs EXCEPT ![q] = Put(@, read.key,
          [read.msg EXCEPT !.state = "invisible", !.reappear = now + timeout])]
     /\ UNCHANGED <<now, queueVars, dedup, seqs, minted, rcv, sent, removed, held, accepted>>

\* GetQueueAttributes counts messages, which settles them.
GetQueueAttributes(q) ==
  /\ Quiet
  /\ q \in queues
  /\ msgs' = [msgs EXCEPT ![q] = SettleAll(@)]
  /\ UNCHANGED <<now, queueVars, alias, dedup, seqs, minted, rcv, sent, removed, held, accepted>>

\* StartMessageMoveTask without a rate: every eligible message of a queue some
\* policy names goes to the destination, or back to where it came from.
StartMessageMoveTask(q, dest) ==
  LET settled == SettleAll(msgs[q])
      target(m) == IF dest # NoQueue THEN dest ELSE m.origin
      eligible == {m \in Rows(settled) : target(m) \notin {NoQueue, q}}
      handleOf(m) == minted + Cardinality({x \in eligible : x.handle <= m.handle})
      arrivals(t) == {Arrived(m, handleOf(m), m.origin) : m \in {x \in eligible : target(x) = t}}
  IN /\ Quiet
     /\ q \in queues /\ q \in dlqmark
     /\ dest # NoQueue => dest \in queues
     /\ minted + Cardinality(eligible) <= MaxMinted
     /\ minted' = minted + Cardinality(eligible)
     /\ msgs' = [t \in Queues |->
          IF t = q THEN Drop(settled, {m.handle : m \in eligible})
          ELSE [h \in DOMAIN msgs[t] \cup {m.handle : m \in arrivals(t)} |->
                  IF h \in DOMAIN msgs[t] THEN msgs[t][h]
                  ELSE CHOOSE m \in arrivals(t) : m.handle = h]]
     /\ held' = [held EXCEPT ![q] = Drop(@, {h \in DOMAIN @ : \E m \in eligible : m.id = @[h]})]
     /\ UNCHANGED <<now, queueVars, alias, dedup, seqs, rcv, sent, removed, accepted>>

Tick ==
  /\ Quiet
  /\ now < MaxTime
  /\ now' = now + 1
  /\ UNCHANGED <<queueVars, msgs, alias, dedup, seqs, minted, rcv, sent, removed, held, accepted>>

Next ==
  \/ \E q \in Queues :
       \/ CreateQueue(q)
       \/ DeleteQueue(q)
       \/ PurgeQueue(q)
       \/ GetQueueAttributes(q)
       \/ \E g \in Groups, id \in DedupIds \cup {NoDedup}, d \in Delays : SendMessage(q, g, id, d)
       \/ \E r \in Receivers, n \in Batches, t \in Timeouts : ReceiveBegin(r, q, n, t)
       \/ \E h \in 1 .. minted : DeleteMessage(q, h)
       \/ \E h \in 1 .. minted, t \in Timeouts : ChangeMessageVisibility(q, h, t)
       \/ \E dest \in Queues \cup {NoQueue} : StartMessageMoveTask(q, dest)
  \/ \E r \in Receivers :
       \/ ReceiveRedrives(r)
       \/ ReceiveDelivers(r)
       \/ ReceiveRefill(r)
  \/ Tick

Spec == Init /\ [][Next]_vars

-----------------------------------------------------------------------------
(* Properties. *)

TypeOK ==
  /\ now \in Nat /\ minted \in Nat /\ sent \in Nat
  /\ queues \subseteq Queues /\ dlqmark \subseteq Queues
  /\ DOMAIN goneAt \subseteq Queues /\ DOMAIN purgedAt \subseteq Queues
  /\ \A q \in Queues :
       /\ seqs[q] \in Nat
       /\ \A h \in DOMAIN msgs[q] : msgs[q][h] \in Message /\ msgs[q][h].handle = h
       /\ \A h \in DOMAIN alias[q] : h \in 1 .. minted /\ alias[q][h] \in 1 .. minted
  /\ removed \subseteq 1 .. sent

Copies(id) == {c \in Queues \X (1 .. minted) :
                 c[2] \in DOMAIN msgs[c[1]] /\ msgs[c[1]][c[2]].id = id}

\* Messages are conserved: through receives, expiries, re-keyings, redrives
\* and moves, an accepted message is stored exactly once, under one handle of
\* one queue, until an operation removes it, and then never again.
Conserved ==
  \A id \in 1 .. sent : Cardinality(Copies(id)) = IF id \in removed THEN 0 ELSE 1

\* Every handle a consumer was given for a message still in the queue leads,
\* through the aliases, to that message (docs/PARITY.md: prior handles remain
\* usable).
HandlesResolve ==
  \A q \in Queues : \A h \in DOMAIN held[q] :
    held[q][h] \notin removed =>
      /\ Resolve(q, h) \in DOMAIN msgs[q]
      /\ msgs[q][Resolve(q, h)].id = held[q][h]

\* Deduplication: two accepted sends of one key are at least a window apart.
DedupHolds ==
  \A a, b \in accepted :
    a.queue = b.queue /\ a.key = b.key /\ a.id < b.id => b.at - a.at >= DedupWindow

\* The redrive policy bounds deliveries: no message is handed out of a queue
\* more often than maxReceiveCount.
RedriveBounds ==
  \A q \in Queues : Redrive[q].max > 0 /\ Redrive[q].dlq \notin {NoQueue, q} =>
    \A m \in Rows(msgs[q]) : m.receiveCount <= Redrive[q].max

\* docs/PARITY.md on test_receive_after_visibility_timeout: "prior handles
\* remain usable for visibility changes and deletes".  A DeleteMessage by any
\* handle a consumer was given for a message in flight drops its row.
AnsweredDeleteRemoves ==
  \A q \in Queues : \A h \in DOMAIN held[q] :
    LET read == ReadMessage(q, h)
    IN read.found /\ read.msg.state = "invisible" => read.msg.id \notin Ids(Drop(read.table, {h}))

\* docs/PARITY.md on test_create_queue_recently_deleted: "DeleteQueue records a
\* 60-second tombstone and clears attributes, tags, messages, and FIFO dedup
\* state".  DeleteQueue does all of it: none ends half way with an error.
DeleteQueueCompletes == [][\A q \in Queues : DeleteQueue(q) => q \notin queues']_vars

\* docs/PARITY.md on test_dead_letter_queue_max_receive_count: "A message
\* exceeding max receive count leaves the source receive response and arrives
\* once in the dead-letter queue".
ArrivesOnceInDlq ==
  \A q \in dlqmark : \A h, k \in DOMAIN msgs[q] : msgs[q][h].id = msgs[q][k].id => h = k

\* FIFO: a message is handed out only when every older message of its group
\* still in the queue is in flight by the same receive.
FifoInOrder ==
  [][\A r \in Receivers :
       rcv[r].queue \in FifoQueues /\ ReceiveDelivers(r) =>
         LET q == rcv[r].queue
             m == Head(rcv[r].selection)
         IN \A x \in Rows(msgs[q]) :
              x.group = m.group /\ x.seq < m.seq =>
                x.state = "invisible" /\ \E h \in rcv[r].seen : Resolve(q, h) = x.handle]_vars

\* send, receive, redrive and purge: every message sent and not deleted is in
\* exactly one queue, and the handle last given for it leads to it.
MessagesReachable == TypeOK /\ Conserved /\ HandlesResolve

\* Redrive and deduplication: no message is received more often than its
\* policy allows before it moves, and no deduplication id is accepted twice
\* within its window.
LimitsHold == RedriveBounds /\ DedupHolds
=============================================================================
