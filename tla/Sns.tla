-------------------------------- MODULE Sns ---------------------------------
(***************************************************************************)
(* One SNS topic (internal/services/aws/sns): publishers, its              *)
(* subscriptions and their confirmation, deletion and re-creation of the   *)
(* topic.  Requests run concurrently and take one store call at a time;    *)
(* only FIFO publishes are serialised, by dedupMu.                         *)
(*                                                                         *)
(* A message is its class (what filters look at), its deduplication key    *)
(* and whether it passes validatePublishMessage and validatePublishTarget. *)
(***************************************************************************)
EXTENDS Tables, FiniteSets, Sequences, Integers
LOCAL INSTANCE Functions

CONSTANTS SnPublishers,  \* concurrent publish requests
          SnBatches,     \* what they publish: sequences of [class, key, valid]
          SnEndpoints,   \* endpoints: [name, needsConfirm, wants, dlq]
          SnWindow,      \* the deduplication window (5 minutes), in ticks
          SnClients,     \* numbers of concurrent administrative requests
          SnFilters,     \* filters that SetSubscriptionAttributes may set
          SnBudget       \* bound on requests: a message counts two, a change one

ASSUME SnConstants == "free" \notin SnPublishers

VARIABLES snFifo,     \* the topic's name ends in .fifo
          snTopic,    \* its record exists
          snSubs,     \* subscriptions by id: ep, confirmed
          snPending,  \* records by token (the subscription's id)
          snNextSub,
          snReq,      \* the administrative requests under way
          snConfirmed, \* subscriptions whose token came back
          snKept,     \* those of them that no request under way knew as unconfirmed
          snDedup,    \* snsdedup: key to id, seq and the time left
          snSeq,      \* snsseq
          snNextId,
          snLock,     \* holder of dedupMu
          snPub,      \* the publishers
          snGot,      \* what each endpoint and its dead-letter queue received
          snAnswers,  \* (key, id, seq) answered, while in the window
          snChanged,
          snOwed      \* subscriptions each publish may not pass over

snvars == <<snFifo, snTopic, snSubs, snPending, snNextSub, snReq, snConfirmed, snKept, snDedup, snSeq, snNextId,
            snLock, snPub, snGot, snAnswers, snChanged, snOwed>>
snadmin == <<snFifo, snTopic, snSubs, snPending, snNextSub, snReq, snConfirmed, snKept, snChanged>>
sncore == <<snDedup, snSeq, snNextId, snLock, snPub, snGot, snAnswers>>

NoPublish == [pc |-> "idle", batch |-> <<>>, at |-> 1, fifo |-> FALSE, id |-> 0, seq |-> 0, todo |-> NoRows]

NoRecord == [ep |-> [name |-> "none"], confirmed |-> FALSE]
Asks(pc, sub, rec, rows) == [pc |-> pc, sub |-> sub, rec |-> rec, rows |-> rows]
NoAsk == Asks("idle", 0, NoRecord, {})

\* The topic, with one subscription that needs no confirmation.
SnInit ==
  /\ snFifo \in BOOLEAN /\ snTopic = TRUE
  /\ \E ep \in SnEndpoints : ~ep.needsConfirm /\ snSubs = Put(NoRows, 1, [ep |-> ep, confirmed |-> TRUE])
  /\ snPending = NoRows /\ snNextSub = 2
  /\ snReq = [c \in SnClients |-> NoAsk] /\ snConfirmed = {} /\ snKept = {}
  /\ snDedup = NoRows /\ snSeq = 0 /\ snNextId = 1 /\ snLock = "free"
  /\ snPub = [p \in SnPublishers |-> NoPublish]
  /\ snGot = <<>> /\ snAnswers = {} /\ snChanged = 0
  /\ snOwed = [p \in SnPublishers |-> {}]

(***************************************************************************)
(* Publish and PublishBatch                                                *)
(***************************************************************************)
Accepts(sub, m) == sub.confirmed /\ m.class \in sub.ep.wants
Owed(p, m) == {s \in DOMAIN snSubs : Accepts(snSubs[s], m)}

\* Every entry is checked before any is published.
BatchChecked(batch) == \A i \in DOMAIN batch : batch[i].valid
Entry(p) == snPub[p].batch[snPub[p].at]
Promised == UNION {{<<p, i>> : i \in DOMAIN snPub[p].batch} : p \in SnPublishers}
Room(messages, changes) ==
  2 * (messages + (snNextId - 1) + Cardinality(Promised)) + changes + snChanged <= SnBudget
SnPublish(p) ==
  /\ snPub[p].pc = "idle" /\ snTopic
  /\ \E batch \in SnBatches :
       /\ BatchChecked(batch)
       /\ Room(Len(batch), 0)
       /\ snPub' = [snPub EXCEPT ![p] = [NoPublish EXCEPT !.pc = "begin", !.batch = batch]]
       /\ snOwed' = [snOwed EXCEPT ![p] = Owed(p, batch[1])]
  /\ UNCHANGED <<snadmin, snDedup, snSeq, snNextId, snLock, snGot, snAnswers>>

\* publishOne reads the FifoTopic attribute of a topic that may be gone by now.
SnBegin(p) ==
  /\ snPub[p].pc = "begin"
  /\ snPub' = [snPub EXCEPT ![p].fifo = snFifo /\ snTopic, ![p].pc = IF snFifo /\ snTopic
       THEN "lock" ELSE "number"]
  /\ UNCHANGED <<snadmin, snDedup, snSeq, snNextId, snLock, snGot, snAnswers, snOwed>>

Finished(p) ==
  IF snPub[p].at < Len(snPub[p].batch)
  THEN [snPub[p] EXCEPT !.pc = "begin", !.at = @ + 1, !.todo = NoRows]
  ELSE NoPublish
NextOwed(p) == IF snPub[p].at < Len(snPub[p].batch) THEN Owed(p, snPub[p].batch[snPub[p].at + 1]) ELSE {}
SnAnswer(p, id, seq) == snAnswers \union {<<Entry(p).key, id, seq>>}

\* Under dedupMu: a key still in its window is answered from its first message.
HeldKeyEarly(k) == k \in DOMAIN snDedup /\ snDedup[k].left > 1        \* mistake: the window ends early
HeldKey(k) == k \in DOMAIN snDedup
SnDedup(p) ==
  /\ snPub[p].pc = "lock" /\ snLock = "free"
  /\ IF HeldKey(Entry(p).key)
     THEN /\ snPub' = [snPub EXCEPT ![p] = Finished(p)]
          /\ snAnswers' = SnAnswer(p, snDedup[Entry(p).key].id, snDedup[Entry(p).key].seq)
          /\ snOwed' = [snOwed EXCEPT ![p] = NextOwed(p)]
          /\ UNCHANGED snLock
     ELSE /\ snLock' = p
          /\ snPub' = [snPub EXCEPT ![p].pc = "number"]
          /\ UNCHANGED <<snAnswers, snOwed>>
  /\ UNCHANGED <<snadmin, snDedup, snSeq, snNextId, snGot>>

Counted == snSeq + 1
\* A message id, and for FIFO the topic's next sequence number.
SnNumber(p) ==
  /\ snPub[p].pc = "number"
  /\ snNextId' = snNextId + 1
  /\ snSeq' = IF snPub[p].fifo THEN Counted ELSE snSeq
  /\ snPub' = [snPub EXCEPT ![p].pc = "list", ![p].id = snNextId, ![p].seq = IF snPub[p].fifo
       THEN snSeq + 1 ELSE 0]
  /\ UNCHANGED <<snadmin, snDedup, snLock, snGot, snAnswers, snOwed>>

\* The subscriptions are listed once; unconfirmed and filtered ones fall out.
Listed(m) == [s \in {s \in DOMAIN snSubs : Accepts(snSubs[s], m)} |-> snSubs[s]]
SnList(p) ==
  /\ snPub[p].pc = "list"
  /\ snPub' = [snPub EXCEPT ![p].pc = "deliver", ![p].todo = Listed(Entry(p))]
  /\ UNCHANGED <<snadmin, snDedup, snSeq, snNextId, snLock, snGot, snAnswers, snOwed>>

\* One subscriber: taken, or refused and sent to its dead-letter queue if it
\* has one.  The loop goes on either way.
Copy(p, s, where) == [to |-> where, sub |-> s, id |-> snPub[p].id, seq |-> snPub[p].seq, key |-> Entry(p).key]
AfterRefusal(p, s) == Del(snPub[p].todo, s)
SnDeliver(p) ==
  /\ snPub[p].pc = "deliver" /\ snPub[p].todo # NoRows
  /\ LET s == MinOf(DOMAIN snPub[p].todo)
     IN \/ /\ snGot' = Append(snGot, Copy(p, s, "endpoint"))
           /\ snPub' = [snPub EXCEPT ![p].todo = Del(@, s)]
        \/ /\ snGot' = Append(snGot, Copy(p, s, IF snPub[p].todo[s].ep.dlq THEN "dlq" ELSE "lost"))
           /\ snPub' = [snPub EXCEPT ![p].todo = AfterRefusal(p, s)]
  /\ UNCHANGED <<snadmin, snDedup, snSeq, snNextId, snLock, snAnswers, snOwed>>

\* The answer; a FIFO publish stores its key and releases the lock.
LockKept(p) == p        \* mistake: no deferred unlock
Released(p) == "free"
Remembered(p) ==
  IF snPub[p].fifo THEN Put(snDedup, Entry(p).key, [id |-> snPub[p].id, seq |-> snPub[p].seq,
      left |-> SnWindow])
  ELSE snDedup
SnDone(p) ==
  /\ snPub[p].pc = "deliver" /\ snPub[p].todo = NoRows
  /\ snDedup' = Remembered(p)
  /\ snLock' = IF snPub[p].fifo THEN Released(p) ELSE snLock
  /\ snAnswers' = IF snPub[p].fifo THEN SnAnswer(p, snPub[p].id, snPub[p].seq) ELSE snAnswers
  /\ snPub' = [snPub EXCEPT ![p] = Finished(p)]
  /\ snOwed' = [snOwed EXCEPT ![p] = NextOwed(p)]
  /\ UNCHANGED <<snadmin, snSeq, snNextId, snGot>>

(***************************************************************************)
(* The topic and its subscriptions                                         *)
(***************************************************************************)
Change == Room(0, 1) /\ snChanged' = snChanged + 1
Asked(c, request) == snReq' = [snReq EXCEPT ![c] = request]
\* A request takes the first free number.
Begins(c, request) ==
  /\ snReq[c].pc = "idle" /\ \A d \in SnClients : d < c => snReq[d].pc # "idle"
  /\ Change /\ Asked(c, request)
Continues(c, pc) == snReq[c].pc = pc /\ UNCHANGED snChanged
rowsKept == UNCHANGED <<snSubs, snOwed>>

\* A row is written or removed; what it no longer promises is not owed.
RowWritten(s, rec) ==
  /\ snSubs' = Put(snSubs, s, rec)
  /\ snOwed' = [p \in SnPublishers |-> {x \in snOwed[p] : x = s => Accepts(rec, Entry(p))}]
RowDropped(s) ==
  /\ snSubs' = Del(snSubs, s)
  /\ snOwed' = [p \in SnPublishers |-> snOwed[p] \ {s}]

\* Subscribe: the topic exists, nobody is subscribed with this endpoint, the
\* record is kept under a token, the token is sent, and only then is the
\* subscription stored, unconfirmed.
Subscribe(c) ==
  /\ snTopic
  /\ \E ep \in SnEndpoints : Begins(c, Asks("look", 0, [ep |-> ep, confirmed |-> ~ep.needsConfirm], {}))
  /\ UNCHANGED <<snFifo, snTopic, snPending, snNextSub, snConfirmed, snKept, sncore>> /\ rowsKept
SubscribeLooks(c) ==
  /\ Continues(c, "look")
  /\ LET rec == snReq[c].rec
     IN IF \E s \in DOMAIN snSubs : snSubs[s].ep.name = rec.ep.name
        THEN Asked(c, NoAsk) /\ UNCHANGED snNextSub
        ELSE /\ Asked(c, Asks(IF rec.confirmed THEN "put" ELSE "token", snNextSub, rec, {}))
             /\ snNextSub' = snNextSub + 1
  /\ UNCHANGED <<snFifo, snTopic, snPending, snConfirmed, snKept, sncore>> /\ rowsKept
SubscribeSendsToken(c) ==
  /\ Continues(c, "token")
  /\ snPending' = Put(snPending, snReq[c].sub, snReq[c].rec)
  /\ Asked(c, [snReq[c] EXCEPT !.pc = "put"])
  /\ UNCHANGED <<snFifo, snTopic, snNextSub, snConfirmed, snKept, sncore>> /\ rowsKept

\* The last store call of Subscribe, and of SetSubscriptionAttributes, which
\* writes back the row it read with one attribute set.
PutsRow(c) ==
  /\ Continues(c, "put")
  /\ RowWritten(snReq[c].sub, snReq[c].rec)
  /\ Asked(c, NoAsk)
  /\ UNCHANGED <<snFifo, snTopic, snPending, snNextSub, snConfirmed, snKept, sncore>>
SetSubscriptionAttributes(c) ==
  /\ \E s \in DOMAIN snSubs, f \in SnFilters :
       Begins(c, Asks("put", s, [ep |-> [snSubs[s].ep EXCEPT !.wants = f], confirmed |-> snSubs[s].confirmed], {}))
  /\ UNCHANGED <<snFifo, snTopic, snPending, snNextSub, snConfirmed, snKept, sncore>> /\ rowsKept

\* ConfirmSubscription writes the record as it was kept with the token, which
\* stays valid: also after Unsubscribe, and after the topic was made anew.  The
\* record under a token never changes, so that only this write counts.
KnownUnconfirmed(t) == \E c \in SnClients : snReq[c].pc = "put" /\ snReq[c].sub = t /\ ~snReq[c].rec.confirmed
Reconfirmed(rec) == [ep |-> rec.ep, confirmed |-> TRUE]
ConfirmSubscription ==
  /\ Change
  /\ \E t \in DOMAIN snPending :
       /\ RowWritten(t, Reconfirmed(snPending[t]))
       /\ snConfirmed' = snConfirmed \union {t}
       /\ snKept' = IF KnownUnconfirmed(t) THEN snKept ELSE snKept \union {t}
  /\ UNCHANGED <<snFifo, snTopic, snPending, snNextSub, snReq, sncore>>

\* Unsubscribe, which tells the endpoint before it removes the row, and
\* DeleteTopic, which lists the rows after the topic's record is gone.
Unsubscribe(c) ==
  /\ snTopic
  /\ \E s \in DOMAIN snSubs : Begins(c, Asks("drop", 0, NoRecord, {s}))
  /\ UNCHANGED <<snFifo, snTopic, snPending, snNextSub, snConfirmed, snKept, sncore>> /\ rowsKept
DeleteTopic(c) ==
  /\ Begins(c, Asks("list", 0, NoRecord, {}))
  /\ snTopic' = FALSE
  /\ UNCHANGED <<snFifo, snPending, snNextSub, snConfirmed, snKept, sncore>> /\ rowsKept
DeleteTopicLists(c) ==
  /\ Continues(c, "list")
  /\ Asked(c, Asks("drop", 0, NoRecord, DOMAIN snSubs))
  /\ UNCHANGED <<snFifo, snTopic, snPending, snNextSub, snConfirmed, snKept, sncore>> /\ rowsKept
DropsRow(c) ==
  /\ Continues(c, "drop")
  /\ \/ snReq[c].rows = {} /\ Asked(c, NoAsk) /\ rowsKept
     \/ \E s \in snReq[c].rows :
          RowDropped(s) /\ Asked(c, IF snReq[c].rows = {s} THEN NoAsk ELSE [snReq[c] EXCEPT !.rows = @ \ {s}])
  /\ UNCHANGED <<snFifo, snTopic, snPending, snNextSub, snConfirmed, snKept, sncore>>

CreateTopic ==
  /\ Change /\ ~snTopic
  /\ snTopic' = TRUE
  /\ UNCHANGED <<snFifo, snPending, snNextSub, snReq, snConfirmed, snKept, sncore>> /\ rowsKept

\* The window of a key runs from the end of its publish.
SnTick ==
  /\ snDedup # NoRows
  /\ LET left == {k \in DOMAIN snDedup : snDedup[k].left > 1}
     IN /\ snDedup' = [k \in left |-> [snDedup[k] EXCEPT !.left = @ - 1]]
        /\ snAnswers' = {a \in snAnswers : a[1] \in left}
  /\ UNCHANGED <<snadmin, snSeq, snNextId, snLock, snPub, snGot, snOwed>>

SnSteps(p) == SnBegin(p) \/ SnDedup(p) \/ SnNumber(p) \/ SnList(p) \/ SnDeliver(p) \/ SnDone(p)
SnsNext ==
  \/ \E p \in SnPublishers : SnPublish(p) \/ SnSteps(p)
  \/ \E c \in SnClients :
       \/ Subscribe(c) \/ SubscribeLooks(c) \/ SubscribeSendsToken(c) \/ SetSubscriptionAttributes(c) \/ PutsRow(c)
       \/ Unsubscribe(c) \/ DeleteTopic(c) \/ DeleteTopicLists(c) \/ DropsRow(c)
  \/ ConfirmSubscription \/ CreateTopic
  \/ SnTick

(***************************************************************************)
(* Properties                                                              *)
(***************************************************************************)
\* A FIFO topic's subscriber receives its messages in the order of their
\* sequence numbers, each once, whatever publishers compete.  What is published
\* without a number, when the topic is gone, has no order.
SubscriberOrder ==
  \A i, j \in DOMAIN snGot :
    i < j /\ snGot[i].sub = snGot[j].sub /\ snGot[i].seq > 0 /\ snGot[j].seq > 0 => snGot[i].seq < snGot[j].seq

\* While a key is in its window, everyone who used it was answered with one
\* and the same message.
OneMessagePerKey ==
  \A a, b \in snAnswers : a[1] = b[1] => a = b

\* A publish is over only when each subscriber that was confirmed, matching and
\* subscribed all the time has the message, in its queue or its dead-letter
\* queue, or refused it without having one.
NobodyPassedOver ==
  \A p \in SnPublishers :
    snPub[p].pc = "deliver" /\ snPub[p].todo = NoRows =>
      \A s \in snOwed[p] : \E i \in DOMAIN snGot : snGot[i].sub = s /\ snGot[i].id = snPub[p].id

\* Nothing reaches an endpoint whose token never came back.
OnlyConfirmed ==
  \A i \in DOMAIN snGot : snGot[i].sub \in DOMAIN snPending => snGot[i].sub \in snConfirmed

\* What a subscriber confirmed is undone only by a request that was under way
\* then and knew the subscription as unconfirmed: its own Subscribe, which
\* stores it after it sent the token, or a change of its attributes.
ConfirmationStays == \A s \in snKept \cap DOMAIN snSubs : snSubs[s].confirmed

\* Every publish ends: dedupMu is released on every path.
PublishEnds == \A p \in SnPublishers : (snPub[p].pc = "lock") ~> (snPub[p].pc = "idle")

-----------------------------------------------------------------------------
(***************************************************************************)
(* Subscription filter policies (internal/services/aws/sns): what          *)
(* validateFilterPolicy accepts and what matchFilter lets through.         *)
(*                                                                         *)
(* A policy is a record: `keys` maps attribute names to lists of clauses,  *)
(* `alts` is the list of alternatives of $or, each such a map; <<>> when   *)
(* there is no $or.  Attribute values are small numbers; prefix, suffix,   *)
(* case and address clauses are sets of values they cover.                 *)
(***************************************************************************)

CONSTANTS FlPolicies,   \* policies
          FlMessages,   \* messages: functions from the attributes they carry to values
          FlKeys,       \* keys a policy may have outside $or (5)
          FlLimit       \* combinations a policy may stand for (150)

VARIABLES flPolicy, flMessage, flAnswer
flvars == <<flPolicy, flMessage, flAnswer>>

(***************************************************************************)
(* validateFilterPolicy                                                    *)
(***************************************************************************)
MaxOne(n) == IF n = 0 THEN 1 ELSE n
Product(f) == FoldFunction(LAMBDA a, b : a * b, 1, f)
combinationsOf(keys) == Product([k \in DOMAIN keys |-> MaxOne(Len(keys[k]))])
SumOf(s) == FoldFunction(LAMBDA a, b : a + b, 0, s)
filterCombinations(p) ==
  combinationsOf(p.keys) * MaxOne(SumOf([i \in DOMAIN p.alts |-> combinationsOf(p.alts[i])]))
validateFilterPolicy(p) ==
  /\ Cardinality(DOMAIN p.keys) <= FlKeys
  /\ filterCombinations(p) <= FlLimit

(***************************************************************************)
(* matchFilter                                                             *)
(***************************************************************************)
Present(m, k) == k \in DOMAIN m
numericMatch(c, m, k) == Present(m, k) /\ c.lo <= m[k] /\ m[k] <= c.hi
AnythingBut(c, m, k) == Present(m, k) /\ m[k] \notin c.values
ClauseHolds(c, m, k) ==
  CASE c.op = "exists" -> c.is = Present(m, k)
    [] c.op = "values" -> Present(m, k) /\ m[k] \in c.values
    [] c.op = "anything-but" -> AnythingBut(c, m, k)
    [] OTHER -> numericMatch(c, m, k)
clauseMatch(list, m, k) == \E i \in DOMAIN list : ClauseHolds(list[i], m, k)
matchPolicy(keys, m) == \A k \in DOMAIN keys : clauseMatch(keys[k], m, k)
matchFilter(p, m) ==
  /\ p.alts # <<>> => \E i \in DOMAIN p.alts : matchPolicy(p.alts[i], m)
  /\ matchPolicy(p.keys, m)

FilterInit == flPolicy \in FlPolicies /\ flMessage \in FlMessages /\ flAnswer = "none"
FilterAnswers ==
  /\ flAnswer = "none"
  /\ flAnswer' = IF ~validateFilterPolicy(flPolicy) THEN "invalid"
                 ELSE IF matchFilter(flPolicy, flMessage) THEN "delivered" ELSE "filtered"
  /\ UNCHANGED <<flPolicy, flMessage>>

(***************************************************************************)
(* Properties                                                              *)
(***************************************************************************)
\* What a policy means: the conditions it stands for are those with one clause
\* for each of its keys and for each key of one of its alternatives.
ClauseChoices(keys) == {c \in [DOMAIN keys -> 1..4] : \A k \in DOMAIN keys : c[k] \in DOMAIN keys[k]}
Branches(p) == IF p.alts = <<>> THEN {<<>>} ELSE {<<i>> : i \in DOMAIN p.alts}
Conditions(p) ==
  UNION {{<<b, c, d>> : c \in ClauseChoices(p.keys), d \in IF b = <<>> THEN {<<>>}
      ELSE ClauseChoices(p.alts[b[1]])} : b \in Branches(p)}
Met(p, m, cond) ==
  /\ \A k \in DOMAIN p.keys : ClauseHolds(p.keys[k][cond[2][k]], m, k)
  /\ cond[1] # <<>> =>
       LET alt == p.alts[cond[1][1]] IN \A k \in DOMAIN alt : ClauseHolds(alt[k][cond[3][k]], m, k)
NoEmptyList(p) ==
  /\ \A k \in DOMAIN p.keys : p.keys[k] # <<>>
  /\ \A i \in DOMAIN p.alts : \A k \in DOMAIN p.alts[i] : p.alts[i][k] # <<>>

\* A message is delivered exactly when it meets one of the conditions its
\* policy stands for.
FilterMeansItsConditions ==
  flAnswer \in {"delivered", "filtered"} =>
    (flAnswer = "delivered" <=> \E c \in Conditions(flPolicy) : Met(flPolicy, flMessage, c))

\* The limit is on the number of those conditions: a policy is refused for it
\* exactly when it stands for too many.
LimitCountsConditions ==
  NoEmptyList(flPolicy) /\ Cardinality(DOMAIN flPolicy.keys) <= FlKeys =>
    (flAnswer = "invalid" => Cardinality(Conditions(flPolicy)) > FlLimit)
    /\ (flAnswer \in {"delivered", "filtered"} => Cardinality(Conditions(flPolicy)) <= FlLimit)

-----------------------------------------------------------------------------
(***************************************************************************)
(* Mobile push in SNS (internal/services/aws/sns): one platform            *)
(* application, its endpoints and the subscriptions that name them.        *)
(* Handlers check one collection and write another without a transaction,  *)
(* so that each is split where another may come between.                   *)
(***************************************************************************)

CONSTANTS PlTokens,   \* device tokens
          PlUsers,    \* custom user data an endpoint may carry
          PlReqs,     \* concurrent requests
          PlOps       \* bound on requests

VARIABLES plApp,     \* platapps holds the application
          plEnds,    \* platend: endpoints by number: token, user, on
          plSubs,    \* subscriptions: the endpoints they name
          plNext,    \* the next endpoint's random name
          plReq,     \* the requests between their steps
          plOps,
          plRaced    \* two requests overlapped, or an endpoint took over a token

plvars == <<plApp, plEnds, plSubs, plNext, plReq, plOps, plRaced>>

NoReq == [pc |-> "idle"]
PlatformInit ==
  /\ plApp = FALSE /\ plEnds = NoRows /\ plSubs = {} /\ plNext = 1
  /\ plReq = [r \in PlReqs |-> NoReq] /\ plOps = 0 /\ plRaced = FALSE

Quiet == \A r \in PlReqs : plReq[r].pc = "idle"
\* A request begins; it is a race if another is under way.
PlBegins(r, req) ==
  /\ plReq[r].pc = "idle" /\ plOps < PlOps
  /\ plOps' = plOps + 1
  /\ plReq' = [plReq EXCEPT ![r] = req]
  /\ plRaced' = (plRaced \/ (~Quiet /\ req.pc # "idle"))
PlEnds(r) == plReq' = [plReq EXCEPT ![r] = NoReq] /\ UNCHANGED <<plOps, plRaced>>

CreatePlatformApplication(r) ==
  /\ PlBegins(r, NoReq)
  /\ plApp' = TRUE
  /\ UNCHANGED <<plEnds, plSubs, plNext>>

\* The application's record goes first; then, endpoint by endpoint, the
\* subscriptions that name it and the endpoint itself.
DeletePlatformApplication(r) ==
  /\ PlBegins(r, [pc |-> "cascade"])
  /\ plApp' = FALSE
  /\ UNCHANGED <<plEnds, plSubs, plNext>>
Cascade(r) ==
  /\ plReq[r].pc = "cascade"
  /\ PlEnds(r)
  /\ plSubs' = plSubs \ DOMAIN plEnds
  /\ plEnds' = NoRows
  /\ UNCHANGED <<plApp, plNext>>

\* CreatePlatformEndpoint returns the endpoint that has the token already, or
\* faults if its attributes differ; a new one is put after the check.
SameToken(token) == {e \in DOMAIN plEnds : plEnds[e].token = token}
CreatePlatformEndpoint(r) ==
  \E t \in PlTokens, u \in PlUsers :
    /\ plApp /\ SameToken(t) = {}
    /\ PlBegins(r, [pc |-> "put", token |-> t, user |-> u])
    /\ UNCHANGED <<plApp, plEnds, plSubs, plNext>>
PutEndpoint(r) ==
  /\ plReq[r].pc = "put"
  /\ plEnds' = Put(plEnds, plNext, [token |-> plReq[r].token, user |-> plReq[r].user, on |-> TRUE])
  /\ plNext' = plNext + 1
  /\ PlEnds(r)
  /\ UNCHANGED <<plApp, plSubs>>

\* SetEndpointAttributes writes back the record it read: Enabled, and the token,
\* which may become that of another endpoint.
SetEndpointAttributes(r) ==
  /\ \E e \in DOMAIN plEnds, on \in BOOLEAN, t \in PlTokens :
       PlBegins(r, [pc |-> "set", end |-> e, rec |-> [plEnds[e] EXCEPT !.on = on, !.token = t]])
  /\ UNCHANGED <<plApp, plEnds, plSubs, plNext>>
WriteAttributes(r) ==
  /\ plReq[r].pc = "set"
  /\ plEnds' = Put(plEnds, plReq[r].end, plReq[r].rec)
  /\ plReq' = [plReq EXCEPT ![r] = NoReq]
  /\ plRaced' = (plRaced \/ (SameToken(plReq[r].rec.token) \ {plReq[r].end} # {}))
  /\ UNCHANGED plOps
  /\ UNCHANGED <<plApp, plSubs, plNext>>

\* DeleteEndpoint: the endpoint, then the subscriptions that name it.
DeleteEndpoint(r) ==
  \E e \in DOMAIN plEnds :
    /\ PlBegins(r, [pc |-> "unsubscribe", end |-> e])
    /\ plEnds' = Del(plEnds, e)
    /\ UNCHANGED <<plApp, plSubs, plNext>>
DropSubs(r) ==
  /\ plReq[r].pc = "unsubscribe"
  /\ plSubs' = plSubs \ {plReq[r].end}
  /\ PlEnds(r)
  /\ UNCHANGED <<plApp, plEnds, plNext>>

\* Subscribe with protocol application needs the endpoint.
SubscribeEndpoint(r) ==
  /\ \E e \in DOMAIN plEnds : PlBegins(r, [pc |-> "subscribe", end |-> e])
  /\ UNCHANGED <<plApp, plEnds, plSubs, plNext>>
PutSubscription(r) ==
  /\ plReq[r].pc = "subscribe"
  /\ plSubs' = plSubs \union {plReq[r].end}
  /\ PlEnds(r)
  /\ UNCHANGED <<plApp, plEnds, plNext>>

PlatformNext ==
  \E r \in PlReqs :
    \/ CreatePlatformApplication(r) \/ DeletePlatformApplication(r) \/ Cascade(r)
    \/ CreatePlatformEndpoint(r) \/ PutEndpoint(r)
    \/ SetEndpointAttributes(r) \/ WriteAttributes(r)
    \/ DeleteEndpoint(r) \/ DropSubs(r)
    \/ SubscribeEndpoint(r) \/ PutSubscription(r)

(***************************************************************************)
(* Properties                                                              *)
(***************************************************************************)
\* Requests that do not overlap leave nothing dangling: endpoints belong to the
\* application, subscriptions to endpoints, and a token to one endpoint.
NothingDangles ==
  Quiet /\ ~plRaced =>
    /\ plEnds # NoRows => plApp
    /\ plSubs \subseteq DOMAIN plEnds
    /\ \A a, b \in DOMAIN plEnds : plEnds[a].token = plEnds[b].token => a = b

\* publish: subscribers of a FIFO topic see one order, a deduplication key
\* goes out once per window, every confirmed subscription whose filter means
\* yes is told and no other, a confirmation stays, and no token leads to a
\* deleted endpoint.
PublishesHold ==
  /\ SubscriberOrder /\ OneMessagePerKey /\ NobodyPassedOver /\ OnlyConfirmed /\ ConfirmationStays /\ NothingDangles

\* The topic and the platform application share nothing.
SnsSpec ==
  /\ SnInit /\ PlatformInit
  /\ [][(SnsNext /\ UNCHANGED plvars) \/ (PlatformNext /\ UNCHANGED snvars)]_<<snvars, plvars>>
=============================================================================
