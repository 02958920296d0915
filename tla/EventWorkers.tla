---------------------------- MODULE EventWorkers ----------------------------
(***************************************************************************)
(* EventBridge Pipes: the worker that drains a stream, with a checkpoint   *)
(* and retry counts kept beside the pipe, or a queue, and clients that     *)
(* delete the pipe and create it again meanwhile.  Drain and DeletePipe    *)
(* are sequences of store operations; nothing serialises them.             *)
(***************************************************************************)
EXTENDS Schedules

CONSTANTS PpRecords,    \* number of records in the stream, or messages in the queue
          PpBatch,      \* BatchSize
          PpRetries,    \* MaximumRetryAttempts
          PpPipes,      \* bound: pipes created
          PpClients     \* clients that delete the pipe

ASSUME PipesBounds == {PpRecords, PpBatch, PpRetries, PpPipes} \subseteq Nat /\ PpBatch > 0

VARIABLES source,     \* "stream" or "queue"
          pipe,       \* the pipe stored, counted by creation; 0: none
          made,       \* pipes created
          checkpoint, \* position stored under the pipe's name, 0: none
          counts,     \* "pipeattempt": failures by record
          head,       \* records the stream has
          hidden,     \* messages received and not yet visible again
          deleted,    \* messages deleted from the queue
          work,       \* the drain: [pc, pipe, from, to, ok, gone, took]
          tried,      \* history: per record, deliveries that failed for the current pipe
          done,       \* history: records delivered, filtered or dead-lettered for the current pipe
          dead,       \* history: records dead-lettered for the current pipe
          removing,   \* per client, its DeletePipe: [pc, keys]
          inherited   \* history: the current pipe was given what another's drain stored

ppvars == <<source, pipe, made, checkpoint, counts, head, hidden, deleted, work, tried, done, dead,
            removing, inherited>>

Recs == 1..PpRecords
AtRest == [pc |-> "idle", keys |-> {}]
NoWork == [pc |-> "idle", pipe |-> 0, from |-> 0, to |-> 0, ok |-> {}, gone |-> {}, took |-> {}]

PipesInit ==
  /\ source \in {"stream", "queue"} /\ pipe = 1 /\ made = 1 /\ checkpoint = 0 /\ counts = NoRows
  /\ head = 0 /\ hidden = {} /\ deleted = {} /\ work = NoWork
  /\ tried = [r \in Recs |-> 0] /\ done = {} /\ dead = {} /\ inherited = FALSE
  /\ removing = [c \in PpClients |-> AtRest]

history == <<tried, done, dead, inherited>>
At(pc) == work.pc = pc
Current == work.pipe = pipe
Wrote == inherited' = (inherited \/ ~Current)

\* A producer appends to the source.
SourceGrows ==
  /\ head < PpRecords /\ head' = head + 1
  /\ UNCHANGED <<source, removing, pipe, made, checkpoint, counts, hidden, deleted, work, history>>

----------------------------------------------------------------------------
(* Clients.                                                                *)

\* CreatePipe, under the same name, reading from the oldest record.  A drain or
\* a deletion of an earlier pipe may have left rows under the name.
CreatePipe ==
  /\ pipe = 0 /\ made < PpPipes /\ made' = made + 1 /\ pipe' = made'
  /\ tried' = [r \in Recs |-> 0] /\ dead' = {}
  /\ done' = IF source = "queue" THEN done ELSE {}
  /\ inherited' = (checkpoint # 0 \/ counts # NoRows)
  /\ UNCHANGED <<source, checkpoint, counts, head, hidden, deleted, work, removing>>

\* deletePipe, store call by store call: it finds the pipe; removes the row,
\* whichever pipe it is by then; the checkpoint; and lists the retry counts and
\* removes them one by one.
Removes(c, from, to, keys) ==
  removing[c].pc = from /\ removing' = [removing EXCEPT ![c] = [pc |-> to, keys |-> keys]]
untouched == <<source, made, head, hidden, deleted, work, history>>

DeletePipe(c) ==
  /\ pipe # 0 /\ Removes(c, "idle", "row", {}) /\ UNCHANGED <<pipe, checkpoint, counts, untouched>>
DeletesRow(c) ==
  /\ Removes(c, "row", "checkpoint", {}) /\ pipe' = 0 /\ UNCHANGED <<checkpoint, counts, untouched>>
DeletesCheckpoint(c) ==
  /\ Removes(c, "checkpoint", "list", {}) /\ checkpoint' = 0 /\ UNCHANGED <<pipe, counts, untouched>>
ListsAttempts(c) ==
  /\ Removes(c, "list", "attempts", DOMAIN counts) /\ UNCHANGED <<pipe, checkpoint, counts, untouched>>
DeletesAttempt(c) ==
  \E r \in removing[c].keys :
    /\ Removes(c, "attempts", "attempts", removing[c].keys \ {r}) /\ counts' = DelAll(counts, {r})
    /\ UNCHANGED <<pipe, checkpoint, untouched>>
DeletePipeEnds(c) ==
  /\ removing[c].keys = {} /\ Removes(c, "attempts", "idle", {})
  /\ UNCHANGED <<pipe, checkpoint, counts, untouched>>
DeletionSteps(c) ==
  DeletesRow(c) \/ DeletesCheckpoint(c) \/ ListsAttempts(c) \/ DeletesAttempt(c) \/ DeletePipeEnds(c)

----------------------------------------------------------------------------
(* drainStream.                                                            *)

\* drain lists the pipe; drainStream gets the checkpoint, or stores the
\* iterator of the starting position, and reads a batch from there; behind an
\* empty one it stores the iterator again.
kept == <<source, head, hidden, deleted, removing, pipe, made>>
DrainBegins ==
  /\ At("idle") /\ pipe # 0 /\ source = "stream"
  /\ work' = [NoWork EXCEPT !.pc = "checkpoint", !.pipe = pipe]
  /\ UNCHANGED <<kept, checkpoint, counts, history>>

DrainGets ==
  /\ At("checkpoint")
  /\ work' = IF checkpoint = 0 THEN [work EXCEPT !.pc = "start", !.from = 1]
              ELSE [work EXCEPT !.pc = "read", !.from = checkpoint]
  /\ UNCHANGED <<kept, checkpoint, counts, history>>

Stores(next) == checkpoint' = work.from /\ work' = next /\ Wrote /\ UNCHANGED <<kept, counts, tried, done, dead>>
DrainStarts == At("start") /\ Stores([work EXCEPT !.pc = "read"])
DrainReads ==
  /\ At("read")
  /\ work' = [work EXCEPT !.pc = IF work.from > head THEN "store" ELSE "deliver",
                          !.to = MinOf({head, work.from + PpBatch - 1})]
  /\ UNCHANGED <<kept, checkpoint, counts, history>>

Batch == work.from..work.to

\* Records past their maximum age are dead-lettered, the rest is filtered,
\* enriched and delivered: some of it arrives.  `took` are the records whose
\* dead letter is accepted in this round.
Capped(n) == MinOf({n, PpRetries + 1})
ProcessRecords(took) ==
  /\ At("deliver") /\ source = "stream"
  /\ \E gone \in SUBSET Batch : \E arrived \in SUBSET (Batch \ gone) :
       LET ok == arrived \union (gone \intersect took) IN
       /\ work' = [work EXCEPT !.pc = "settle", !.ok = ok, !.gone = gone, !.took = took]
       /\ done' = IF Current THEN done \union ok ELSE done
       /\ tried' = [r \in Recs |-> IF Current /\ r \in Batch \ ok THEN Capped(tried[r] + 1) ELSE tried[r]]
  /\ UNCHANGED <<kept, checkpoint, counts, dead, inherited>>

Failures(r) == IF r \in DOMAIN counts THEN counts[r] + 1 ELSE 1

\* The batch in order: the first record that is left with retries, that is past
\* its age, or whose dead letter was refused, is where the checkpoint goes; the
\* ones before it are settled, the successes after it are read again.
UsedUpEarly(r) == Failures(r) >= PpRetries   \* mistake: one retry less than the pipe allows
UsedUp(r) == Failures(r) > PpRetries
SettleBatch ==
  LET open == {r \in Batch : r \notin work.ok /\ ~(r \in work.took \ work.gone /\ UsedUp(r))}
      stop == IF open = {} THEN work.to + 1 ELSE MinOf(open)
      over == {r \in Batch : r < stop /\ r \notin work.ok}
      left == DelAll(counts, work.from..(stop - 1))
  IN /\ At("settle") /\ source = "stream"
     /\ counts' = IF open = {} \/ stop \in work.gone \/ UsedUp(stop) THEN left
                  ELSE Put(left, stop, Failures(stop))
     /\ done' = IF Current THEN done \union over ELSE done
     /\ dead' = IF Current THEN dead \union over ELSE dead
     /\ work' = [work EXCEPT !.pc = "store", !.from = stop] /\ Wrote
     /\ UNCHANGED <<kept, checkpoint, tried>>
\* Then the iterator behind the batch, or at the record to be read again.
DrainStores == At("store") /\ Stores(NoWork)

----------------------------------------------------------------------------
(* drainSQS: receive, process, delete what succeeded.                      *)

DrainSQS ==
  /\ At("idle") /\ pipe # 0 /\ source = "queue"
  /\ \E got \in SUBSET ((1..head) \ (hidden \union deleted)) :
       /\ Cardinality(got) \in 1..PpBatch
       /\ hidden' = hidden \union got
       /\ work' = [NoWork EXCEPT !.pc = "deliver", !.pipe = pipe, !.gone = got]
  /\ UNCHANGED <<source, removing, pipe, made, checkpoint, counts, head, deleted, history>>

ProcessBatch ==
  /\ At("deliver") /\ source = "queue"
  /\ \E ok \in SUBSET work.gone :
       /\ work' = [work EXCEPT !.pc = "settle", !.ok = ok]
       /\ done' = done \union ok
  /\ UNCHANGED <<source, removing, pipe, made, checkpoint, counts, head, hidden, deleted, tried, dead, inherited>>

DeleteMessages ==
  /\ At("settle") /\ source = "queue"
  /\ deleted' = deleted \union work.ok /\ work' = NoWork
  /\ UNCHANGED <<source, removing, pipe, made, checkpoint, counts, head, hidden, history>>

\* The visibility timeout of a message passes, maybe while it is processed.
VisibleAgain(m) ==
  /\ m \in hidden \ deleted /\ hidden' = hidden \ {m}
  /\ UNCHANGED <<source, removing, pipe, made, checkpoint, counts, head, deleted, work, history>>

----------------------------------------------------------------------------
DrainSteps ==
  \/ DrainBegins \/ DrainGets \/ DrainStarts \/ DrainReads \/ SettleBatch \/ DrainStores
  \/ (\E took \in {Recs, {}} : ProcessRecords(took))
  \/ DrainSQS \/ ProcessBatch \/ DeleteMessages

PipesNext ==
  \/ SourceGrows \/ CreatePipe \/ DrainSteps \/ \E m \in Recs : VisibleAgain(m)
  \/ \E c \in PpClients : DeletePipe(c) \/ DeletionSteps(c)

\* The loop runs, on a signal or by its one-second poll, and a dead-letter
\* target that is tried again and again takes the record.
PipesFairness ==
  /\ WF_ppvars(DrainSteps) /\ SF_ppvars(ProcessRecords(Recs)) /\ WF_ppvars(SourceGrows)

----------------------------------------------------------------------------
\* No record is skipped: what the checkpoint has passed was delivered, filtered
\* out or dead-lettered for this pipe, and a message deleted from the queue was
\* delivered.  Excepted is a pipe that found rows under its name when it was
\* created, or to which a drain of an earlier pipe wrote (pipes.go:77 says a pipe
\* "must not inherit" them); one whose rows an older deletion removes is not.
NothingSkipped ==
  /\ pipe # 0 /\ ~inherited => \A r \in Recs : r < checkpoint => r \in done
  /\ deleted \subseteq done

\* A record that is not too old is dead-lettered only when its retries are
\* used up, also when its batch was read again because of another record.
RetriesHonoured == (pipe # 0 /\ ~inherited) => \A r \in dead : tried[r] > PpRetries

\* A record that fails for ever does not hold up the shard: as long as the pipe
\* stays the checkpoint passes every record.
StreamDrains == \A r \in Recs : (pipe # 0 /\ source = "stream") ~> (pipe = 0 \/ checkpoint > r)

-----------------------------------------------------------------------------
(***************************************************************************)
(* EventBridge: putEvents and scheduled rules deliver to a target; what    *)
(* fails is stored and retried by one worker, within attempts and age, or  *)
(* dead-lettered.  API destinations share a rate of calls per window.      *)
(***************************************************************************)

CONSTANTS EvEvents,    \* events that clients put
          EvMaxTime,   \* bound: instants
          EvRetries,   \* MaximumRetryAttempts
          EvAge,       \* MaximumEventAgeInSeconds
          EvEvery,     \* period of the scheduled rule
          EvRate,      \* InvocationRateLimitPerSecond
          EvPuts       \* bound: writes of the rule

ASSUME EventBounds ==
  {EvRate, EvEvery} \subseteq Nat \ {0} /\ {EvMaxTime, EvRetries, EvAge, EvPuts} \subseteq Nat

VARIABLES retries,    \* "event-retries": by event, [tries, since, next]
          rule,       \* the scheduled rule: [put, on, next]
          puts,       \* writes of the rule
          evpc,       \* the worker: "retries", "rules", "fire" or "sleep"
          todo,       \* the retries it listed and has not handled
          seen,       \* the rule it listed
          evSleep,    \* the earliest time it will sleep until
          evWoken,    \* the wake channel holds a value
          evnow,      \* the clock
          runNow,     \* the instant the pass works with
          booked,     \* "apidest-rate": calls by window, and the window stored
          window,
          evfate      \* history: per event, [put, tries, ended]

evvars == <<retries, rule, puts, evpc, todo, seen, evSleep, evWoken, evnow, runNow, booked, window, evfate>>

Far == EvMaxTime + EvAge + EvEvery + 1
NoRule == [put |-> 0, on |-> FALSE, next |-> Far]

EventsInit ==
  /\ retries = NoRows /\ rule = NoRule /\ puts = 0 /\ evpc = "retries" /\ todo = NoRows
  /\ seen = NoRule /\ evSleep = Far /\ evWoken = FALSE /\ evnow = 0 /\ runNow = 0
  /\ booked = [w \in 0..Far |-> 0] /\ window = 0
  /\ evfate = [e \in EvEvents |-> [put |-> FALSE, tries |-> 0, ended |-> 0]]

workerState == <<evpc, todo, seen, evSleep, runNow>>
rateState == <<booked, window>>

Notify == evWoken' = TRUE
Ends(e) == [evfate EXCEPT ![e].put = TRUE, ![e].tries = @ + 1, ![e].ended = @ + 1]
Goes(e) == [evfate EXCEPT ![e].put = TRUE, ![e].tries = @ + 1]

\* retryTarget: give up on age or attempts, otherwise store the next attempt,
\* never later than the event's age allows.
Exhausted(r, t) == t >= r.since + EvAge \/ r.tries >= EvRetries
NextAttempt(r, t, jitter) ==
  [tries |-> r.tries + 1, since |-> r.since, next |-> MinOf({t + jitter, r.since + EvAge})]

----------------------------------------------------------------------------
\* PutEvents: fanout delivers at once; failedTarget stores the retry and then
\* wakes the worker, or dead-letters.
PutEvent(e, outcome, jitter) ==
  LET fresh == [tries |-> 0, since |-> evnow, next |-> evnow] IN
  /\ ~evfate[e].put
  /\ IF outcome = "retryable" /\ ~Exhausted(fresh, evnow)
     THEN retries' = Put(retries, e, NextAttempt(fresh, evnow, jitter)) /\ Notify /\ evfate' = Goes(e)
     ELSE evfate' = Ends(e) /\ UNCHANGED <<retries, evWoken>>
  /\ UNCHANGED <<rule, puts, evnow, workerState, rateState>>

\* PutRule with a schedule stores the next instant and wakes the worker.
PutRule(on) ==
  /\ puts < EvPuts /\ puts' = puts + 1
  /\ rule' = [put |-> puts', on |-> on, next |-> evnow + EvEvery] /\ Notify
  /\ UNCHANGED <<retries, evnow, evfate, workerState, rateState>>

DeleteRule ==
  /\ rule # NoRule /\ rule' = NoRule
  /\ UNCHANGED <<retries, puts, evnow, evWoken, evfate, workerState, rateState>>

----------------------------------------------------------------------------
(* The worker: runRetries, then runScheduledRules, then sleep.             *)

RunRetries ==
  LET due == {e \in DOMAIN retries : retries[e].next <= evnow} IN
  /\ evpc = "retries" /\ evpc' = "rules" /\ runNow' = evnow
  /\ todo' = [e \in due |-> retries[e]]
  /\ evSleep' = MinOf({Far} \union {retries[e].next : e \in DOMAIN retries \ due})
  /\ UNCHANGED <<retries, rule, puts, seen, evWoken, evnow, rateState, evfate>>

\* One listed retry: past its age it is dead-lettered without a delivery;
\* delivered, refused or exhausted, its record is deleted; else it is stored
\* again with its next time.
RetryEvent(e, outcome, jitter) ==
  LET r == todo[e] IN
  /\ evpc = "rules" /\ e \in DOMAIN todo
  /\ todo' = Del(todo, e)
  /\ CASE runNow >= r.since + EvAge ->
            /\ retries' = Del(retries, e) /\ evfate' = [evfate EXCEPT ![e].ended = @ + 1]
            /\ UNCHANGED evSleep
       [] runNow < r.since + EvAge /\ outcome = "retryable" /\ ~Exhausted(r, evnow) ->
            /\ retries' = Put(retries, e, NextAttempt(r, evnow, jitter)) /\ evfate' = Goes(e)
            /\ evSleep' = MinOf({evSleep, retries'[e].next})
       [] OTHER -> retries' = Del(retries, e) /\ evfate' = Ends(e) /\ UNCHANGED evSleep
  /\ UNCHANGED <<rule, puts, evpc, seen, evWoken, evnow, runNow, rateState>>

\* runScheduledRules: a rule that is due is fired from the record listed ...
RunScheduledRules ==
  /\ evpc = "rules" /\ DOMAIN todo = {} /\ runNow' = evnow
  /\ IF rule.on /\ rule.next <= evnow
     THEN evpc' = "fire" /\ seen' = rule /\ UNCHANGED evSleep
     ELSE /\ evpc' = "sleep" /\ UNCHANGED seen
          /\ evSleep' = IF rule.on THEN MinOf({evSleep, rule.next}) ELSE evSleep
  /\ UNCHANGED <<retries, rule, puts, todo, evWoken, evnow, rateState, evfate>>

\* ... and the record is put back with the next instant, over whatever is there
\* by now.
FireRule ==
  /\ evpc = "fire" /\ evpc' = "sleep"
  /\ rule' = [seen EXCEPT !.next = @ + EvEvery]
  /\ evSleep' = MinOf({evSleep, rule'.next})
  /\ UNCHANGED <<retries, puts, todo, seen, evWoken, evnow, runNow, rateState, evfate>>

EventWorkerWakes ==
  /\ evpc = "sleep"
  /\ \/ evWoken /\ evWoken' = FALSE
     \/ evSleep <= evnow /\ UNCHANGED evWoken
  /\ evpc' = "retries"
  /\ UNCHANGED <<retries, rule, puts, todo, seen, evSleep, evnow, runNow, rateState, evfate>>

EventsTick ==
  /\ evnow < EvMaxTime /\ evnow' = evnow + 1
  /\ UNCHANGED <<retries, rule, puts, evWoken, evfate, workerState, rateState>>

----------------------------------------------------------------------------

\* waitAPIDestinationRate: a caller that read the clock at t, maybe a while ago,
\* books a place in one transaction: in the window of t when that is later than
\* the stored one, in the stored one while it has room, or in the one after.
WaitAPIDestinationRate(t) ==
  /\ t \in 0..evnow /\ window < Far
  /\ window' = IF t >= window + 1 THEN t
               ELSE IF booked[window] >= EvRate THEN window + 1 ELSE window
  /\ booked' = [booked EXCEPT ![window'] = @ + 1]
  /\ UNCHANGED <<retries, rule, puts, evnow, evWoken, evfate, workerState>>

----------------------------------------------------------------------------
EventWork ==
  \/ RunRetries \/ RunScheduledRules \/ FireRule \/ EventWorkerWakes
  \/ \E e \in EvEvents, outcome \in {"ok", "retryable"}, jitter \in 1..2 : RetryEvent(e, outcome, jitter)

DeliveryNext ==
  \/ EventWork \/ EventsTick
  \/ \E e \in EvEvents, outcome \in {"ok", "retryable"}, jitter \in 1..2 : PutEvent(e, outcome, jitter)
  \/ \E on \in BOOLEAN : PutRule(on)
  \/ DeleteRule
RateNext == EventsTick \/ \E t \in 0..EvMaxTime : WaitAPIDestinationRate(t)

EventsFairness == WF_evvars(EventWork) /\ WF_evvars(EventsTick)

----------------------------------------------------------------------------
\* An event comes to one end: delivered, or given up with a dead letter, once,
\* after at most the allowed number of attempts.
EventEndsOnce ==
  \A e \in EvEvents : evfate[e].ended <= 1 /\ evfate[e].tries <= EvRetries + 1

\* Every event that was put comes to its end: the worker is woken for a retry
\* that was stored while it was listing, and its age is a bound in any case.
EventEnds ==
  \A e \in EvEvents :
    (evfate[e].put /\ (e \in DOMAIN retries => retries[e].since + EvAge <= EvMaxTime))
       ~> (evfate[e].ended > 0 \/ (e \in DOMAIN retries /\ retries[e].since + EvAge > EvMaxTime))

\* No window is booked beyond the rate, whatever instants the callers read, and
\* the window stored never moves back.
RateHolds == (\A w \in DOMAIN booked : booked[w] <= EvRate) /\ (\A w \in DOMAIN booked : w > window => booked[w] = 0)

\* A rule that was deleted or replaced stays so.
RuleWritesStand == [][rule'.put # rule.put => puts' # puts \/ rule' = NoRule]_evvars

-----------------------------------------------------------------------------
(***************************************************************************)
(* The SQS event source of Lambda (lambda/lambda.go).  A message on the    *)
(* bus only wakes the worker; each wake is a pass that receives a batch    *)
(* with no visibility timeout, invokes the mapped function, deletes what   *)
(* it did not report as failed and tries again, at most LaAttempts times.  *)
(* Passes of two wakes overlap.  Of the queue (behavior/aws/sqs) only      *)
(* what a pass meets is kept: a handle, a receive count and the dead       *)
(* letter queue.                                                           *)
(***************************************************************************)

CONSTANTS
  LaMessages, LaPasses,
  LaBatch,       \* MaxNumberOfMessages
  LaAttempts,    \* rounds of one pass
  LaMaxReceives  \* values of maxReceiveCount; 0 when the queue has no dead letter queue

VARIABLES
  laQueue,    \* message -> [count, handle]
  laSent,     \* messages sent
  laEnabled,  \* the mapping is enabled
  laDead,     \* the dead letter queue
  laPass,     \* pass -> where it stands
  laHandled,  \* ghost: messages a function has taken without reporting them
  laMax       \* maxReceiveCount of the queue

lavars == <<laQueue, laSent, laEnabled, laDead, laPass, laHandled, laMax>>

Asleep == [pc |-> "asleep", attempt |-> 0, batch |-> {}, failed |-> {}]
LaInit ==
  /\ laQueue = NoRows /\ laSent = {} /\ laEnabled \in BOOLEAN /\ laDead = {}
  /\ laPass = [p \in LaPasses |-> Asleep] /\ laHandled = {} /\ laMax \in LaMaxReceives

\* SendMessage publishes on the bus; consumeSQS starts a pass of every
\* enabled mapping of the queue, on the sender's call.
Send(m, p) ==
  /\ m \notin laSent /\ laPass[p].pc = "asleep" /\ laSent' = laSent \union {m}
  /\ laQueue' = Put(laQueue, m, [count |-> 0, handle |-> "none"])
  /\ laPass' = IF laEnabled THEN [laPass EXCEPT ![p] = [Asleep EXCEPT !.pc = "receive"]] ELSE laPass
  /\ UNCHANGED <<laEnabled, laDead, laHandled, laMax>>
Enable == ~laEnabled /\ laEnabled' = TRUE /\ UNCHANGED <<laQueue, laSent, laDead, laPass, laHandled, laMax>>

\* ReceiveMessage: what was received too often goes to the dead letter queue
\* instead.  A message received again gets a new handle: a pass only ever
\* uses the handles of its latest receive, so the pass names them.
Receive(p) ==
  /\ laPass[p].pc = "receive"
  /\ LET spent == {m \in DOMAIN laQueue : laMax > 0 /\ laQueue[m].count >= laMax}
         live == DOMAIN laQueue \ spent
         size == IF Cardinality(live) < LaBatch THEN Cardinality(live) ELSE LaBatch
     IN /\ laDead' = laDead \union spent
        /\ \E batch \in {b \in SUBSET live : Cardinality(b) = size} :
             /\ laQueue' = [m \in live |->
                  IF m \in batch THEN [count |-> IF laMax > 0 THEN laQueue[m].count + 1
                      ELSE 0, handle |-> p] ELSE laQueue[m]]
             /\ laPass' = [laPass EXCEPT ![p] =
                  IF batch = {} THEN Asleep
                  ELSE [@ EXCEPT !.pc = "invoke", !.batch = batch]]
  /\ UNCHANGED <<laSent, laEnabled, laHandled, laMax>>

\* Mistake: the attempts are not counted.
AgainForEver(p) == [laPass EXCEPT ![p] = [Asleep EXCEPT !.pc = "receive"]]

\* The next round of a pass.
Again(p) ==
  [laPass EXCEPT ![p] = IF @.attempt + 1 < LaAttempts THEN [Asleep EXCEPT !.pc = "receive",
      !.attempt = laPass[p].attempt + 1] ELSE Asleep]

\* Invoke fails, or answers with the items it could not handle (batchItemFailures).
InvokeFails(p) ==
  /\ laPass[p].pc = "invoke" /\ laPass' = Again(p)
  /\ UNCHANGED <<laQueue, laSent, laEnabled, laDead, laHandled, laMax>>
InvokeAnswers(p, failed) ==
  /\ laPass[p].pc = "invoke" /\ failed \subseteq laPass[p].batch
  /\ laPass' = [laPass EXCEPT ![p].pc = "delete", ![p].failed = failed]
  /\ laHandled' = laHandled \union (laPass[p].batch \ failed)
  /\ UNCHANGED <<laQueue, laSent, laEnabled, laDead, laMax>>

\* One DeleteMessage per message that was not reported; the handle of an
\* earlier delivery deletes nothing.  A pass without failures ends.
Delete(p) ==
  /\ laPass[p].pc = "delete"
  /\ LET b == laPass[p].batch
         left == b \ laPass[p].failed
     IN IF left = {} THEN laPass' = (IF laPass[p].failed = {} THEN [laPass EXCEPT ![p] = Asleep]
         ELSE Again(p)) /\ UNCHANGED laQueue
        ELSE \E m \in left :
               /\ laQueue' = IF m \in DOMAIN laQueue /\ laQueue[m].handle = p THEN Del(laQueue, m)
                    ELSE laQueue
               /\ laPass' = [laPass EXCEPT ![p].batch = @ \ {m}]
  /\ UNCHANGED <<laSent, laEnabled, laDead, laHandled, laMax>>

LaRound(p) ==
  \/ Receive(p) \/ InvokeFails(p) \/ Delete(p)
  \/ \E failed \in SUBSET LaMessages : InvokeAnswers(p, failed)
LaNext ==
  \/ Enable
  \/ \E p \in LaPasses : LaRound(p) \/ \E m \in LaMessages : Send(m, p)

(***************************************************************************)
(* Properties                                                              *)
(***************************************************************************)

\* No message is lost to the function, however passes overlap, whatever
\* invocations fail: one that has left the queue was handled by a function
\* that did not report it, or is in the dead letter queue.
GoneWasHandled ==
  \A m \in laSent : m \notin DOMAIN laQueue => m \in laHandled \union laDead

\* A pass ends, also when the function fails every time and the queue has no
\* dead letter queue.
PassesEnd == \A p \in LaPasses : laPass[p].pc # "asleep" ~> laPass[p].pc = "asleep"

-----------------------------------------------------------------------------
(***************************************************************************)
(* The workers side by side in one process: they share no state, and each  *)
(* is driven by its own clients and its own clock.                         *)
(***************************************************************************)

allWorkers == <<scvars, ppvars, evvars, lavars>>

WorkersInit == SchedulerInit /\ PipesInit /\ EventsInit /\ LaInit

WorkersNext ==
  \/ SchedulerNext /\ UNCHANGED <<ppvars, evvars, lavars>>
  \/ PipesNext /\ UNCHANGED <<scvars, evvars, lavars>>
  \/ (DeliveryNext \/ RateNext) /\ UNCHANGED <<scvars, ppvars, lavars>>
  \/ LaNext /\ UNCHANGED <<scvars, ppvars, evvars>>

WorkersSpec == WorkersInit /\ [][WorkersNext]_allWorkers

\* The passes of the scheduler, the pipe, the event and the queue workers: each
\* occurrence, record, event and message is settled once and within its
\* retries, and none is passed over or dropped.
WorkersSettle ==
  /\ OccurrenceBounded /\ NothingSkipped /\ RetriesHonoured /\ EventEndsOnce
  /\ RateHolds /\ GoneWasHandled
=============================================================================
