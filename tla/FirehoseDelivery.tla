--------------------------- MODULE FirehoseDelivery ---------------------------
(***************************************************************************)
(* One Firehose delivery stream (internal/services/aws/firehose): the put  *)
(* handlers that buffer records, the worker that flushes the buffer and    *)
(* retries what a destination did not take, and DeleteDeliveryStream, all  *)
(* of which run concurrently over the same collections and blobs.          *)
(*                                                                         *)
(* Times are kept relative to the present: `next` and `exp` count down as  *)
(* the clock ticks and stay at 0 once they have passed.  The worker works  *)
(* with the `now` it read when its pass began, `lag` ticks ago.            *)
(***************************************************************************)
EXTENDS Tables, FiniteSets, Sequences

CONSTANTS FhRecords,     \* records the clients put
          FhConfigs,     \* destinations (see fhCfg), with the bounds epochs and flips:
                         \* how often the stream is created, its key disabled
          FhSizeLimit,   \* buffering size, in records
          FhMaxLag       \* ticks one delivery attempt may take

ASSUME FirehoseConstants ==
  /\ {FhRecords, FhSizeLimit} \subseteq Nat \ {0}
  /\ FhMaxLag \in Nat
  /\ \A c \in FhConfigs :
       /\ c.kind \in {"http", "splunk", "snowflake", "search", "redshift"}
       /\ c.all \in BOOLEAN /\ {c.window, c.every, c.epochs, c.flips} \subseteq Nat
       /\ c.text \subseteq 1..FhRecords

VARIABLES fhCfg,     \* the destination: its kind, whether everything is backed up,
                     \* the retry duration, the buffering interval; and which
                     \* records are not JSON objects
          fhStream,  \* the stream's record exists
          fhEpoch,   \* how often it was created
          fhDel,     \* DeleteDeliveryStream between its two halves
          fhKey,     \* the KMS key: on, and how often it was disabled
          fhTaken,   \* records accepted so far
          fhPut,     \* the put handler: pc and the records it carries
          fhBuf,     \* buffered entries: size, order, next
          fhRetry,   \* scheduled retries: next, exp, tries
          fhBlob,    \* payloads of both, by the same key
          fhEnd,     \* what became of each record
          fhWk,      \* the worker
          fhWake     \* the worker's wake channel, of capacity one

fhvars == <<fhCfg, fhStream, fhEpoch, fhDel, fhKey, fhTaken, fhPut, fhBuf,
            fhRetry, fhBlob, fhEnd, fhWk, fhWake>>
fhdata == <<fhBuf, fhRetry, fhBlob, fhEnd>>

Never == 99     \* the zero time: nothing to wait for
Floor(t) == IF t < 0 THEN 0 ELSE t
Sooner(a, b) == IF a < b THEN a ELSE b
Endpoint == fhCfg.kind \in {"http", "splunk", "snowflake"}
Elements(s) == {s[i] : i \in DOMAIN s}

\* Settled outcomes end a record's journey; the others are copies made on the way.
Settled == {"acked", "backup", "refused"}
MarkAll(end, R, what) ==
  [r \in DOMAIN end |->
     IF r \notin R THEN end[r]
     ELSE IF what \in Settled /\ end[r] \cap Settled # {} THEN end[r] \union {"twice"}
     ELSE end[r] \union {what}]

\* Work keys are UUIDs: a new one is none that a table or the worker holds.
FreshKey == MinOf(1..(2 * FhRecords + 2) \ (DOMAIN fhBuf \union DOMAIN fhRetry \union DOMAIN fhBlob
                                             \union DOMAIN fhWk.items \union DOMAIN fhWk.todo))

\* protectStreamData encrypts under the stream's key; decryptAtRest needs it again.
CanProtect == fhStream /\ fhKey.on
Readable(keys) == fhKey.on /\ keys \subseteq DOMAIN fhBlob

\* httpRetryDelay: doubling, capped; the jitter stays within a tick.
RetryDelay(n) == IF fhCfg.kind = "redshift" THEN 2 ELSE IF n = 0 THEN 1 ELSE 2

Idle == [pc |-> "none", recs |-> <<>>]
Worker(pc, best) ==
  [pc |-> pc, best |-> best, items |-> NoRows, todo |-> NoRows, data |-> <<>>, key |-> 0, lag |-> 0,
   alarm |-> Never, own |-> TRUE]

FhInit ==
  /\ fhCfg \in FhConfigs
  /\ fhStream = TRUE /\ fhEpoch = 1 /\ fhDel = FALSE
  /\ fhKey = [on |-> TRUE, flips |-> 0]
  /\ fhTaken = 0 /\ fhPut = Idle
  /\ fhBuf = NoRows /\ fhRetry = NoRows /\ fhBlob = NoRows
  /\ fhEnd = [r \in 1..FhRecords |-> {}]
  /\ fhWk = Worker("buffers", Never) /\ fhWake = FALSE

(***************************************************************************)
(* What a delivery attempt can answer, and what is done with the answer.   *)
(* Endpoints take or refuse a request as a whole; OpenSearch answers per   *)
(* document, and a record that is no JSON object never succeeds there.     *)
(***************************************************************************)
deliverEndpoint(recs) ==
  {[r \in recs |-> v] : v \in {"acked", "retry"} \union
       (IF fhCfg.kind = "splunk" THEN {} ELSE {"perm"})}
deliverSearch(recs) ==
  {f \in [recs -> {"acked", "retry", "perm"}] : \A r \in recs : f[r] = "perm" <=> r \in fhCfg.text}
Answers(recs) ==
  CASE Endpoint -> deliverEndpoint(recs)
    [] fhCfg.kind = "search" -> deliverSearch(recs)
    [] OTHER -> {[r \in recs |-> v] : v \in {"acked", "retry"}}   \* redshift Copy

Chosen(ans, v) == {r \in DOMAIN ans : ans[r] = v}
Only(recs, R) == SelectSeq(recs, LAMBDA r : r \in R)

\* Only http and snowflake skip the failure backup, when everything was backed up.
BackupFailures == fhCfg.kind \in {"splunk", "search"} \/ ~fhCfg.all
backupPayload(end, R) ==
  IF fhCfg.kind = "redshift" \/ ~BackupFailures THEN end ELSE MarkAll(end, R, "backup")

\* A first attempt's answer: permanent failures are backed up; the rest is
\* scheduled for a retry under a new key, or backed up when it cannot be.
SettleFirst(recs, ans, lag) ==
  LET again    == Chosen(ans, "retry")
      retrying == again # {} /\ fhCfg.window > 0 /\ CanProtect
      exp      == Floor(fhCfg.window - lag)
      settled  == MarkAll(fhEnd, Chosen(ans, "acked"), "acked")
      backed   == Chosen(ans, "perm") \union (IF retrying THEN {} ELSE again)
  IN /\ fhEnd' = backupPayload(settled, backed)
     /\ fhRetry' = IF ~retrying THEN fhRetry
                   ELSE Put(fhRetry, FreshKey,
                            [next |-> Sooner(Floor(RetryDelay(0) - lag), exp), exp |-> exp, tries |-> 0])
     /\ fhWake' = (fhWake \/ retrying)

RetryBlob(blob, recs, ans) ==
  LET again == Chosen(ans, "retry")
  IN IF again # {} /\ fhCfg.window > 0 /\ CanProtect THEN Put(blob, FreshKey, Only(recs, again)) ELSE blob

(***************************************************************************)
(* PutRecord and PutRecordBatch                                            *)
(***************************************************************************)
\* The stream is read, the key ensured and the records stored (storeOne).
FhPutRecord ==
  /\ fhPut.pc = "none" /\ fhStream /\ fhKey.on
  /\ \E n \in 1..2 :
       /\ fhTaken + n <= FhRecords
       /\ fhTaken' = fhTaken + n
       /\ fhPut' = [pc |-> "stored", recs |-> [i \in 1..n |-> fhTaken + i]]
  /\ UNCHANGED <<fhCfg, fhStream, fhEpoch, fhDel, fhKey, fhdata, fhWk, fhWake>>

\* bufferEndpoint and bufferSearch: one transaction over the stream's entries.
\* The search buffer moves every entry to the new deadline, the endpoint
\* buffer only when the size limit makes the whole buffer due.
BufferedEntries(size) ==
  LET all   == DOMAIN fhBuf
      total == size + (LET Sum[s \in SUBSET all] ==
                             IF s = {} THEN 0
                             ELSE LET k == CHOOSE k \in s : TRUE IN fhBuf[k].size + Sum[s \ {k}]
                       IN Sum[all])
      first == MinOf({fhCfg.every} \union {fhBuf[k].next : k \in all})
      due   == total >= FhSizeLimit
      next  == IF due THEN 0 ELSE first
      order == 1 + MaxOf({0} \union {fhBuf[k].order : k \in all})
      moved == IF due \/ fhCfg.kind = "search" THEN [k \in all |-> [fhBuf[k] EXCEPT !.next = next]] ELSE fhBuf
  IN Put(moved, FreshKey, [size |-> size, order |-> order, next |-> next])

\* bufferSearch with interval 0 runs the search work itself and wakes nobody.
RunsItself == fhCfg.kind = "search" /\ fhCfg.every = 0

\* What is left of the records after the copies and failures made at intake.
Copied(end) ==
  IF fhCfg.kind = "redshift" THEN MarkAll(end, Elements(fhPut.recs), "staged")
  ELSE IF fhCfg.all THEN MarkAll(end, Elements(fhPut.recs), "copied") ELSE end
Unfit == IF fhCfg.kind = "snowflake" THEN fhCfg.text \cap Elements(fhPut.recs) ELSE {}
Fit == Only(fhPut.recs, Elements(fhPut.recs) \ Unfit)

\* deliver: the stream may be gone by now; otherwise buffer, or go on directly
\* when the payload cannot be protected.  Redshift is never buffered.
FhDeliver ==
  /\ fhPut.pc = "stored"
  /\ IF ~fhStream
     THEN /\ fhPut' = Idle
          /\ fhEnd' = MarkAll(fhEnd, Elements(fhPut.recs), "dropped")
          /\ UNCHANGED <<fhBuf, fhRetry, fhBlob, fhWake>>
     ELSE /\ fhEnd' = MarkAll(Copied(fhEnd), Unfit, "backup")
          /\ fhRetry' = fhRetry
          /\ IF Fit = <<>>
             THEN fhPut' = Idle /\ UNCHANGED <<fhBuf, fhBlob, fhWake>>
             ELSE IF fhCfg.kind # "redshift" /\ CanProtect
             THEN /\ fhPut' = IF RunsItself THEN [pc |-> "run", recs |-> <<>>] ELSE Idle
                  /\ fhBuf' = BufferedEntries(Len(fhPut.recs))
                  /\ fhBlob' = Put(fhBlob, FreshKey, Fit)
                  /\ fhWake' = (fhWake \/ ~RunsItself)
             ELSE /\ fhPut' = [pc |-> "direct", recs |-> Fit]
                  /\ UNCHANGED <<fhBuf, fhBlob, fhWake>>
  /\ UNCHANGED <<fhCfg, fhStream, fhEpoch, fhDel, fhKey, fhTaken, fhWk>>

\* The attempt the handler makes itself.
FhDirect ==
  /\ fhPut.pc = "direct"
  /\ \E ans \in Answers(Elements(fhPut.recs)) :
       /\ SettleFirst(fhPut.recs, ans, 0)
       /\ fhBlob' = RetryBlob(fhBlob, fhPut.recs, ans)
  /\ fhPut' = Idle
  /\ UNCHANGED <<fhCfg, fhStream, fhEpoch, fhDel, fhKey, fhTaken, fhBuf, fhWk>>

(***************************************************************************)
(* DeleteDeliveryStream and CreateDeliveryStream                           *)
(***************************************************************************)
deleteHTTPStreamWork ==
  /\ fhStream /\ ~fhDel
  /\ fhDel' = TRUE
  /\ fhBuf' = NoRows /\ fhRetry' = NoRows
  /\ fhBlob' = DelAll(fhBlob, DOMAIN fhBuf \union DOMAIN fhRetry)
  /\ UNCHANGED <<fhCfg, fhStream, fhEpoch, fhKey, fhTaken, fhPut, fhEnd, fhWk, fhWake>>

DeleteRecord ==
  /\ fhDel
  /\ fhDel' = FALSE /\ fhStream' = FALSE
  /\ UNCHANGED <<fhCfg, fhEpoch, fhKey, fhTaken, fhPut, fhdata, fhWk, fhWake>>

CreateDeliveryStream ==
  /\ ~fhStream /\ fhEpoch < fhCfg.epochs
  /\ fhStream' = TRUE /\ fhEpoch' = fhEpoch + 1
  /\ UNCHANGED <<fhCfg, fhDel, fhKey, fhTaken, fhPut, fhdata, fhWk, fhWake>>

\* The customer's KMS key is disabled and enabled from outside.
KeyDisabled ==
  /\ fhKey.on /\ fhKey.flips < fhCfg.flips
  /\ fhKey' = [on |-> FALSE, flips |-> fhKey.flips + 1]
  /\ UNCHANGED <<fhCfg, fhStream, fhEpoch, fhDel, fhTaken, fhPut, fhdata, fhWk, fhWake>>
KeyEnabled ==
  /\ ~fhKey.on
  /\ fhKey' = [fhKey EXCEPT !.on = TRUE]
  /\ UNCHANGED <<fhCfg, fhStream, fhEpoch, fhDel, fhTaken, fhPut, fhdata, fhWk, fhWake>>

(***************************************************************************)
(* The worker, httpRetryLoop: buffers, then retries, then the wait.        *)
(***************************************************************************)
fhrest == <<fhCfg, fhStream, fhEpoch, fhDel, fhKey, fhTaken, fhPut>>

\* runHTTPBuffers and the first half of runSearchWork: the entries are listed,
\* and their earliest deadline decides whether the whole buffer is flushed.
\* runSearchWork lists its retries at the same moment.
FhListBuffers ==
  /\ fhWk.pc = "buffers"
  /\ LET items == IF fhCfg.kind = "redshift" THEN NoRows ELSE fhBuf
         next  == MinOf({Never} \union {items[k].next : k \in DOMAIN items})
         todo  == IF fhCfg.kind = "search" THEN fhRetry ELSE NoRows
     IN fhWk' = IF next = 0
                THEN [fhWk EXCEPT !.pc = "load", !.items = items, !.todo = todo, !.lag = 0]
                ELSE [fhWk EXCEPT !.pc = "retries", !.best = Sooner(fhWk.best, next), !.todo = todo,
                    !.lag = 0]
  /\ UNCHANGED <<fhrest, fhdata, fhWake>>

\* The listed payloads, in the order they were buffered.
InOrder(items) ==
  LET at(n) == CHOOSE k \in DOMAIN items :
                 n = Cardinality({j \in DOMAIN items : items[j].order <= items[k].order})
      cat[n \in 0..Cardinality(DOMAIN items)] == IF n = 0 THEN <<>> ELSE cat[n - 1] \o fhBlob[at(n)]
  IN cat[Cardinality(DOMAIN items)]

\* Payloads that are deleted because their stream is gone.
Orphans(keys) == keys

\* The first half of flushHTTPBuffer and flushSearchBuffer: a stream that is
\* gone takes its entries along; entries that cannot be read are put back,
\* due in a second; otherwise the payload is assembled.
FhLoad ==
  /\ fhWk.pc = "load"
  /\ LET keys == DOMAIN fhWk.items
         back == Floor(1 - fhWk.lag)
     IN CASE ~fhStream ->
               /\ fhBuf' = DelAll(fhBuf, keys) /\ fhBlob' = DelAll(fhBlob, Orphans(keys))
               /\ fhWk' = [fhWk EXCEPT !.pc = "retries", !.items = NoRows]
          [] fhStream /\ ~Readable(keys) ->
               /\ fhBuf' = [k \in DOMAIN fhBuf \union keys |->
                              IF k \in keys THEN [fhWk.items[k] EXCEPT !.next = back] ELSE fhBuf[k]]
               /\ fhWk' = [fhWk EXCEPT !.pc = "retries", !.items = NoRows, !.best = Sooner(@, back)]
               /\ fhBlob' = fhBlob
          [] OTHER ->
               /\ fhWk' = [fhWk EXCEPT !.pc = "flush", !.data = InOrder(fhWk.items)]
               /\ UNCHANGED <<fhBuf, fhBlob>>
  /\ UNCHANGED <<fhrest, fhRetry, fhEnd, fhWake>>

\* Splunk's acknowledgement takes time: what follows it uses a fresh clock.
SettleLag == IF fhCfg.kind = "splunk" THEN 0 ELSE fhWk.lag

\* What a flush deletes of the buffer.
FlushedAll == DOMAIN fhBuf        \* mistake: entries buffered during the attempt go too
Flushed == DOMAIN fhWk.items

\* The attempt and the second half of the flush: only the entries that were
\* listed are deleted; entries buffered meanwhile wait for the next pass.
FhFlush ==
  /\ fhWk.pc = "flush"
  /\ \E ans \in Answers(Elements(fhWk.data)) :
       /\ SettleFirst(fhWk.data, ans, SettleLag)
       /\ fhBlob' = DelAll(RetryBlob(fhBlob, fhWk.data, ans), Flushed)
  /\ fhBuf' = DelAll(fhBuf, Flushed)
  /\ fhWk' = [fhWk EXCEPT !.pc = "retries", !.items = NoRows, !.data = <<>>]
  /\ UNCHANGED fhrest

\* runHTTPRetries and runRedshiftRetries list afresh.
FhListRetries ==
  /\ fhWk.pc = "retries"
  /\ fhWk' = IF fhCfg.kind = "search" THEN [fhWk EXCEPT !.pc = "pick"]
             ELSE [fhWk EXCEPT !.pc = "pick", !.todo = fhRetry, !.lag = 0]
  /\ UNCHANGED <<fhrest, fhdata, fhWake>>

\* One listed retry: not due; gone with its stream; unreadable; out of time;
\* or attempted.  What is written back is the record as it was listed.
FhPick ==
  /\ fhWk.pc = "pick"
  /\ \E k \in DOMAIN fhWk.todo :
       LET work == fhWk.todo[k]
           rest == [fhWk EXCEPT !.todo = Del(fhWk.todo, k)]
           back == Floor(1 - fhWk.lag)
           kept == UNCHANGED <<fhRetry, fhBlob, fhEnd>>
           gone == fhRetry' = Del(fhRetry, k) /\ fhBlob' = Del(fhBlob, k)
       IN CASE work.next > 0 ->
                 fhWk' = [rest EXCEPT !.best = Sooner(@, Floor(work.next - fhWk.lag))] /\ kept
            [] work.next = 0 /\ ~fhStream ->
                 fhWk' = rest /\ gone /\ fhEnd' = fhEnd
            [] work.next = 0 /\ fhStream /\ ~Readable({k}) ->
                 /\ fhWk' = [rest EXCEPT !.best = Sooner(@, back)]
                 /\ fhRetry' = Put(fhRetry, k, [work EXCEPT !.next = back])
                 /\ UNCHANGED <<fhBlob, fhEnd>>
            [] work.next = 0 /\ fhStream /\ Readable({k}) /\ work.exp = 0 ->
                 /\ fhWk' = rest /\ gone
                 /\ fhEnd' = backupPayload(fhEnd, Elements(fhBlob[k]))
            [] OTHER ->
                 fhWk' = [rest EXCEPT !.pc = "retry", !.key = k, !.items = Put(NoRows, k, work),
                     !.data = fhBlob[k]]
                 /\ kept
  /\ UNCHANGED <<fhrest, fhBuf, fhWake>>

\* A retry keeps the expiry it was scheduled with.
Expiry(work) == Floor(work.exp - SettleLag)

\* The attempt of a retry, and what is written after it.  An endpoint that
\* refuses for good loses the retry; a search retry keeps what failed again.
FhRetried ==
  /\ fhWk.pc = "retry"
  /\ \E ans \in Answers(Elements(fhWk.data)) :
       LET k     == fhWk.key
           work  == fhWk.items[k]
           again == Chosen(ans, "retry")
           done  == [fhWk EXCEPT !.pc = "pick", !.items = NoRows, !.data = <<>>, !.key = 0]
           exp   == Expiry(work)
           write == fhCfg.kind = "search"
           next  == IF write /\ ~CanProtect THEN Floor(1 - fhWk.lag)
                    ELSE Sooner(Floor(RetryDelay(work.tries + 1) - SettleLag), exp)
           ended == MarkAll(fhEnd, Chosen(ans, "acked"), "acked")
       IN /\ fhEnd' = IF Endpoint THEN MarkAll(ended, Chosen(ans, "perm"), "refused")
                      ELSE backupPayload(ended, Chosen(ans, "perm"))
          /\ IF again = {}
             THEN /\ fhRetry' = Del(fhRetry, k) /\ fhBlob' = Del(fhBlob, k)
                  /\ fhWk' = done
             ELSE /\ fhRetry' = Put(fhRetry, k, [next |-> next, exp |-> exp,
                                                 tries |-> IF work.tries = 0 THEN 1 ELSE work.tries])
                  /\ fhBlob' = IF write /\ CanProtect THEN Put(fhBlob, k, Only(fhWk.data, again)) ELSE fhBlob
                  /\ fhWk' = [done EXCEPT !.best = Sooner(@, next)]
  /\ UNCHANGED <<fhrest, fhBuf, fhWake>>

\* A handler's own pass over the search work: searchMu keeps it from the
\* worker's, whose alarm runs on meanwhile.
FhRunSearch ==
  /\ fhPut.pc = "run" /\ fhWk.pc = "wait"
  /\ fhPut' = Idle
  /\ fhWk' = [Worker("buffers", Never) EXCEPT !.alarm = fhWk.best, !.own = FALSE]
  /\ UNCHANGED <<fhCfg, fhStream, fhEpoch, fhDel, fhKey, fhTaken, fhdata, fhWake>>

\* The end of a pass, and the select that begins the next one.
FhSleep ==
  /\ fhWk.pc = "pick" /\ fhWk.todo = NoRows
  /\ fhWk' = Worker("wait", IF fhWk.own THEN fhWk.best ELSE fhWk.alarm)
  /\ UNCHANGED <<fhrest, fhdata, fhWake>>
FhAwake ==
  /\ fhWk.pc = "wait"
  /\ \/ fhWake /\ fhWake' = FALSE
     \/ fhWk.best = 0 /\ fhWake' = fhWake
  /\ fhWk' = Worker("buffers", Never)
  /\ UNCHANGED <<fhrest, fhdata>>

Aged(f) == [k \in DOMAIN f |-> [f[k] EXCEPT !.next = Floor(@ - 1)]]
AgedRetry(f) == [k \in DOMAIN f |-> [f[k] EXCEPT !.next = Floor(@ - 1), !.exp = Floor(@ - 1)]]
Nearer(t) == IF t = Never THEN Never ELSE Floor(t - 1)
FhTick ==
  /\ fhWk.lag < FhMaxLag
  /\ fhBuf' = Aged(fhBuf) /\ fhRetry' = AgedRetry(fhRetry)
  /\ fhWk' = [fhWk EXCEPT !.lag = IF fhWk.pc = "wait" THEN 0 ELSE @ + 1,
                          !.best = Nearer(@), !.alarm = Nearer(@)]
  /\ UNCHANGED <<fhrest, fhBlob, fhEnd, fhWake>>

FhWorks == FhListBuffers \/ FhLoad \/ FhFlush \/ FhListRetries \/ FhPick \/ FhRetried \/ FhSleep \/ FhAwake
FhHandles == FhDeliver \/ FhDirect \/ FhRunSearch
FirehoseNext ==
  \/ FhPutRecord \/ FhHandles \/ FhWorks \/ FhTick
  \/ deleteHTTPStreamWork \/ DeleteRecord \/ CreateDeliveryStream
  \/ KeyDisabled \/ KeyEnabled

(***************************************************************************)
(* Properties                                                              *)
(***************************************************************************)
Undisturbed == fhStream /\ fhEpoch = 1 /\ ~fhDel
\* Two effects of the search work the properties leave out: with the key disabled
\* under it, a retry that cannot rewrite its payload sends again what was taken;
\* and a handler's own pass, when it finds payloads it cannot read, puts the
\* entries back without waking the worker.
SearchSteady == fhCfg.kind = "search" => fhKey.flips = 0 /\ (RunsItself => Undisturbed)
Held(r) ==
  \/ r \in Elements(fhPut.recs) \/ r \in Elements(fhWk.data)
  \/ \E k \in DOMAIN fhBlob : k \in DOMAIN fhBuf \union DOMAIN fhRetry /\ r \in Elements(fhBlob[k])

\* While its stream is not deleted, an accepted record is always somewhere: in
\* a handler's or the worker's hands, in stored work, at its destination, in
\* the backup, or refused for good by the destination on a retry.
NothingLost ==
  Undisturbed => \A r \in 1..fhTaken : Held(r) \/ fhEnd[r] \cap (Settled \union {"copied", "staged"}) # {}

\* A record is acknowledged or backed up as failed at most once, whatever
\* passes, retries and puts overlap: a flush deletes what it listed, no less
\* and no more.
SettledOnce == SearchSteady => \A r \in 1..FhRecords : "twice" \notin fhEnd[r]

\* Work whose payload is missing can never be finished; only a deletion of the
\* stream under the worker's hands may leave some.
WorkHasPayload ==
  Undisturbed => DOMAIN fhBuf \union DOMAIN fhRetry \subseteq DOMAIN fhBlob

\* The worker never sleeps past work: while it waits, what is due before its
\* alarm has left a wake-up in the channel.
NoSleepThrough ==
  fhWk.pc = "wait" /\ fhPut.pc # "run" /\ SearchSteady =>
    \/ fhWake
    \/ /\ \A k \in DOMAIN fhBuf : fhBuf[k].next >= fhWk.best
       /\ \A k \in DOMAIN fhRetry : fhRetry[k].next >= fhWk.best

\* A flush carries the records in the order they were accepted.
FlushInOrder ==
  fhWk.pc = "flush" => \A i, j \in DOMAIN fhWk.data : i < j => fhWk.data[i] < fhWk.data[j]

\* Stored work comes to an end: each record a client put is settled, unless
\* the stream was deleted.
RecordsSettle ==
  \A r \in 1..FhRecords :
    (fhTaken >= r) ~> (fhEnd[r] \cap (Settled \union {"copied",
        "staged"}) # {} \/ ~Undisturbed \/ ~SearchSteady)

\* Once the stream is gone for good, so is its work, payloads included.
DeletedWorkGoes ==
  (~fhStream /\ fhEpoch = fhCfg.epochs /\ ~RunsItself) ~> (fhBuf = NoRows /\ fhRetry = NoRows /\ fhBlob = NoRows)

\* A failure the destination declares permanent is backed up, as the test of
\* the HTTP destination expects of every failed record in FailedDataOnly mode.
PermanentIsBackedUp == \A r \in 1..FhRecords : "refused" \notin fhEnd[r]
=============================================================================
