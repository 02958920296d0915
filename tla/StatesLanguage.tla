--------------------------- MODULE StatesLanguage ---------------------------
(***************************************************************************)
(* The interpreter of the Step Functions pack: walk, one action per kind   *)
(* of state, with retries and catchers, the goroutines of Parallel and of  *)
(* the worker pool of Map, and the resumption of a parked walk.  Data is   *)
(* left out; where an expression decides, either answer is possible.       *)
(***************************************************************************)
EXTENDS Tables, Naturals, FiniteSets, Sequences, SequencesExt

CONSTANTS Machines,   \* definitions: functions from state names to states
          MaxHops     \* maxTransitions

ASSUME HopsAssumption == MaxHops \in Nat

VARIABLES machine,    \* the definition walked
          express,    \* _executionType is EXPRESS
          cur,        \* the state the walk is in
          hops,       \* transitions of this walk
          retries,    \* per state, the attempts its retrier counted
          phase,      \* where in the loop body the walk is
          result,     \* status of the walkResult, "walking" before there is one
          parked,     \* what the pending record names: nothing, a wait, a retry, a task, a child
          kids,       \* the children of the composite state: branches or iterations
          pool,       \* the worker goroutines of a Map, by the index they run (0: none)
          sender,     \* the next index of a Map to be handed out
          stopped,    \* iterationCtx or branchCtx is cancelled
          disconnected, \* the request's context is cancelled
          attempts,   \* history: executions of the current state's work since it was entered
          accepted    \* history: the composite state that was left was taken as successful

wkvars == <<machine, express, cur, hops, retries, phase, result, parked, kids, pool, sender,
            stopped, disconnected, attempts, accepted>>

End == "end"
Names == DOMAIN machine
St == machine[cur]
Nested == "nested"   \* a state name of a child machine
Statuses == {"SUCCEEDED", "FAILED", "TIMED_OUT", "RUNNING"}

WalkTypeOK ==
  /\ machine \in Machines /\ cur \in Names \union {Nested}
  /\ hops \in 0..MaxHops /\ retries \in [Names -> Nat]
  /\ phase \in {"enter", "work", "branches", "map", "recover", "leave", "sleep"}
  /\ result \in Statuses \union {"walking"}
  /\ parked \in {"no", "wait", "retry", "task", "child"}
  /\ \A i \in DOMAIN kids : kids[i] \in Statuses \union {"todo", "going"}
  /\ \A w \in DOMAIN pool : pool[w] \in DOMAIN kids \union {0}
  /\ {stopped, disconnected, accepted, express} \subseteq BOOLEAN

WalkInit ==
  /\ machine \in Machines /\ express \in BOOLEAN
  /\ cur = "start" /\ hops = 0 /\ retries = [s \in Names |-> 0]
  /\ phase = "enter" /\ result = "walking" /\ parked = "no"
  /\ kids = NoRows /\ pool = NoRows /\ sender = 0
  /\ stopped = FALSE /\ disconnected = FALSE /\ attempts = 0 /\ accepted = FALSE

----------------------------------------------------------------------------
composite == <<kids, pool, sender, stopped, accepted>>
fixed == <<machine, express, disconnected>>

At(p) == result = "walking" /\ phase = p

\* walk returns; a pending record is left when the status is RUNNING.
Answers(status, what) ==
  /\ result' = status /\ parked' = what
  /\ UNCHANGED <<cur, hops, retries, phase, attempts>>

GoTo(s) ==
  /\ cur' = s /\ hops' = hops + 1 /\ phase' = "enter" /\ attempts' = 0
  /\ UNCHANGED <<retries, result, parked>>

Turn(p) ==
  /\ phase' = p /\ UNCHANGED <<cur, hops, retries, result, parked, attempts>>

\* The head of walkLoop: transitions left, the deadline, the state's existence.
\* An express walk has no limit of transitions; its deadline ends it by then.
EnterState ==
  /\ At("enter")
  /\ \/ hops = MaxHops /\ Answers(IF express THEN "TIMED_OUT" ELSE "FAILED", "no")
     \/ hops < MaxHops /\ Answers("TIMED_OUT", "no")
     \/ hops < MaxHops /\ cur \notin Names /\ Answers("FAILED", "no")
     \/ hops < MaxHops /\ cur \in Names /\ Turn("work")
  /\ UNCHANGED <<composite, fixed>>

\* Parameters, a path or an expression does not evaluate, or the payload is too
\* large: the walk fails without asking the retriers.
DataFlowFails ==
  /\ At("work") \/ At("leave")
  /\ Answers("FAILED", "no")
  /\ UNCHANGED <<composite, fixed>>

PassState ==
  /\ At("work") /\ St.type = "Pass" /\ Turn("leave")
  /\ UNCHANGED <<composite, fixed>>

SucceedState ==
  /\ At("work") /\ St.type = "Succeed" /\ Answers("SUCCEEDED", "no")
  /\ UNCHANGED <<composite, fixed>>

FailState ==
  /\ At("work") /\ St.type = "Fail" /\ Answers("FAILED", "no")
  /\ UNCHANGED <<composite, fixed>>

ChoiceState ==
  /\ At("work") /\ St.type = "Choice"
  /\ \/ \E s \in St.choices : GoTo(s)
     \/ Answers("FAILED", "no")   \* States.NoChoiceMatched
  /\ UNCHANGED <<composite, fixed>>

\* A Wait that is not over parks a standard execution and blocks an express one.
WaitState ==
  /\ At("work") /\ St.type = "Wait"
  /\ \/ Turn("leave")
     \/ ~express /\ Answers("RUNNING", "wait")
     \/ express /\ Turn("sleep")
  /\ UNCHANGED <<composite, fixed>>

\* The express execution wakes, at its deadline or in time, or is cancelled.
ExpressWakes ==
  /\ At("sleep")
  /\ \/ IF St.type = "Wait" THEN Turn("leave") ELSE Turn("work")
     \/ Answers("TIMED_OUT", "no")
     \/ (disconnected \/ stopped) /\ Answers("FAILED", "no")
  /\ UNCHANGED <<composite, fixed>>

\* A Task: an activity parks before it is called, a callback Task after, an
\* unsupported resource fails, the others answer or raise an error.
TaskState ==
  /\ At("work") /\ St.type = "Task"
  /\ \/ Answers("RUNNING", "task")
     \/ Answers("FAILED", "no")
     \/ /\ \E p \in {"leave", "recover"} : phase' = p
        /\ attempts' = attempts + 1
        /\ UNCHANGED <<cur, hops, retries, result, parked>>
  /\ UNCHANGED <<composite, fixed>>

\* retryTask and scheduleRetry, then catchTask: the first retrier that matches
\* decides, and it stops matching once its attempts are used up.
RetryState ==
  /\ At("recover") /\ retries[cur] < St.retry
  /\ retries' = [retries EXCEPT ![cur] = @ + 1]
  /\ \/ St.delay /\ ~express /\ result' = "RUNNING" /\ parked' = "retry" /\ UNCHANGED phase
     \/ St.delay /\ express /\ phase' = "sleep" /\ UNCHANGED <<result, parked>>
     \/ ~St.delay /\ phase' = "work" /\ UNCHANGED <<result, parked>>
  /\ UNCHANGED <<cur, hops, attempts, composite, fixed>>

\* The status of the child that decides a composite state: the first, in order
\* of index, that did not succeed.
Ended(i) == kids[i] \notin {"todo", "going"}
Unsuccessful == {i \in DOMAIN kids : Ended(i) /\ kids[i] # "SUCCEEDED"}
ChildResult == IF Unsuccessful = {} THEN "FAILED" ELSE kids[MinOf(Unsuccessful)]

CatchState ==
  /\ At("recover") /\ retries[cur] >= St.retry
  /\ \/ St.catch # End /\ GoTo(St.catch)
     \/ /\ St.catch = End
        /\ IF St.type = "Task" THEN Answers("FAILED", "no")
           ELSE Answers(ChildResult, IF ChildResult = "RUNNING" THEN "child" ELSE "no")
  /\ UNCHANGED <<composite, fixed>>

\* The tail of the loop: Next, or the end.
LeaveState ==
  /\ At("leave")
  /\ IF St.next = End THEN Answers("SUCCEEDED", "no") ELSE GoTo(St.next)
  /\ UNCHANGED <<composite, fixed>>

----------------------------------------------------------------------------
(* Parallel: one goroutine per branch, joined by a WaitGroup.              *)

ParallelStarts ==
  /\ At("work") /\ St.type = "Parallel"
  /\ kids' = [i \in 1..St.n |-> "going"] /\ stopped' = FALSE /\ accepted' = FALSE
  /\ phase' = "branches" /\ attempts' = attempts + 1
  /\ UNCHANGED <<pool, sender, cur, hops, retries, result, parked, fixed>>

BranchEnds(i) ==
  /\ At("branches") /\ i \in DOMAIN kids /\ kids[i] = "going"
  /\ \E s \in Statuses : kids' = [kids EXCEPT ![i] = s]
  /\ stopped' = (stopped \/ kids'[i] # "SUCCEEDED")
  /\ UNCHANGED <<pool, sender, accepted, cur, hops, retries, phase, result, parked, attempts, fixed>>

ParallelJoins ==
  /\ At("branches") /\ \A i \in DOMAIN kids : Ended(i)
  /\ accepted' = (Unsuccessful = {})
  /\ phase' = IF Unsuccessful = {} THEN "leave" ELSE "recover"
  /\ UNCHANGED <<kids, pool, sender, stopped, cur, hops, retries, result, parked, attempts, fixed>>

----------------------------------------------------------------------------
(* Map: `limit` goroutines take indexes from an unbuffered channel.        *)

\* The ceilings, 40 and 10000 for a distributed Map, are above any n here.
Limit(n, most) == IF most = 0 \/ most > n THEN n ELSE most

MapStarts ==
  /\ At("work") /\ St.type = "Map"
  /\ kids' = [i \in 1..St.n |-> "todo"]
  /\ pool' = [w \in 1..Limit(St.n, St.limit) |-> 0]
  /\ sender' = 1 /\ stopped' = FALSE /\ accepted' = FALSE
  /\ phase' = "map" /\ attempts' = attempts + 1
  /\ UNCHANGED <<cur, hops, retries, result, parked, fixed>>

Closed == sender > Cardinality(DOMAIN kids)
Cancelled == stopped \/ disconnected
mapFrame == <<cur, hops, retries, phase, result, parked, attempts, accepted, fixed>>

\* The sender meets a goroutine at the channel.  An inline iteration that finds
\* the context cancelled returns without running the item it took.
MapHandsOut(w) ==
  /\ At("map") /\ w \in DOMAIN pool /\ pool[w] = 0 /\ ~Closed
  /\ sender' = sender + 1
  /\ IF ~St.distributed /\ Cancelled
     THEN pool' = [v \in DOMAIN pool \ {w} |-> pool[v]] /\ UNCHANGED kids
     ELSE pool' = [pool EXCEPT ![w] = sender] /\ kids' = [kids EXCEPT ![sender] = "going"]
  /\ UNCHANGED <<stopped, mapFrame>>

\* Mistake: the sender waits for a worker only, whatever the context says.
MapSenderBlocks == FALSE /\ UNCHANGED wkvars

\* ... or sees the cancelled context first and closes the channel.
MapSenderStops ==
  /\ At("map") /\ ~Closed /\ Cancelled
  /\ sender' = Cardinality(DOMAIN kids) + 1
  /\ UNCHANGED <<kids, pool, stopped, mapFrame>>

MapItemEnds(w) ==
  /\ At("map") /\ w \in DOMAIN pool /\ pool[w] # 0
  /\ \E s \in Statuses :
       /\ kids' = [kids EXCEPT ![pool[w]] = s]
       /\ stopped' = (stopped \/ (s # "SUCCEEDED" /\ ~St.distributed))
  /\ pool' = [pool EXCEPT ![w] = 0]
  /\ UNCHANGED <<sender, mapFrame>>

\* The results, in order of index.  A distributed Map tolerates failures up to
\* its count; the items never run count as no failure.
Tolerated == St.distributed /\ St.tolerate > 0 /\ Cardinality(Unsuccessful) <= St.tolerate

\* Mistake: the channel is closed but its workers are not waited for.
MapJoinsEarly ==
  /\ At("map") /\ Closed
  /\ accepted' = (Unsuccessful = {} \/ Tolerated)
  /\ phase' = IF accepted' THEN "leave" ELSE "recover"
  /\ UNCHANGED <<kids, pool, sender, stopped, cur, hops, retries, result, parked, attempts, fixed>>

MapJoins ==
  /\ At("map") /\ Closed /\ \A w \in DOMAIN pool : pool[w] = 0
  /\ accepted' = (Unsuccessful = {} \/ Tolerated)
  /\ phase' = IF accepted' THEN "leave" ELSE "recover"
  /\ UNCHANGED <<kids, pool, sender, stopped, cur, hops, retries, result, parked, attempts, fixed>>

----------------------------------------------------------------------------
\* The client that started the execution goes away.
ClientDisconnects ==
  /\ result = "walking" /\ ~disconnected /\ disconnected' = TRUE
  /\ UNCHANGED <<machine, express, cur, hops, retries, phase, result, parked, composite, attempts>>

\* resumeWait or finishTask walks on: from the state after the Wait or the Task,
\* or, when a retry is due or the task failed, from the state itself with the
\* counts of its retrier.  The pending record of a child names a state that the
\* machine does not have at its top level: a Wait or a Task of that name then
\* looks like one without a Next, a retry like a state that does not exist.
ResumeWalk ==
  /\ result = "RUNNING"
  /\ parked' = "no" /\ hops' = 0 /\ disconnected' = FALSE
  /\ \/ /\ parked = "retry" /\ result' = "walking" /\ phase' = "enter"
        /\ UNCHANGED <<cur, retries, attempts>>
     \/ /\ parked = "task" /\ result' = "walking" /\ phase' = "recover"
        /\ attempts' = attempts + 1 /\ UNCHANGED <<cur, retries>>
     \/ /\ parked \in {"wait", "task"} /\ St.next # End
        /\ result' = "walking" /\ phase' = "enter" /\ cur' = St.next /\ attempts' = 0
        /\ retries' = [s \in Names |-> 0]
     \/ /\ parked = "child" \/ (parked \in {"wait", "task"} /\ St.next = End)
        /\ result' = "SUCCEEDED" /\ UNCHANGED <<cur, retries, phase, attempts>>
     \/ /\ parked = "child" /\ result' = "walking" /\ phase' = "enter" /\ cur' = Nested
        /\ UNCHANGED <<retries, attempts>>
  /\ accepted' = FALSE
  /\ UNCHANGED <<machine, express, kids, pool, sender, stopped>>

WalkSteps ==
  \/ EnterState \/ DataFlowFails \/ PassState \/ SucceedState \/ FailState \/ ChoiceState
  \/ WaitState \/ ExpressWakes \/ TaskState \/ RetryState \/ CatchState \/ LeaveState
  \/ ParallelStarts \/ (\E i \in DOMAIN kids : BranchEnds(i)) \/ ParallelJoins
  \/ MapStarts \/ MapSenderStops \/ MapJoins
  \/ \E w \in DOMAIN pool : MapHandsOut(w) \/ MapItemEnds(w)

WalkNext == WalkSteps \/ ClientDisconnects \/ ResumeWalk
WalkFairness == WF_wkvars(WalkSteps)

----------------------------------------------------------------------------
(* Properties.                                                             *)

\* A retrier's budget holds across parked retries and resumptions: from when a
\* state is entered its work runs at most once more than the retrier allows.
RetryBudget == cur \in Names => attempts <= St.retry + 1

\* A composite state is left as successful only when each of its children ran
\* and succeeded, or a distributed Map's failures are within its tolerance:
\* no goroutine that quits on cancellation leaves an item out unnoticed.  A
\* client that disconnects is excepted: the items not handed out are skipped.
CompositeComplete ==
  (accepted /\ phase = "leave" /\ St.type \in {"Parallel", "Map"} /\ ~disconnected) =>
     /\ \A i \in DOMAIN kids : Ended(i)
     /\ Unsuccessful = {} \/ Tolerated

\* Every walk ends: retriers run out, transitions are counted, and sender and
\* workers of a Map never wait for each other.
WalkEnds == (result = "walking") ~> (result # "walking")

\* An execution that succeeded left no child of a composite state unfinished
\* (docs/SUPPORT.md: "Parallel branches execute concurrently with isolated
\* inputs and ordered results").
SuccessLeavesNoChild == result = "SUCCEEDED" => \A i \in DOMAIN kids : kids[i] # "RUNNING"

-----------------------------------------------------------------------------
(***************************************************************************)
(* Algorithms of the states language over bounded inputs: batchMapItems,   *)
(* pagedResponse and wildcardMatch.                                        *)
(***************************************************************************)

CONSTANTS ItemSizes,  \* encoded sizes an item of a Map may have
          MaxItems,   \* bound: items in the input
          Letters     \* bound: characters of patterns and values

VARIABLES items,      \* the sizes of the input's items
          limits,     \* [count, bytes]: MaxItemsPerBatch (0: absent), MaxInputBytesPerBatch
          taken,      \* items the loop has seen
          current,    \* the open batch
          batched,    \* the batches made
          outcome,    \* "going", "ok" or "refused"
          pattern, value,   \* arguments of wildcardMatch
          offset, shown     \* pagedResponse: the token, and the items answered so far

lgvars == <<items, limits, taken, current, batched, outcome, pattern, value, offset, shown>>

\* The encoded size of a batch: its frame and its items.
Frame == 1
Encoded(batch) == Frame + FoldSeq(LAMBDA x, n : x + n, 0, batch)

Words(n) == UNION {[1..k -> Letters] : k \in 0..n}
LanguageInit ==
  /\ items \in UNION {[1..k -> ItemSizes] : k \in 0..MaxItems}
  /\ limits \in [count : {0, 2}, bytes : {3, 5}]
  /\ taken = 0 /\ current = <<>> /\ batched = <<>> /\ outcome = "going"
  /\ pattern = <<>> /\ value = <<>> /\ offset = 0 /\ shown = <<>>

WordsInit ==
  /\ items = <<>> /\ limits = [count |-> 2, bytes |-> 5]
  /\ taken = 0 /\ current = <<>> /\ batched = <<>> /\ outcome = "ok"
  /\ pattern \in Words(3) /\ value \in Words(3)
  /\ offset = 0 /\ shown = <<>>

----------------------------------------------------------------------------
Full(batch) == limits.count > 0 /\ Len(batch) = limits.count

\* The loop of batchMapItems: close the open batch when the item does not fit,
\* refuse an item that is too large for a batch of its own, close a full batch.
BatchItem ==
  LET candidate == Append(current, items[taken + 1])
      over == \/ limits.count > 0 /\ Len(candidate) > limits.count
              \/ Encoded(candidate) > limits.bytes
      closes == current # <<>> /\ over
      next == IF closes THEN <<items[taken + 1]>> ELSE candidate
      made == IF closes THEN Append(batched, current) ELSE batched
  IN /\ outcome = "going" /\ taken < Len(items)
     /\ taken' = taken + 1
     /\ IF Encoded(next) > limits.bytes
        THEN outcome' = "refused" /\ UNCHANGED <<batched, current>>
        ELSE /\ IF Full(next) THEN batched' = Append(made, next) /\ current' = <<>>
                              ELSE batched' = made /\ current' = next
             /\ UNCHANGED outcome
     /\ UNCHANGED <<items, limits, pattern, value, offset, shown>>

BatchesDone ==
  /\ outcome = "going" /\ taken = Len(items)
  /\ batched' = IF current = <<>> THEN batched ELSE Append(batched, current)
  /\ current' = <<>> /\ outcome' = "ok"
  /\ UNCHANGED <<items, limits, taken, pattern, value, offset, shown>>

\* pagedResponse: a page from the token's offset, and the token of the next.
PagedResponse(limit) ==
  LET end == IF offset + limit < Len(items) THEN offset + limit ELSE Len(items) IN
  /\ outcome = "ok" /\ offset < Len(items)
  /\ shown' = shown \o SubSeq(items, offset + 1, end)
  /\ offset' = end
  /\ UNCHANGED <<items, limits, taken, current, batched, outcome, pattern, value>>

LanguageNext == BatchItem \/ BatchesDone \/ \E limit \in 1..2 : PagedResponse(limit)

----------------------------------------------------------------------------
Star == "*"
Escape == "\\"

\* wildcardMatch: a backslash that ends the pattern stands for itself.
WildcardMatch(p, v) ==
  LET match[i \in 1..(Len(p) + 2), j \in 1..(Len(v) + 1)] ==
        CASE i > Len(p) -> j = Len(v) + 1
          [] i < Len(p) /\ p[i] = Escape -> j <= Len(v) /\ p[i + 1] = v[j] /\ match[i + 2, j + 1]
          [] i <= Len(p) /\ p[i] = Star -> match[i + 1, j] \/ (j <= Len(v) /\ match[i, j + 1])
          [] OTHER -> j <= Len(v) /\ p[i] = v[j] /\ match[i + 1, j + 1]
  IN match[1, 1]

\* The meaning of a pattern: its elements are characters, escaped or not, and
\* stars, and the value is cut into one piece per element, of one such character
\* or, for a star, of any.
PatternTokens(p) ==
  LET tok[i \in 1..(Len(p) + 2)] ==
        IF i > Len(p) THEN <<>>
        ELSE IF p[i] = Escape /\ i < Len(p) THEN <<[star |-> FALSE, ch |-> p[i + 1]]>> \o tok[i + 2]
        ELSE <<[star |-> p[i] = Star, ch |-> p[i]]>> \o tok[i + 1]
  IN tok[1]
Denotes(p, v) ==
  LET ts == PatternTokens(p) IN
  \E cut \in [0..Len(ts) -> 0..Len(v)] :
    /\ cut[0] = 0 /\ cut[Len(ts)] = Len(v)
    /\ \A k \in 1..Len(ts) :
         /\ cut[k - 1] <= cut[k]
         /\ ~ts[k].star => cut[k] = cut[k - 1] + 1 /\ v[cut[k]] = ts[k].ch

----------------------------------------------------------------------------
\* The batches hold the items, in order, none lost and none twice, and every
\* batch is within both limits, also the ones closed early.
BatchesPartition ==
  /\ outcome = "ok" => FlattenSeq(batched) = items
  /\ \A i \in DOMAIN batched :
       /\ batched[i] # <<>> /\ Encoded(batched[i]) <= limits.bytes
       /\ limits.count > 0 => Len(batched[i]) <= limits.count

\* Pages followed by their tokens show every item once, in order.
PagesPartition == shown = SubSeq(items, 1, offset)

\* The memoised matcher decides what the pattern means, escapes included.
WildcardAgrees == WildcardMatch(pattern, value) = Denotes(pattern, value)

\* The walk of a definition: retriers are bounded, a Parallel or Map leaves
\* only with all its children settled, item batches partition the items within
\* both limits, pages tile what they list, and the memoised wildcard matcher
\* decides what its pattern means.
WalksAreWhole ==
  /\ WalkTypeOK /\ RetryBudget /\ CompositeComplete
  /\ BatchesPartition /\ PagesPartition /\ WildcardAgrees
=============================================================================
