---------------------------- MODULE WorkersProofs ----------------------------
(***************************************************************************)
(* The workers of the AWS packs settle each occurrence, record, event and  *)
(* message once and within its retries, for any number of them, any ages,  *)
(* batches and rates.  Each worker has an inductive invariant of its own:  *)
(* they share no state.                                                    *)
(***************************************************************************)
EXTENDS EventWorkers, WellFoundedInduction, TLAPS

-----------------------------------------------------------------------------
(* EventBridge Scheduler.                                                  *)

Request == [kind : {"rate", "at"}, at : Nat, end : Nat, flex : BOOLEAN, del : BOOLEAN, on : BOOLEAN]
Schedule == [write : Nat, req : Request, wrote : Nat, known : BOOLEAN, due : Nat, next : Nat,
             tries : Nat, since : Nat]
Occurrences == (1..ScMaxWrites) \X (0..Never)

SchedulerTypes ==
  /\ sched \in Schedule /\ listed \in Schedule /\ draft \in Schedule
  /\ writes \in Nat /\ ranAt \in Nat /\ scnow \in Nat
  /\ scpc \in {"sleep", "deliver", "write"}
  /\ fired \in [Occurrences -> Nat] /\ settled \in [Occurrences -> Nat]

\* What a record promises of the deliveries f and the settlements g: nothing
\* after its next occurrence was tried, and that one as often as the record
\* says, without having been settled.
Promises(r, f, g) ==
  /\ r.tries <= ScRetries /\ (r.known => r.due <= r.next)
  /\ \A d \in 0..Never : <<r.write, d>> \in Occurrences =>
       /\ d >= RecordNext(r).due => g[<<r.write, d>>] = 0
       /\ d > RecordNext(r).due => f[<<r.write, d>>] = 0
       /\ d = RecordNext(r).due => f[<<r.write, d>>] = r.tries

\* The worker's copies: what it listed is still stored or was replaced as a
\* whole, and what it is about to write follows what it listed.
Copies ==
  /\ sched.write <= writes /\ (sched.write = 0 => ~sched.req.on)
  /\ scpc # "sleep" => /\ listed.write \in 1..writes
                       /\ sched.write = listed.write => sched = listed
                       /\ RecordNext(listed).next <= ranAt
                       /\ ranAt <= ScMaxTime
  /\ scpc = "write" => \/ draft = NoSchedule /\ listed.req.del
                       \/ draft.write = listed.write

SchedulerInv ==
  /\ SchedulerTypes /\ Copies /\ OccurrenceBounded /\ scnow <= ScMaxTime
  /\ \A w \in 1..ScMaxWrites, d \in 0..Never :
       w > writes => fired[<<w, d>>] = 0 /\ settled[<<w, d>>] = 0
  /\ scpc = "deliver" => Promises(listed, fired, settled)
  /\ scpc = "write" => Promises(draft, fired, settled)
  /\ (scpc = "write" /\ sched = listed) \/ Promises(sched, fired, settled)

LEMMA BlankSchedule == NoSchedule \in Schedule /\ NoRequest \in Request /\ Never \in Nat
BY SchedulerBounds DEF NoSchedule, NoRequest, Request, Schedule, Never

\* An invocation is never before the instant it is for, and both are instants.
LEMMA NextAfterDue ==
  ASSUME NEW r \in Schedule, r.known => r.due <= r.next
  PROVE  /\ RecordNext(r).due \in Nat /\ RecordNext(r).next \in Nat
         /\ RecordNext(r).due <= RecordNext(r).next
<1>1. FirstDue(r) \in Nat
  BY BlankSchedule DEF FirstDue, UntilEnd, Schedule, Request
<1>2. \A t \in Nat : WithWindow(r.req, t) \in Nat /\ t <= WithWindow(r.req, t)
  BY BlankSchedule DEF WithWindow
<1> QED
  BY <1>1, <1>2 DEF RecordNext, Schedule

LEMMA SchedulerStart == SchedulerInit => SchedulerInv
<1> SUFFICES ASSUME SchedulerInit PROVE SchedulerInv
  OBVIOUS
<1>1. SchedulerTypes
  BY BlankSchedule DEF SchedulerInit, SchedulerTypes, Occurrences
<1>2. Promises(sched, fired, settled)
  BY SchedulerBounds DEF SchedulerInit, Promises, NoSchedule, Occurrences
<1>3. Copies
  BY DEF SchedulerInit, Copies, NoSchedule, NoRequest
<1>4. OccurrenceBounded
  BY SchedulerBounds DEF SchedulerInit, OccurrenceBounded
<1> QED
  BY <1>1, <1>2, <1>3, <1>4, SchedulerBounds DEF SchedulerInit, SchedulerInv

\* A client's write is a record of its own, of which nothing was tried.
LEMMA PutKeeps ==
  ASSUME SchedulerInv, NEW q \in ScRequests, PutSchedule(q)
  PROVE  SchedulerInv'
<1> USE DEF SchedulerInv
<1>1. q \in Request
  BY SchedulerBounds DEF Request
<1>2. sched' \in Schedule /\ sched'.write = writes + 1 /\ sched'.tries = 0 /\ ~sched'.known
  <2> PICK n \in Schedule : n = NoSchedule
    BY BlankSchedule
  <2>1. sched' = [n EXCEPT !.write = writes + 1, !.req = q, !.wrote = scnow]
    BY DEF PutSchedule
  <2>2. n.tries = 0 /\ ~n.known
    BY DEF NoSchedule
  <2>3. writes + 1 \in Nat /\ scnow \in Nat
    BY DEF SchedulerTypes
  <2> HIDE DEF SchedulerInv
  <2>4. sched' \in Schedule
    BY <1>1, <2>1, <2>3 DEF Schedule
  <2>5. sched'.write = writes + 1 /\ sched'.tries = n.tries /\ sched'.known = n.known
    BY <2>1, <2>3 DEF Schedule
  <2> QED
    BY <2>2, <2>4, <2>5
<1>3. SchedulerTypes'
  BY <1>2 DEF SchedulerTypes, PutSchedule
<1>4. Copies'
  BY <1>2 DEF Copies, PutSchedule, SchedulerTypes, Schedule
<1>5. Promises(sched, fired, settled)'
  <2>1. \A d \in 0..Never : <<sched'.write, d>> \in Occurrences =>
          fired'[<<sched'.write, d>>] = 0 /\ settled'[<<sched'.write, d>>] = 0
    BY <1>2 DEF PutSchedule, Occurrences, SchedulerTypes
  <2> QED
    BY <1>2, <2>1, SchedulerBounds DEF Promises
<1> QED
  BY <1>3, <1>4, <1>5, <1>2 DEF PutSchedule, OccurrenceBounded, SchedulerTypes

LEMMA DeleteKeeps == SchedulerInv /\ DeleteSchedule => SchedulerInv'
<1> SUFFICES ASSUME SchedulerInv, DeleteSchedule PROVE SchedulerInv'
  OBVIOUS
<1> USE DEF SchedulerInv
<1>1. SchedulerTypes'
  BY BlankSchedule DEF SchedulerTypes, DeleteSchedule
<1>2. Copies'
  BY DEF Copies, DeleteSchedule, SchedulerTypes, NoSchedule, NoRequest
<1>3. Promises(sched, fired, settled)'
  BY SchedulerBounds DEF Promises, DeleteSchedule, NoSchedule, Occurrences
<1> QED
  BY <1>1, <1>2, <1>3 DEF DeleteSchedule, OccurrenceBounded

LEMMA RunDueKeeps == SchedulerInv /\ RunDue => SchedulerInv'
<1> SUFFICES ASSUME SchedulerInv, RunDue PROVE SchedulerInv'
  OBVIOUS
<1> USE DEF SchedulerInv
<1>1. SchedulerTypes'
  BY DEF SchedulerTypes, RunDue
<1>2. scpc = "sleep" /\ UNCHANGED <<sched, writes, draft, scnow, fired, settled>>
      /\ (scpc' = "sleep" \/ (scpc' = "deliver" /\ sched.req.on /\ RecordNext(sched).next <= scnow /\ listed' = sched /\ ranAt' = scnow))
  BY DEF RunDue
<1>3. Copies'
  <2>1. CASE scpc' = "sleep"
    BY <1>2, <2>1 DEF Copies
  <2>2. CASE scpc' = "deliver"
    BY <1>2, <2>2 DEF Copies, SchedulerTypes, Schedule
  <2> QED
    BY <1>2, <2>1, <2>2
<1> QED
  BY <1>1, <1>2, <1>3 DEF OccurrenceBounded

\* The record a delivery leaves to be written, and the promise it makes: the
\* same occurrence once more, or the one after it.
LEMMA DeliverKeeps ==
  ASSUME SchedulerInv, NEW outcome \in {"ok", "fatal", "retryable"}, NEW jitter \in 1..2,
         DeliverTarget(outcome, jitter)
  PROVE  SchedulerInv'
<1> DEFINE D == RecordNext(listed).due
           E == AfterDue(listed.req)
           o == <<listed.write, D>>
           again == Retry(outcome)
<1>1. /\ listed \in Schedule /\ Promises(listed, fired, settled) /\ listed.write \in 1..writes
      /\ ranAt \in Nat /\ ranAt <= ScMaxTime /\ scpc = "deliver" /\ scpc' = "write"
      /\ UNCHANGED <<sched, writes, listed, ranAt, scnow>>
  BY DEF SchedulerInv, SchedulerTypes, Copies, DeliverTarget
<1>2. D \in Nat /\ D <= ranAt
  BY <1>1, NextAfterDue DEF SchedulerInv, Promises, Copies
<1>3. E \in Nat /\ E > ranAt
  BY <1>1, SchedulerBounds DEF AfterDue, UntilEnd, Never
<1>4. WithWindow(listed.req, E) \in Nat /\ E <= WithWindow(listed.req, E)
  BY <1>3 DEF WithWindow
<1>5. fired' = [fired EXCEPT ![o] = @ + 1]
      /\ settled' = IF again THEN settled ELSE [settled EXCEPT ![o] = @ + 1]
  BY DEF DeliverTarget, Occurrence
<1>6. o \in Occurrences => fired[o] = listed.tries /\ settled[o] = 0 /\ listed.tries <= ScRetries
  BY <1>1, <1>2 DEF Promises, Occurrences
<1>7. OccurrenceBounded'
  BY <1>5, <1>6, <1>1, SchedulerBounds DEF SchedulerInv, OccurrenceBounded, SchedulerTypes, Schedule
<1>8. /\ draft' \in Schedule /\ Promises(draft, fired, settled)'
      /\ (draft' = NoSchedule /\ listed.req.del) \/ draft'.write = listed.write
  <2>1. CASE again
    <3>1. draft' = [listed EXCEPT !.known = TRUE, !.due = D, !.next = ranAt + jitter, !.tries = @ + 1,
                                  !.since = Started]
      BY <2>1 DEF DeliverTarget
    <3>2. Started \in Nat /\ listed.tries < ScRetries
      <4>1. listed.since \in Nat
        BY <1>1 DEF Schedule
      <4>2. listed.tries < ScRetries
        BY <2>1 DEF Retry
      <4>3. Started \in Nat
        BY <4>1, <1>2 DEF Started
      <4> QED
        BY <4>2, <4>3
    <3>3. draft' \in Schedule
      <4>1. PICK due \in Nat, next \in Nat, since \in Nat, tries \in Nat :
              due = D /\ next = ranAt + jitter /\ since = Started /\ tries = listed.tries + 1
        <5>1. listed.tries + 1 \in Nat
          BY <1>1 DEF Schedule
        <5>2. ranAt + jitter \in Nat
          BY <1>1
        <5> HIDE DEF D
        <5> QED
          BY <1>2, <3>2, <5>1, <5>2
      <4>2. draft' = [listed EXCEPT !.known = TRUE, !.due = due, !.next = next, !.tries = tries,
                                    !.since = since]
        BY <3>1, <4>1
      <4> QED
        BY <1>1, <4>1, <4>2 DEF Schedule
    <3>4. /\ draft'.known /\ draft'.due = D /\ draft'.next = ranAt + jitter
          /\ draft'.tries = listed.tries + 1 /\ draft'.write = listed.write
      BY <1>1, <3>1 DEF Schedule
    <3>5. RecordNext(draft').due = D
      BY <3>4 DEF RecordNext
    <3> HIDE DEF D, E, o, again
    <3>6. Promises(draft', fired', settled')
      <4>1. draft'.tries <= ScRetries /\ draft'.due <= draft'.next
        BY <1>1, <1>2, <3>2, <3>4, SchedulerBounds DEF Schedule
      <4>2. ASSUME NEW d \in 0..Never, <<draft'.write, d>> \in Occurrences
            PROVE  /\ d >= D => settled'[<<draft'.write, d>>] = 0
                   /\ d > D => fired'[<<draft'.write, d>>] = 0
                   /\ d = D => fired'[<<draft'.write, d>>] = draft'.tries
        <5>1. /\ d >= D => settled[<<listed.write, d>>] = 0
              /\ d > D => fired[<<listed.write, d>>] = 0
              /\ d = D => fired[<<listed.write, d>>] = listed.tries
          BY <1>1, <3>4, <4>2 DEF Promises, D
        <5>2. settled' = settled
          BY <1>5, <2>1
        <5>3. <<listed.write, d>> = o <=> d = D
          BY DEF o
        <5>4. fired'[<<listed.write, d>>] = IF d = D THEN fired[<<listed.write, d>>] + 1 ELSE fired[<<listed.write, d>>]
          BY <1>5, <3>4, <4>2, <5>3 DEF SchedulerInv, SchedulerTypes
        <5> QED
          BY <5>1, <5>2, <5>4, <3>4, <1>2
      <4> QED
        BY <4>1, <4>2, <3>5 DEF Promises
    <3> QED
      BY <3>3, <3>4, <3>6
  <2>2. CASE ~again /\ draft' = NoSchedule /\ listed.req.del
    BY <2>2, BlankSchedule, SchedulerBounds DEF Promises, NoSchedule, Occurrences
  <2>3. CASE ~again /\ draft' = [listed EXCEPT !.known = TRUE, !.due = E, !.next = WithWindow(listed.req, E),
                                               !.tries = 0, !.since = Never]
    <3>1. draft' \in Schedule
      BY <1>1, <1>3, <1>4, <2>3, BlankSchedule DEF Schedule
    <3>2. /\ draft'.known /\ draft'.due = E /\ draft'.next = WithWindow(listed.req, E)
          /\ draft'.tries = 0 /\ draft'.write = listed.write
      BY <1>1, <2>3 DEF Schedule
    <3>3. RecordNext(draft').due = E
      BY <3>2 DEF RecordNext
    <3> HIDE DEF D, E, o, again
    <3>4. ASSUME NEW d \in 0..Never, <<draft'.write, d>> \in Occurrences, d >= E
          PROVE  settled'[<<draft'.write, d>>] = 0 /\ fired'[<<draft'.write, d>>] = 0
      <4>1. d > D /\ <<listed.write, d>> # o
        BY <1>2, <1>3, <3>4, <1>1 DEF o
      <4>2. settled[<<listed.write, d>>] = 0 /\ fired[<<listed.write, d>>] = 0
        BY <1>1, <1>2, <3>2, <3>4, <4>1 DEF Promises, D
      <4> QED
        BY <4>1, <4>2, <1>5, <2>3, <3>2, <3>4 DEF SchedulerInv, SchedulerTypes
    <3> QED
      BY <3>1, <3>2, <3>3, <3>4, <1>3, <1>4, SchedulerBounds DEF Promises
  <2> QED
    <3>1. ~again => draft' = Advanced
      BY DEF DeliverTarget
    <3>2. \/ Advanced = NoSchedule /\ listed.req.del
          \/ Advanced = [listed EXCEPT !.known = TRUE, !.due = E, !.next = WithWindow(listed.req, E),
                                       !.tries = 0, !.since = Never]
      BY DEF Advanced
    <3> HIDE DEF again, E
    <3> QED
      BY <2>1, <2>2, <2>3, <3>1, <3>2
<1>9. SchedulerTypes'
  <2>1. PICK x : x = o
    OBVIOUS
  <2>2. fired' = [fired EXCEPT ![x] = @ + 1]
        /\ (settled' = settled \/ settled' = [settled EXCEPT ![x] = @ + 1])
    BY <1>5, <2>1
  <2>3. ASSUME NEW f \in [Occurrences -> Nat] PROVE [f EXCEPT ![x] = @ + 1] \in [Occurrences -> Nat]
    <3>1. CASE x \in Occurrences
      <4>1. PICK n \in Nat : n = f[x] + 1
        BY <3>1
      <4> QED
        BY <4>1
    <3>2. CASE x \notin Occurrences
      BY <3>2
    <3> QED
      BY <3>1, <3>2
  <2>4. fired \in [Occurrences -> Nat] /\ settled \in [Occurrences -> Nat]
    BY DEF SchedulerInv, SchedulerTypes
  <2>5. fired' \in [Occurrences -> Nat] /\ settled' \in [Occurrences -> Nat]
    BY <2>2, <2>3, <2>4
  <2> QED
    BY <1>1, <1>8, <2>5 DEF SchedulerInv, SchedulerTypes
<1>10. Copies'
  BY <1>1, <1>8 DEF SchedulerInv, Copies
<1>11. (scpc = "write" /\ sched = listed)' \/ Promises(sched, fired, settled)'
  <2> SUFFICES ASSUME sched # listed PROVE Promises(sched', fired', settled')
    BY <1>1
  <2>1. sched.write # listed.write
    BY <1>1 DEF SchedulerInv, Copies
  <2>2. \A d : \/ /\ fired'[<<sched.write, d>>] = fired[<<sched.write, d>>]
                  /\ settled'[<<sched.write, d>>] = settled[<<sched.write, d>>]
               \/ <<sched.write, d>> \notin Occurrences
    BY <1>5, <2>1 DEF SchedulerInv, SchedulerTypes
  <2>3. Promises(sched, fired, settled)
    BY <1>1 DEF SchedulerInv
  <2> QED
    BY <1>1, <2>2, <2>3 DEF Promises
<1>12. \A w \in 1..ScMaxWrites, d \in 0..Never :
         w > writes' => fired'[<<w, d>>] = 0 /\ settled'[<<w, d>>] = 0
  <2> SUFFICES ASSUME NEW w \in 1..ScMaxWrites, NEW d \in 0..Never, w > writes
               PROVE  fired'[<<w, d>>] = 0 /\ settled'[<<w, d>>] = 0
    BY <1>1
  <2>1. <<w, d>> # o
    BY <1>1 DEF SchedulerInv, SchedulerTypes
  <2> QED
    BY <1>5, <2>1 DEF SchedulerInv, SchedulerTypes, Occurrences
<1> QED
  BY <1>1, <1>7, <1>8, <1>9, <1>10, <1>11, <1>12 DEF SchedulerInv

LEMMA ChangeKeeps == SchedulerInv /\ ChangeRecordIfUnchanged => SchedulerInv'
<1> SUFFICES ASSUME SchedulerInv, ChangeRecordIfUnchanged PROVE SchedulerInv'
  OBVIOUS
<1> USE DEF SchedulerInv
<1>1. /\ scpc = "write" /\ scpc' = "sleep" /\ sched' = IF sched = listed THEN draft ELSE sched
      /\ UNCHANGED <<writes, listed, draft, ranAt, scnow, fired, settled>>
  BY DEF ChangeRecordIfUnchanged
<1>2. SchedulerTypes'
  BY <1>1 DEF SchedulerTypes
<1>3. Copies'
  BY <1>1 DEF Copies, NoSchedule, NoRequest, SchedulerTypes
<1>4. Promises(sched, fired, settled)'
  BY <1>1
<1> QED
  BY <1>1, <1>2, <1>3, <1>4 DEF OccurrenceBounded

LEMMA SchedulerStep == SchedulerInv /\ [SchedulerNext]_scvars => SchedulerInv'
<1> SUFFICES ASSUME SchedulerInv, [SchedulerNext]_scvars PROVE SchedulerInv'
  OBVIOUS
<1>1. CASE SchedulerTicks
  <2>1. scnow' \in Nat /\ scnow' <= ScMaxTime
    BY <1>1, SchedulerBounds DEF SchedulerInv, SchedulerTicks, SchedulerTypes
  <2>2. UNCHANGED <<sched, writes, listed, scpc, draft, ranAt, wakeAt, fired, settled>>
    BY <1>1 DEF SchedulerTicks
  <2> QED
    BY <2>1, <2>2 DEF SchedulerInv, SchedulerTypes, Copies, OccurrenceBounded
<1>2. CASE UNCHANGED scvars
  BY <1>2 DEF SchedulerInv, SchedulerTypes, Copies, OccurrenceBounded, scvars
<1> QED
  BY <1>1, <1>2, PutKeeps, DeleteKeeps, RunDueKeeps, DeliverKeeps, ChangeKeeps
     DEF SchedulerNext, SchedulerWorks

-----------------------------------------------------------------------------
(* EventBridge Pipes.                                                      *)

\* Every set of numbers that is not empty has a least element.
LEMMA LeastElement ==
  ASSUME NEW S \in SUBSET Nat, S # {}
  PROVE  MinOf(S) \in S /\ \A y \in S : MinOf(S) <= y
<1>1. PICK x \in S : \A y \in S : ~(<<y, x>> \in OpToRel(<, Nat))
  <2>1. S \subseteq Nat
    OBVIOUS
  <2> QED
    BY <2>1, WFMin, NatLessThanWellFounded, Zenon
<1>2. \A y \in S : ~(y < x)
  <2>1. \A y \in S : y \in Nat /\ x \in Nat
    OBVIOUS
  <2> QED
    BY <1>1, <2>1, Zenon DEF OpToRel
<1>3. \A y \in S : x <= y
  BY <1>2
<1> QED
  BY <1>1, <1>3 DEF MinOf

DrainPcs == {"idle", "checkpoint", "start", "read", "deliver", "settle", "store"}
Work == [pc : DrainPcs, pipe : Nat, from : Nat, to : Nat,
         ok : SUBSET Recs, gone : SUBSET Recs, took : SUBSET Recs]

PipesTypes ==
  /\ source \in {"stream", "queue"} /\ pipe \in Nat /\ made \in Nat /\ checkpoint \in Nat
  /\ head \in 0..PpRecords /\ work \in Work /\ tried \in [Recs -> Nat]

\* The drain belongs to a pipe that was made, and its batch ends within the
\* source.
DrainHolds ==
  /\ pipe <= made /\ work.pipe <= made /\ (work.pc # "idle" => work.pipe > 0)
  /\ source = "stream" => /\ deleted = {}
                          /\ work.pc \notin {"idle", "checkpoint"} => work.from > 0
                          /\ work.pc \in {"deliver", "settle"} => work.to <= PpRecords
  /\ source = "queue" => /\ checkpoint = 0 /\ work.pc \in {"idle", "deliver", "settle"}
                         /\ work.pc = "settle" => work.ok \subseteq done

\* What lies before the position a drain of the stored pipe works at is done,
\* also when an older deletion has removed the checkpoint meanwhile.
PassedHolds ==
  work.pc \notin {"idle", "checkpoint"} /\ work.pipe = pipe /\ source = "stream" =>
    \A r \in Recs : r < work.from => r \in done

\* What was counted against a record are failures of the current pipe.
CountsHold ==
  \A r \in DOMAIN counts : /\ r \in Recs /\ counts[r] \in Nat
                           /\ counts[r] <= PpRetries /\ counts[r] <= tried[r]

\* A drain of the stored pipe that has delivered its batch.
SettlingHolds ==
  work.pc = "settle" /\ work.pipe = pipe /\ source = "stream" =>
    /\ work.ok \subseteq done
    /\ \A r \in (work.from..work.to) \ work.ok : Failures(r) <= tried[r]

PipesInv ==
  /\ PipesTypes /\ DrainHolds /\ NothingSkipped /\ RetriesHonoured
  /\ ~inherited /\ pipe # 0 => dead \subseteq Recs /\ CountsHold /\ SettlingHolds /\ PassedHolds

LEMMA PipesNumbers ==
  /\ PpRecords \in Nat /\ PpRetries \in Nat /\ PpBatch \in Nat \ {0}
  /\ Recs = 1..PpRecords /\ NoWork \in Work
<1>1. {PpRecords, PpBatch, PpRetries, PpPipes} \subseteq Nat /\ PpBatch > 0
  BY PipesBounds
<1>2. NoWork \in Work
  BY DEF NoWork, Work, DrainPcs
<1> QED
  BY <1>1, <1>2 DEF Recs

LEMMA PipesStart == PipesInit => PipesInv
<1> SUFFICES ASSUME PipesInit PROVE PipesInv
  OBVIOUS
<1>1. work \in Work
  BY PipesNumbers DEF PipesInit
<1>2. PipesTypes
  <2>1. tried \in [Recs -> Nat]
    BY DEF PipesInit
  <2> QED
    BY <1>1, <2>1, PipesNumbers DEF PipesInit, PipesTypes
<1> QED
  BY <1>2 DEF PipesInit, PipesInv, DrainHolds, NothingSkipped, RetriesHonoured, CountsHold,
              SettlingHolds, PassedHolds, NoWork, NoRows

\* The parts of the invariant, each by what it speaks of.
LEMMA PipesFacts ==
  ASSUME PipesInv
  PROVE  /\ source \in {"stream", "queue"} /\ pipe \in Nat /\ made \in Nat /\ checkpoint \in Nat
         /\ head \in Nat /\ head <= PpRecords /\ work \in Work /\ tried \in [Recs -> Nat]
         /\ work.pc \in DrainPcs /\ work.pipe \in Nat
         /\ work.from \in Nat /\ work.to \in Nat
         /\ work.ok \subseteq Recs /\ work.gone \subseteq Recs /\ work.took \subseteq Recs
         /\ DrainHolds /\ NothingSkipped /\ RetriesHonoured
<1>1. PipesTypes /\ DrainHolds /\ NothingSkipped /\ RetriesHonoured
  BY DEF PipesInv
<1>2. work \in Work /\ head \in 0..PpRecords
  BY <1>1 DEF PipesTypes
<1> QED
  BY <1>1, <1>2, PipesNumbers DEF PipesTypes, Work

\* The clients and the source leave the drain as it is; a new pipe that finds
\* nothing under its name starts from nothing, and rows that an older deletion
\* removes only make the pipe read again and count again.
LEMMA ClientsKeep ==
  PipesInv /\ (SourceGrows \/ CreatePipe \/ (\E m \in Recs : VisibleAgain(m))) => PipesInv'
<1> SUFFICES ASSUME PipesInv, SourceGrows \/ CreatePipe \/ (\E m \in Recs : VisibleAgain(m))
             PROVE  PipesInv'
  OBVIOUS
<1>1. CASE SourceGrows
  <2>1. head' \in 0..PpRecords
    BY <1>1, PipesFacts, PipesNumbers DEF SourceGrows
  <2> QED
    BY <1>1, <2>1 DEF SourceGrows, PipesInv, PipesTypes, DrainHolds, NothingSkipped, RetriesHonoured,
                      CountsHold, SettlingHolds, PassedHolds, Failures, history
<1>2. CASE CreatePipe
  <2>1. /\ pipe = 0 /\ pipe' = made + 1 /\ made' = made + 1 /\ dead' = {}
        /\ tried' \in [Recs -> Nat] /\ (source = "queue" => done' = done)
        /\ ~inherited' => checkpoint = 0 /\ counts = NoRows
        /\ UNCHANGED <<source, checkpoint, counts, head, deleted, work>>
    BY <1>2 DEF CreatePipe
  <2>2. PipesTypes'
    BY <2>1, PipesFacts DEF PipesTypes, PipesInv
  <2>3. work.pipe <= made /\ work'.pipe # pipe' /\ work'.pipe <= made' /\ pipe' <= made'
    BY <2>1, PipesFacts DEF DrainHolds
  <2>4. DrainHolds'
    BY <2>1, <2>3, PipesFacts DEF DrainHolds
  <2>5. ~inherited' => checkpoint = 0 /\ DOMAIN counts = {}
    BY <2>1 DEF NoRows
  <2>6. deleted' \subseteq done'
    BY <2>1, PipesFacts DEF DrainHolds, NothingSkipped
  <2>7. NothingSkipped' /\ RetriesHonoured'
    BY <2>1, <2>5, <2>6, PipesNumbers DEF NothingSkipped, RetriesHonoured
  <2>8. SettlingHolds' /\ PassedHolds' /\ (~inherited' => CountsHold') /\ (dead \subseteq Recs)'
    BY <2>1, <2>3, <2>5 DEF SettlingHolds, PassedHolds, CountsHold
  <2> QED
    BY <2>2, <2>4, <2>7, <2>8 DEF PipesInv
<1>3. CASE \E m \in Recs : VisibleAgain(m)
  BY <1>3 DEF VisibleAgain, PipesInv, PipesTypes, DrainHolds, NothingSkipped, RetriesHonoured,
              CountsHold, SettlingHolds, PassedHolds, Failures, history
<1> QED
  BY <1>1, <1>2, <1>3

LEMMA DeletionKeeps ==
  ASSUME PipesInv, NEW c \in PpClients, DeletePipe(c) \/ DeletionSteps(c)
  PROVE  PipesInv'
<1>1. UNCHANGED <<source, made, head, deleted, work, tried, done, dead, inherited>>
  BY DEF DeletePipe, DeletionSteps, DeletesRow, DeletesCheckpoint, ListsAttempts, DeletesAttempt,
         DeletePipeEnds, untouched, history
<1>2. /\ pipe' \in {0, pipe} /\ checkpoint' \in {0, checkpoint}
      /\ counts' = counts \/ \E r \in removing[c].keys : counts' = DelAll(counts, {r})
  BY Zenon DEF DeletePipe, DeletionSteps, DeletesRow, DeletesCheckpoint, ListsAttempts, DeletesAttempt,
         DeletePipeEnds, untouched
<1>3. \A r \in DOMAIN counts' : r \in DOMAIN counts /\ counts'[r] = counts[r]
  BY <1>2 DEF DelAll
<1>4. pipe' \in Nat /\ checkpoint' \in Nat /\ pipe' <= made /\ (source = "queue" => checkpoint' = 0)
  BY <1>2, PipesFacts DEF DrainHolds
<1>5. PipesTypes' /\ DrainHolds'
  BY <1>1, <1>4, PipesFacts DEF PipesTypes, PipesInv, DrainHolds
<1>6. NothingSkipped' /\ RetriesHonoured'
  BY <1>1, <1>2, PipesFacts, PipesNumbers DEF NothingSkipped, RetriesHonoured
<1>7. ASSUME ~inherited, pipe' # 0 PROVE dead \subseteq Recs /\ CountsHold' /\ SettlingHolds' /\ PassedHolds'
  <2>1. pipe' = pipe /\ dead \subseteq Recs /\ CountsHold /\ SettlingHolds /\ PassedHolds
    BY <1>2, <1>7 DEF PipesInv
  <2>2. CountsHold' /\ PassedHolds'
    BY <1>1, <1>3, <2>1 DEF CountsHold, PassedHolds
  <2>3. \A r \in Recs : /\ Failures(r) \in Nat /\ Failures(r)' \in Nat /\ tried[r] \in Nat
                        /\ Failures(r)' = Failures(r) \/ (Failures(r)' = 1 /\ Failures(r) >= 1)
    BY <1>3, <2>1, PipesFacts DEF Failures, CountsHold
  <2>4. work.pc = "settle" /\ source = "stream" => work.from..work.to \subseteq Recs
    BY PipesFacts, PipesNumbers DEF DrainHolds
  <2>5. SettlingHolds'
    BY <1>1, <2>1, <2>3, <2>4 DEF SettlingHolds
  <2> QED
    BY <2>1, <2>2, <2>5
<1> QED
  BY <1>1, <1>5, <1>6, <1>7 DEF PipesInv

\* A store of the iterator writes the position the drain works at.
LEMMA StoresKeep == PipesInv /\ (DrainStarts \/ DrainStores) => PipesInv'
<1> SUFFICES ASSUME PipesInv, NEW next, next \in {[work EXCEPT !.pc = "read"], NoWork},
                    work.pc \in {"start", "store"}, Stores(next)
             PROVE  PipesInv'
  BY DEF DrainStarts, DrainStores, At
<1>1. /\ checkpoint' = work.from /\ work' = next
      /\ UNCHANGED <<source, head, deleted, pipe, made, counts, tried, done, dead>>
  BY DEF Stores, kept
<1>2. (~inherited' => ~inherited /\ work.pipe = pipe)
  BY DEF Stores, Wrote, Current
<1>3. source = "stream"
  BY PipesFacts DEF DrainHolds
<1>4. /\ work' \in Work /\ work'.pc \in {"idle", "read"} /\ work'.pipe \in {0, work.pipe}
      /\ work'.pc = "read" => work'.from = work.from /\ work'.pipe = work.pipe
  BY <1>1, PipesFacts, PipesNumbers DEF Work, NoWork, DrainPcs
<1>5. PipesTypes' /\ DrainHolds' /\ SettlingHolds'
  BY <1>1, <1>3, <1>4, PipesFacts DEF PipesTypes, PipesInv, DrainHolds, SettlingHolds
<1>6. deleted' \subseteq done'
  BY <1>1, PipesFacts DEF NothingSkipped
<1>7. CASE inherited'
  BY <1>5, <1>6, <1>7 DEF PipesInv, NothingSkipped, RetriesHonoured
<1>8. CASE ~inherited'
  <2>1. ~inherited /\ work.pipe = pipe /\ pipe # 0
    BY <1>2, <1>8, PipesFacts DEF DrainHolds
  <2>2. dead \subseteq Recs /\ CountsHold /\ \A r \in Recs : r < work.from => r \in done
    BY <1>3, <2>1 DEF PipesInv, PassedHolds
  <2>3. PassedHolds' /\ CountsHold'
    BY <1>1, <1>4, <2>2 DEF PassedHolds, CountsHold
  <2>4. NothingSkipped' /\ RetriesHonoured'
    BY <1>1, <1>6, <2>1, <2>2, PipesFacts DEF NothingSkipped, RetriesHonoured
  <2> QED
    BY <1>1, <1>5, <2>2, <2>3, <2>4 DEF PipesInv
<1> QED
  BY <1>7, <1>8

LEMMA ReadsKeep == PipesInv /\ (DrainBegins \/ DrainGets \/ DrainReads \/ DrainSQS) => PipesInv'
<1> SUFFICES ASSUME PipesInv, DrainBegins \/ DrainGets \/ DrainReads \/ DrainSQS PROVE PipesInv'
  OBVIOUS
<1>1. CASE DrainBegins
  <2> PICK n \in Work : n = NoWork
    BY PipesNumbers
  <2>1. work' = [n EXCEPT !.pc = "checkpoint", !.pipe = pipe] /\ pipe # 0 /\ source = "stream"
        /\ UNCHANGED <<source, pipe, made, checkpoint, counts, head, deleted, tried, done, dead, inherited>>
    BY <1>1 DEF DrainBegins, history, kept
  <2>2. work' \in Work /\ work'.pc = "checkpoint" /\ work'.pipe = pipe
    BY <2>1, PipesFacts DEF Work, DrainPcs
  <2>3. DrainHolds' /\ SettlingHolds' /\ PassedHolds'
    BY <2>1, <2>2, PipesFacts DEF DrainHolds, SettlingHolds, PassedHolds
  <2>4. PipesTypes'
    BY <2>1, <2>2 DEF PipesTypes, PipesInv
  <2> QED
    BY <2>1, <2>3, <2>4 DEF PipesInv, NothingSkipped, RetriesHonoured, CountsHold
<1>2. CASE DrainGets \/ DrainReads
  <2>1. /\ UNCHANGED <<source, pipe, made, checkpoint, counts, head, deleted, tried, done, dead, inherited>>
        /\ work.pc \in {"checkpoint", "read"}
    BY <1>2 DEF DrainGets, DrainReads, At, kept, history
  <2>2. source = "stream"
    BY <2>1, PipesFacts DEF DrainHolds
  <2>3. /\ work' \in Work /\ work'.pipe = work.pipe /\ work'.from > 0
        /\ work'.pc \in {"start", "read", "store", "deliver"}
        /\ work'.pc = "deliver" => work'.to <= PpRecords
        /\ (work'.from = work.from /\ work.pc = "read") \/ work'.from = checkpoint \/ work'.from = 1
    <3>1. CASE DrainGets
      <4>1. PICK pc \in {"start", "read"}, from \in Nat :
              \/ pc = "start" /\ from = 1 /\ checkpoint = 0
              \/ pc = "read" /\ from = checkpoint /\ checkpoint # 0
        BY PipesFacts
      <4>2. work' = [work EXCEPT !.pc = pc, !.from = from]
        BY <3>1, <4>1 DEF DrainGets
      <4>3. work' \in Work
        BY <4>2, PipesFacts DEF Work, DrainPcs
      <4>4. work'.pipe = work.pipe /\ work'.from = from /\ work'.pc = pc
        BY <4>2, PipesFacts DEF Work
      <4> QED
        BY <4>1, <4>3, <4>4
    <3>2. CASE DrainReads
      <4>1. work.from > 0 /\ work.pc = "read"
        BY <2>2, <3>2, PipesFacts DEF DrainReads, At, DrainHolds
      <4>2. work.from + PpBatch - 1 \in Nat /\ head \in Nat
        <5>1. \A x \in Nat, y \in Nat \ {0} : x + y - 1 \in Nat
          OBVIOUS
        <5> QED
          BY <5>1, PipesFacts, PipesNumbers
      <4> DEFINE m == MinOf({head, work.from + PpBatch - 1})
      <4>3. m \in Nat /\ m <= head
        BY <4>2, LeastElement
      <4> HIDE DEF m
      <4>4. m <= PpRecords
        BY <4>3, PipesFacts, PipesNumbers
      <4>5. work' = [work EXCEPT !.pc = IF work.from > head THEN "store" ELSE "deliver", !.to = m]
        BY <3>2 DEF DrainReads, m
      <4>6. (IF work.from > head THEN "store" ELSE "deliver") \in {"store", "deliver"}
        OBVIOUS
      <4> QED
        BY <4>1, <4>3, <4>4, <4>5, <4>6, PipesFacts DEF Work, DrainPcs
    <3> QED
      BY <1>2, <3>1, <3>2
  <2>4. PipesTypes' /\ DrainHolds' /\ SettlingHolds'
    BY <2>1, <2>2, <2>3, PipesFacts DEF PipesTypes, PipesInv, DrainHolds, SettlingHolds
  <2>5. ASSUME ~inherited, pipe # 0 PROVE PassedHolds'
    <3> SUFFICES ASSUME work.pipe = pipe, NEW r \in Recs, r < work'.from PROVE r \in done
      BY <2>1, <2>3 DEF PassedHolds
    <3>1. CASE work'.from = work.from /\ work.pc = "read"
      BY <2>2, <2>5, <3>1 DEF PipesInv, PassedHolds
    <3>2. CASE work'.from = checkpoint
      BY <2>5, <3>2, PipesFacts DEF NothingSkipped
    <3>3. CASE work'.from = 1
      BY <3>3, PipesNumbers
    <3> QED
      BY <2>3, <3>1, <3>2, <3>3
  <2> QED
    BY <2>1, <2>4, <2>5 DEF PipesInv, NothingSkipped, RetriesHonoured, CountsHold
<1>3. CASE DrainSQS
  <2> PICK n \in Work : n = NoWork
    BY PipesNumbers
  <2>1. PICK got \in SUBSET ((1..head) \ (hidden \union deleted)) :
          work' = [n EXCEPT !.pc = "deliver", !.pipe = pipe, !.gone = got]
    BY <1>3 DEF DrainSQS
  <2>2. got \in SUBSET Recs
    BY PipesFacts, PipesNumbers
  <2>3. work' \in Work /\ work'.pc = "deliver" /\ work'.pipe = pipe
    BY <2>1, <2>2, PipesFacts DEF Work, DrainPcs
  <2>4. /\ source = "queue" /\ pipe # 0
        /\ UNCHANGED <<source, pipe, made, checkpoint, counts, head, deleted, tried, done, dead, inherited>>
    BY <1>3 DEF DrainSQS, history
  <2>5. DrainHolds' /\ SettlingHolds' /\ PassedHolds'
    BY <2>3, <2>4, PipesFacts DEF DrainHolds, SettlingHolds, PassedHolds
  <2>6. PipesTypes'
    BY <2>3, <2>4 DEF PipesTypes, PipesInv
  <2> QED
    BY <2>4, <2>5, <2>6 DEF PipesInv, NothingSkipped, RetriesHonoured, CountsHold
<1> QED
  BY <1>1, <1>2, <1>3

\* The least of two numbers.
LEMMA LeastOfTwo ==
  ASSUME NEW a \in Nat, NEW b \in Nat
  PROVE  MinOf({a, b}) = IF a <= b THEN a ELSE b
<1>1. MinOf({a, b}) \in {a, b} /\ \A y \in {a, b} : MinOf({a, b}) <= y
  BY LeastElement
<1> QED
  BY <1>1

LEMMA ProcessKeeps ==
  ASSUME PipesInv, NEW took \in {Recs, {}}, ProcessRecords(took)
  PROVE  PipesInv'
<1>1. /\ work.pc = "deliver" /\ source = "stream"
      /\ UNCHANGED <<source, pipe, made, checkpoint, counts, head, deleted, dead, inherited>>
  BY DEF ProcessRecords, At, kept
<1>2. PICK gone \in SUBSET Batch, arrived \in SUBSET Batch :
        LET ok == arrived \union (gone \intersect took) IN
          /\ work' = [work EXCEPT !.pc = "settle", !.ok = ok, !.gone = gone, !.took = took]
          /\ done' = IF Current THEN done \union ok ELSE done
          /\ tried' = [r \in Recs |-> IF Current /\ r \in Batch \ ok THEN Capped(tried[r] + 1) ELSE tried[r]]
  <2>1. PICK gone \in SUBSET Batch : \E arrived \in SUBSET (Batch \ gone) :
          LET ok == arrived \union (gone \intersect took) IN
            /\ work' = [work EXCEPT !.pc = "settle", !.ok = ok, !.gone = gone, !.took = took]
            /\ done' = IF Current THEN done \union ok ELSE done
            /\ tried' = [r \in Recs |-> IF Current /\ r \in Batch \ ok THEN Capped(tried[r] + 1) ELSE tried[r]]
    BY Zenon DEF ProcessRecords
  <2>2. \A arrived \in SUBSET (Batch \ gone) : arrived \in SUBSET Batch
    BY Zenon
  <2> QED
    BY <2>1, <2>2, Zenon
<1> DEFINE ok == arrived \union (gone \intersect took)
<1>3. Batch \subseteq Recs /\ took \subseteq Recs /\ ok \in SUBSET Recs /\ gone \in SUBSET Recs /\ took \in SUBSET Recs
  <2>1. work.from > 0 /\ work.to <= PpRecords
    BY <1>1, PipesFacts DEF DrainHolds
  <2>2. Batch \subseteq Recs
    BY <2>1, PipesFacts, PipesNumbers DEF Batch
  <2> QED
    BY <2>2
<1> HIDE DEF ok
<1>4. work' = [work EXCEPT !.pc = "settle", !.ok = ok, !.gone = gone, !.took = took]
      /\ done' = (IF Current THEN done \union ok ELSE done)
      /\ tried' = [r \in Recs |-> IF Current /\ r \in Batch \ ok THEN Capped(tried[r] + 1) ELSE tried[r]]
  BY <1>2 DEF ok
<1>5. /\ work' \in Work /\ work'.pc = "settle" /\ work'.ok = ok /\ work'.pipe = work.pipe
      /\ work'.from = work.from /\ work'.to = work.to
  BY <1>3, <1>4, PipesFacts DEF Work, DrainPcs
<1>6. \A n \in Nat : Capped(n) \in Nat /\ Capped(n) = IF n <= PpRetries THEN n ELSE PpRetries + 1
  <2>1. PpRetries + 1 \in Nat /\ PpRetries \in Nat
    BY PipesNumbers
  <2> QED
    BY <2>1, LeastOfTwo DEF Capped
<1>7. tried' \in [Recs -> Nat]
  BY <1>4, <1>6, PipesFacts
<1>8. PipesTypes'
  BY <1>1, <1>5, <1>7 DEF PipesTypes, PipesInv
<1>9. done \subseteq done'
  BY <1>4
<1>10. DrainHolds'
  BY <1>1, <1>5, <1>9, PipesFacts DEF DrainHolds
<1>11. ASSUME NEW r \in Recs
       PROVE  /\ tried'[r] = tried[r] \/ tried'[r] = Capped(tried[r] + 1)
              /\ Current /\ r \in Batch \ ok => tried'[r] = Capped(tried[r] + 1)
              /\ tried[r] \in Nat /\ tried[r] + 1 \in Nat
              /\ Capped(tried[r] + 1) = IF tried[r] + 1 <= PpRetries THEN tried[r] + 1 ELSE PpRetries + 1
  <2>1. tried[r] \in Nat /\ tried[r] + 1 \in Nat
    BY PipesFacts
  <2>2. CASE Current
    BY <1>4, <1>6, <2>1, <2>2
  <2>3. CASE ~Current
    BY <1>4, <1>6, <2>1, <2>3
  <2> QED
    BY <2>2, <2>3
<1>12. \A r \in Recs : \A n \in Nat : n <= PpRetries /\ n <= tried[r] => n <= tried'[r]
  <2> SUFFICES ASSUME NEW r \in Recs, NEW n \in Nat, n <= PpRetries, n <= tried[r] PROVE n <= tried'[r]
    OBVIOUS
  <2>1. tried[r] \in Nat /\ PpRetries \in Nat
    BY <1>11, PipesNumbers
  <2>2. CASE tried'[r] = tried[r]
    BY <2>2
  <2>3. CASE tried'[r] = Capped(tried[r] + 1)
    <3>1. tried'[r] = IF tried[r] + 1 <= PpRetries THEN tried[r] + 1 ELSE PpRetries + 1
      BY <1>11, <2>3
    <3> QED
      BY <2>1, <3>1
  <2> QED
    BY <1>11, <2>2, <2>3
<1>13. \A r \in Recs : tried[r] > PpRetries => tried'[r] > PpRetries
  BY <1>11, PipesNumbers
<1>14. NothingSkipped'
  BY <1>1, <1>9, PipesFacts DEF NothingSkipped
<1>15. RetriesHonoured'
  <2>1. ~inherited /\ pipe # 0 => dead \subseteq Recs
    BY DEF PipesInv
  <2> QED
    BY <1>1, <1>13, <2>1, PipesFacts DEF RetriesHonoured
<1>16. ASSUME ~inherited, pipe # 0 PROVE CountsHold' /\ SettlingHolds' /\ PassedHolds'
  <2>1. CountsHold
    BY <1>16 DEF PipesInv
  <2>2. CountsHold'
    BY <1>1, <1>12, <2>1 DEF CountsHold
  <2>3. ASSUME Current, NEW r \in Batch \ ok PROVE Failures(r) <= tried'[r]
    <3>1. tried'[r] = Capped(tried[r] + 1) /\ r \in Recs
      BY <1>3, <1>11, <2>3
    <3>2. Failures(r) \in Nat /\ Failures(r) <= PpRetries + 1 /\ Failures(r) <= tried[r] + 1
      <4>1. tried[r] \in Nat /\ PpRetries \in Nat
        BY <3>1, PipesFacts, PipesNumbers
      <4> QED
        BY <2>1, <4>1 DEF CountsHold, Failures
    <3> QED
      BY <1>11, <3>1, <3>2, PipesNumbers
  <2>4. SettlingHolds'
    <3> SUFFICES ASSUME work.pipe = pipe PROVE ok \subseteq done' /\ \A r \in Batch \ ok : Failures(r) <= tried'[r]
      BY <1>1, <1>5 DEF SettlingHolds, Failures, Batch
    <3> QED
      BY <1>4, <2>3 DEF Current
  <2>5. PassedHolds'
    BY <1>1, <1>5, <1>9, <1>16 DEF PipesInv, PassedHolds
  <2> QED
    BY <2>2, <2>4, <2>5
<1> QED
  BY <1>1, <1>8, <1>10, <1>14, <1>15, <1>16 DEF PipesInv

LEMMA SettleKeeps == PipesInv /\ SettleBatch => PipesInv'
<1> SUFFICES ASSUME PipesInv, SettleBatch PROVE PipesInv'
  OBVIOUS
<1> DEFINE open == {r \in Batch : r \notin work.ok /\ ~(r \in work.took \ work.gone /\ UsedUp(r))}
           stop == IF open = {} THEN work.to + 1 ELSE MinOf(open)
           over == {r \in Batch : r < stop /\ r \notin work.ok}
<1>1. /\ work.pc = "settle" /\ source = "stream" /\ work' = [work EXCEPT !.pc = "store", !.from = stop]
      /\ counts' = IF open = {} \/ stop \in work.gone \/ UsedUp(stop)
                   THEN DelAll(counts, work.from..(stop - 1))
                   ELSE Put(DelAll(counts, work.from..(stop - 1)), stop, Failures(stop))
      /\ done' = (IF Current THEN done \union over ELSE done)
      /\ dead' = (IF Current THEN dead \union over ELSE dead)
      /\ UNCHANGED <<source, pipe, made, head, deleted, checkpoint, tried>>
  BY DEF SettleBatch, At, kept
<1>2. (inherited => inherited') /\ (~Current => inherited')
  BY DEF SettleBatch, Wrote
<1>3. work.from > 0 /\ Batch \subseteq Recs /\ work.pipe > 0
  <2>1. work.from > 0 /\ work.to <= PpRecords /\ work.pipe > 0
    BY <1>1, PipesFacts DEF DrainHolds
  <2> QED
    BY <2>1, PipesFacts, PipesNumbers DEF Batch
<1>4. /\ stop \in Nat
      /\ \A r \in Batch : r < stop => r \notin open
      /\ \A r \in Nat : r < stop /\ r >= work.from => r \in Batch
      /\ open # {} => stop \in open
  <2>1. CASE open = {}
    BY <2>1, PipesFacts DEF Batch
  <2>2. CASE open # {}
    <3>1. open \in SUBSET Nat
      BY PipesFacts DEF Batch
    <3> DEFINE m == MinOf(open)
    <3>2. m \in open /\ \A y \in open : m <= y
      BY <2>2, <3>1, LeastElement
    <3>3. stop = m
      BY <2>2
    <3> HIDE DEF m
    <3>4. m \in Batch
      BY <3>2
    <3> HIDE DEF stop
    <3> QED
      BY <2>2, <3>1, <3>2, <3>3, <3>4, PipesFacts DEF Batch
  <2> QED
    BY <2>1, <2>2
<1>12. stop >= 1
  <2>1. open # {} => stop \in Batch
    BY <1>4
  <2>2. \A r \in Batch : r >= 1
    BY <1>3, PipesNumbers
  <2>3. open = {} => stop = work.to + 1
    OBVIOUS
  <2> QED
    BY <2>1, <2>2, <2>3, PipesFacts
<1>5. \A r \in over : r \in work.took /\ r \in Recs /\ Failures(r) > PpRetries /\ r \in Batch \ work.ok
  BY <1>3, <1>4 DEF UsedUp
<1> HIDE DEF stop, over
<1>11. /\ work' \in Work /\ work'.pc = "store" /\ work'.from = stop /\ work'.pipe = work.pipe
       /\ stop >= 1
  BY <1>1, <1>4, <1>12, PipesFacts DEF Work, DrainPcs
<1>6. PipesTypes'
  BY <1>1, <1>11 DEF PipesTypes, PipesInv
<1>7. done \subseteq done'
  BY <1>1
<1>8. DrainHolds'
  BY <1>1, <1>3, <1>4, <1>7, <1>11, PipesFacts DEF DrainHolds
<1>9. SettlingHolds'
  BY <1>11 DEF SettlingHolds
<1>10. NothingSkipped' /\ RetriesHonoured'
       /\ (~inherited' /\ pipe' # 0 => (dead \subseteq Recs)' /\ CountsHold' /\ PassedHolds')
  <2>1. deleted' \subseteq done'
    BY <1>1, <1>7, PipesFacts DEF NothingSkipped
  <2> SUFFICES ASSUME ~inherited'
               PROVE  /\ \A r \in Recs : (r < checkpoint \/ r < stop) => r \in done'
                      /\ \A r \in dead' : tried[r] > PpRetries
                      /\ pipe # 0 /\ dead' \subseteq Recs /\ CountsHold'
    BY <1>1, <1>11, <2>1 DEF NothingSkipped, RetriesHonoured, PassedHolds
  <2>2. ~inherited /\ Current /\ work.pipe = pipe /\ pipe # 0
    BY <1>2, <1>3, PipesFacts DEF Current
  <2>3. /\ CountsHold /\ dead \subseteq Recs /\ (\A r \in Recs : r < work.from => r \in done)
        /\ work.ok \subseteq done /\ \A r \in Batch \ work.ok : Failures(r) <= tried[r]
    BY <1>1, <2>2, PipesFacts DEF PipesInv, SettlingHolds, PassedHolds, Batch
  <2>4. done' = done \union over /\ dead' = dead \union over
    BY <1>1, <2>2
  <2>5. ASSUME NEW r \in Recs, r < stop PROVE r \in done'
    <3>1. CASE r < work.from
      BY <2>3, <2>4, <3>1
    <3>2. CASE r >= work.from
      <4>1. r \in Batch
        BY <1>4, <2>5, <3>2, PipesNumbers
      <4> QED
        BY <2>3, <2>4, <2>5, <4>1 DEF over
    <3> QED
      BY <3>1, <3>2, PipesNumbers, PipesFacts
  <2>8. \A r \in Recs : r < checkpoint => r \in done'
    BY <1>7, <2>2, PipesFacts DEF NothingSkipped
  <2>6. ASSUME NEW r \in dead' PROVE tried[r] > PpRetries /\ r \in Recs
    <3>1. CASE r \in dead
      BY <2>2, <2>3, <3>1, PipesFacts DEF RetriesHonoured
    <3>2. CASE r \in over
      <4>1. Failures(r) <= tried[r] /\ Failures(r) > PpRetries /\ r \in Recs
        BY <1>5, <2>3, <3>2
      <4>2. Failures(r) \in Nat /\ tried[r] \in Nat
        BY <2>3, <4>1, PipesFacts DEF CountsHold, Failures
      <4> QED
        BY <4>1, <4>2, PipesNumbers
    <3> QED
      BY <2>4, <2>6, <3>1, <3>2
  <2>7. CountsHold'
    <3> DEFINE left == DelAll(counts, work.from..(stop - 1))
    <3>1. \A r \in DOMAIN left : r \in DOMAIN counts /\ left[r] = counts[r]
      BY DEF DelAll
    <3>2. CASE counts' = left
      BY <1>1, <2>3, <3>1, <3>2 DEF CountsHold
    <3>3. CASE counts' = Put(left, stop, Failures(stop)) /\ open # {} /\ ~UsedUp(stop)
      <4>1. stop \in Batch \ work.ok
        BY <1>4, <3>3
      <4>2. stop \in Recs /\ Failures(stop) <= tried[stop] /\ Failures(stop) \in Nat
        BY <1>3, <2>3, <4>1 DEF CountsHold, Failures
      <4> HIDE DEF left, open
      <4>3. DOMAIN counts' = DOMAIN left \union {stop}
            /\ \A r \in DOMAIN counts' : counts'[r] = IF r = stop THEN Failures(stop) ELSE left[r]
        BY <3>3 DEF Put
      <4>4. Failures(stop) <= PpRetries
        BY <3>3, <4>2, PipesNumbers DEF UsedUp
      <4> QED
        BY <1>1, <2>3, <3>1, <4>2, <4>3, <4>4 DEF CountsHold
    <3> QED
      BY <1>1, <3>2, <3>3
  <2> QED
    BY <1>1, <2>2, <2>5, <2>6, <2>7, <2>8
<1> QED
  BY <1>1, <1>6, <1>8, <1>9, <1>10 DEF PipesInv

LEMMA QueueKeeps == PipesInv /\ (ProcessBatch \/ DeleteMessages) => PipesInv'
<1> SUFFICES ASSUME PipesInv, ProcessBatch \/ DeleteMessages PROVE PipesInv'
  OBVIOUS
<1>1. CASE ProcessBatch
  <2>1. PICK ok \in SUBSET work.gone :
          work' = [work EXCEPT !.pc = "settle", !.ok = ok] /\ done' = done \union ok
    BY <1>1 DEF ProcessBatch
  <2>2. /\ source = "queue"
        /\ UNCHANGED <<source, pipe, made, checkpoint, counts, head, deleted, tried, dead, inherited>>
    BY <1>1 DEF ProcessBatch
  <2>3. work' \in Work /\ work'.pc = "settle" /\ work'.ok = ok /\ work'.pipe = work.pipe
    <3>1. ok \in SUBSET Recs
      BY PipesFacts
    <3> QED
      BY <2>1, <3>1, PipesFacts DEF Work, DrainPcs
  <2>4. work.pc = "deliver"
    BY <1>1 DEF ProcessBatch, At
  <2>5. DrainHolds' /\ SettlingHolds' /\ PassedHolds'
    BY <2>1, <2>2, <2>3, <2>4, PipesFacts DEF DrainHolds, SettlingHolds, PassedHolds
  <2>6. PipesTypes'
    BY <2>2, <2>3 DEF PipesTypes, PipesInv
  <2>7. NothingSkipped' /\ RetriesHonoured'
    BY <2>1, <2>2, PipesFacts DEF NothingSkipped, RetriesHonoured
  <2> QED
    BY <2>2, <2>5, <2>6, <2>7 DEF PipesInv, CountsHold
<1>2. CASE DeleteMessages
  <2>1. /\ source = "queue" /\ work.pc = "settle" /\ deleted' = deleted \union work.ok /\ work' = NoWork
        /\ UNCHANGED <<source, pipe, made, checkpoint, counts, head, tried, done, dead, inherited>>
    BY <1>2 DEF DeleteMessages, At, history
  <2>2. NoWork.pc = "idle" /\ NoWork.pipe = 0
    BY DEF NoWork
  <2>3. DrainHolds' /\ SettlingHolds' /\ PassedHolds'
    BY <2>1, <2>2, PipesFacts DEF DrainHolds, SettlingHolds, PassedHolds
  <2>4. PipesTypes'
    BY <2>1, PipesNumbers DEF PipesTypes, PipesInv
  <2>5. NothingSkipped' /\ RetriesHonoured'
    BY <2>1, PipesFacts DEF NothingSkipped, RetriesHonoured, DrainHolds
  <2> QED
    BY <2>1, <2>3, <2>4, <2>5 DEF PipesInv, CountsHold
<1> QED
  BY <1>1, <1>2

LEMMA PipesStep == PipesInv /\ [PipesNext]_ppvars => PipesInv'
<1> SUFFICES ASSUME PipesInv, [PipesNext]_ppvars PROVE PipesInv'
  OBVIOUS
<1>1. CASE UNCHANGED ppvars
  BY <1>1 DEF ppvars, PipesInv, PipesTypes, DrainHolds, NothingSkipped, RetriesHonoured,
              CountsHold, SettlingHolds, PassedHolds, Failures
<1> QED
  BY <1>1, ClientsKeep, DeletionKeeps, StoresKeep, ReadsKeep, ProcessKeeps, SettleKeeps, QueueKeeps
     DEF PipesNext, DrainSteps

-----------------------------------------------------------------------------
(* EventBridge: retries and the rate of an API destination.                *)

Retrying == [tries : Nat, since : Nat, next : Nat]
Fate == [put : BOOLEAN, tries : Nat, ended : Nat]

\* A stored retry stands for an event that has not ended and was tried as often
\* as the retry says; what the worker has listed and not handled is still stored
\* as it was.
RetriesHold ==
  /\ \A e \in DOMAIN retries :
       /\ e \in EvEvents /\ retries[e].tries \in Nat /\ retries[e].tries <= EvRetries
       /\ evfate[e].put /\ evfate[e].ended = 0 /\ evfate[e].tries = retries[e].tries
  /\ \A e \in EvEvents : ~evfate[e].put => evfate[e].ended = 0 /\ evfate[e].tries = 0
  /\ evpc = "rules" => \A e \in DOMAIN todo : e \in DOMAIN retries /\ todo[e] = retries[e]

RateTypes ==
  /\ booked \in [0..Far -> Nat] /\ window \in 0..Far /\ evnow \in 0..EvMaxTime

EventsInv ==
  /\ evfate \in [EvEvents -> Fate] /\ EventEndsOnce /\ RetriesHold
  /\ RateTypes /\ RateHolds

LEMMA EventNumbers ==
  /\ EvRetries \in Nat /\ EvRate \in Nat \ {0} /\ EvMaxTime \in Nat
  /\ Far \in Nat /\ EvMaxTime < Far
BY EventBounds DEF Far

LEMMA EventsStart == EventsInit => EventsInv
<1> SUFFICES ASSUME EventsInit PROVE EventsInv
  OBVIOUS
<1>1. evfate \in [EvEvents -> Fate]
  <2>1. [put |-> FALSE, tries |-> 0, ended |-> 0] \in Fate
    BY DEF Fate
  <2> QED
    BY <2>1 DEF EventsInit
<1>2. EventEndsOnce
  BY EventNumbers DEF EventsInit, EventEndsOnce
<1>3. RetriesHold
  BY DEF EventsInit, RetriesHold, NoRows
<1>4. RateTypes
  BY EventNumbers DEF EventsInit, RateTypes
<1>5. RateHolds
  BY EventNumbers DEF EventsInit, RateHolds
<1> QED
  BY <1>1, <1>2, <1>3, <1>4, <1>5 DEF EventsInv

\* A delivery changes the fate of its own event.
LEMMA FateKept ==
  ASSUME evfate \in [EvEvents -> Fate], NEW e \in EvEvents,
         \/ evfate' = Goes(e) \/ evfate' = Ends(e) \/ evfate' = [evfate EXCEPT ![e].ended = @ + 1]
  PROVE  /\ evfate' \in [EvEvents -> Fate]
         /\ \A x \in EvEvents : x # e => evfate'[x] = evfate[x]
         /\ evfate[e].tries \in Nat /\ evfate[e].ended \in Nat
         /\ evfate' = Goes(e) => /\ evfate'[e].put /\ evfate'[e].tries = evfate[e].tries + 1
                                 /\ evfate'[e].ended = evfate[e].ended
         /\ evfate' = Ends(e) => /\ evfate'[e].put /\ evfate'[e].tries = evfate[e].tries + 1
                                 /\ evfate'[e].ended = evfate[e].ended + 1
         /\ evfate' = [evfate EXCEPT ![e].ended = @ + 1] =>
              /\ evfate'[e].put = evfate[e].put /\ evfate'[e].tries = evfate[e].tries
              /\ evfate'[e].ended = evfate[e].ended + 1
<1>1. /\ evfate[e] \in Fate /\ evfate[e].tries \in Nat /\ evfate[e].ended \in Nat
      /\ evfate[e].tries + 1 \in Nat /\ evfate[e].ended + 1 \in Nat
  BY DEF Fate
<1>2. PICK f \in Fate, t \in Nat, n \in Nat :
        f = evfate[e] /\ t = evfate[e].tries + 1 /\ n = evfate[e].ended + 1
  BY <1>1
<1>3. [f EXCEPT !.put = TRUE, !.tries = t] \in Fate
  BY DEF Fate
<1>4. [f EXCEPT !.put = TRUE, !.tries = t, !.ended = n] \in Fate
  BY DEF Fate
<1>5. [f EXCEPT !.ended = n] \in Fate
  BY DEF Fate
<1>6. CASE evfate' = Goes(e)
  BY <1>1, <1>2, <1>3, <1>6 DEF Goes, Ends, Fate
<1>7. CASE evfate' = Ends(e)
  BY <1>1, <1>2, <1>4, <1>7 DEF Goes, Ends, Fate
<1>8. CASE evfate' = [evfate EXCEPT ![e].ended = @ + 1]
  BY <1>1, <1>2, <1>5, <1>8 DEF Goes, Ends, Fate
<1> QED
  BY <1>6, <1>7, <1>8

LEMMA PutEventKeeps ==
  ASSUME EventsInv, NEW e \in EvEvents, NEW outcome, NEW jitter, PutEvent(e, outcome, jitter)
  PROVE  EventsInv'
<1> DEFINE fresh == [tries |-> 0, since |-> evnow, next |-> evnow]
<1>1. /\ ~evfate[e].put /\ UNCHANGED <<evpc, todo, booked, window, evnow>>
      /\ \/ /\ retries' = Put(retries, e, NextAttempt(fresh, evnow, jitter))
            /\ ~Exhausted(fresh, evnow) /\ evfate' = Goes(e)
         \/ evfate' = Ends(e) /\ UNCHANGED retries
  BY DEF PutEvent, workerState, rateState
<1>2. /\ evfate \in [EvEvents -> Fate] /\ EventEndsOnce /\ RetriesHold /\ RateTypes /\ RateHolds
  BY DEF EventsInv
<1>3. evfate[e].ended = 0 /\ evfate[e].tries = 0 /\ e \notin DOMAIN retries
  BY <1>1, <1>2 DEF RetriesHold
<1>4. RateTypes' /\ RateHolds'
  BY <1>1, <1>2 DEF RateTypes, RateHolds
<1>5. CASE evfate' = Ends(e) /\ UNCHANGED retries
  <2>1. /\ evfate' \in [EvEvents -> Fate] /\ evfate'[e].put /\ evfate'[e].tries = 1 /\ evfate'[e].ended = 1
        /\ \A x \in EvEvents : x # e => evfate'[x] = evfate[x]
    BY <1>2, <1>3, <1>5, FateKept
  <2>2. EventEndsOnce'
    BY <1>2, <2>1, EventNumbers DEF EventEndsOnce
  <2>3. RetriesHold'
    BY <1>1, <1>2, <1>3, <1>5, <2>1 DEF RetriesHold
  <2> QED
    BY <1>4, <2>1, <2>2, <2>3 DEF EventsInv
<1>6. CASE /\ retries' = Put(retries, e, NextAttempt(fresh, evnow, jitter))
           /\ ~Exhausted(fresh, evnow) /\ evfate' = Goes(e)
  <2>1. /\ evfate' \in [EvEvents -> Fate] /\ evfate'[e].put /\ evfate'[e].tries = 1 /\ evfate'[e].ended = 0
        /\ \A x \in EvEvents : x # e => evfate'[x] = evfate[x]
    BY <1>2, <1>3, <1>6, FateKept
  <2>2. EventEndsOnce'
    BY <1>2, <2>1, EventNumbers DEF EventEndsOnce
  <2>3. /\ DOMAIN retries' = DOMAIN retries \union {e} /\ retries'[e].tries = 1
        /\ \A x \in DOMAIN retries : x # e => retries'[x] = retries[x]
    BY <1>6 DEF Put, NextAttempt
  <2>4. EvRetries > 0
    BY <1>6, EventNumbers DEF Exhausted
  <2>5. RetriesHold'
    BY <1>1, <1>2, <1>3, <2>1, <2>3, <2>4, EventNumbers DEF RetriesHold
  <2> QED
    BY <1>4, <2>1, <2>2, <2>5 DEF EventsInv
<1> QED
  BY <1>1, <1>5, <1>6

LEMMA RetryKeeps ==
  ASSUME EventsInv, NEW e \in EvEvents, NEW outcome, NEW jitter, RetryEvent(e, outcome, jitter)
  PROVE  EventsInv'
<1> DEFINE r == todo[e]
<1>1. /\ evpc = "rules" /\ evpc' = "rules" /\ e \in DOMAIN todo /\ todo' = Del(todo, e)
      /\ UNCHANGED <<booked, window, evnow>>
      /\ \/ /\ retries' = Del(retries, e)
            /\ evfate' = [evfate EXCEPT ![e].ended = @ + 1] \/ evfate' = Ends(e)
         \/ /\ retries' = Put(retries, e, NextAttempt(r, evnow, jitter))
            /\ ~Exhausted(r, evnow) /\ evfate' = Goes(e)
  BY DEF RetryEvent, rateState
<1>2. /\ evfate \in [EvEvents -> Fate] /\ EventEndsOnce /\ RetriesHold /\ RateTypes /\ RateHolds
  BY DEF EventsInv
<1>3. /\ e \in DOMAIN retries /\ r = retries[e] /\ evfate[e].put /\ evfate[e].ended = 0
      /\ evfate[e].tries = r.tries /\ r.tries \in Nat /\ r.tries <= EvRetries
  BY <1>1, <1>2 DEF RetriesHold
<1>4. RateTypes' /\ RateHolds'
  BY <1>1, <1>2 DEF RateTypes, RateHolds
<1>5. DOMAIN todo' = DOMAIN todo \ {e} /\ \A x \in DOMAIN todo' : todo'[x] = todo[x]
  BY <1>1 DEF Del
<1> HIDE DEF r
<1>6. CASE /\ retries' = Del(retries, e)
           /\ evfate' = [evfate EXCEPT ![e].ended = @ + 1] \/ evfate' = Ends(e)
  <2>1. /\ evfate' \in [EvEvents -> Fate] /\ evfate'[e].put /\ evfate'[e].tries <= EvRetries + 1
        /\ evfate'[e].ended = 1
        /\ \A x \in EvEvents : x # e => evfate'[x] = evfate[x]
    BY <1>2, <1>3, <1>6, FateKept, EventNumbers
  <2>2. EventEndsOnce'
    BY <1>2, <2>1, EventNumbers DEF EventEndsOnce
  <2>3. DOMAIN retries' = DOMAIN retries \ {e} /\ \A x \in DOMAIN retries' : retries'[x] = retries[x]
    BY <1>6 DEF Del
  <2>4. RetriesHold'
    BY <1>1, <1>2, <1>5, <2>1, <2>3 DEF RetriesHold
  <2> QED
    BY <1>4, <2>1, <2>2, <2>4 DEF EventsInv
<1>7. CASE /\ retries' = Put(retries, e, NextAttempt(r, evnow, jitter))
           /\ ~Exhausted(r, evnow) /\ evfate' = Goes(e)
  <2>1. /\ evfate' \in [EvEvents -> Fate] /\ evfate'[e].put /\ evfate'[e].tries = r.tries + 1
        /\ evfate'[e].ended = 0
        /\ \A x \in EvEvents : x # e => evfate'[x] = evfate[x]
    BY <1>2, <1>3, <1>7, FateKept
  <2>2. r.tries < EvRetries
    BY <1>3, <1>7, EventNumbers DEF Exhausted
  <2>3. EventEndsOnce'
    BY <1>2, <1>3, <2>1, <2>2, EventNumbers DEF EventEndsOnce
  <2>4. /\ DOMAIN retries' = DOMAIN retries \union {e} /\ retries'[e].tries = r.tries + 1
        /\ \A x \in DOMAIN retries : x # e => retries'[x] = retries[x]
    BY <1>7 DEF Put, NextAttempt
  <2>5. RetriesHold'
    BY <1>1, <1>2, <1>3, <1>5, <2>1, <2>2, <2>4, EventNumbers DEF RetriesHold
  <2> QED
    BY <1>4, <2>1, <2>3, <2>5 DEF EventsInv
<1> QED
  BY <1>1, <1>6, <1>7

\* Every other step leaves the books alone; a pass lists what is stored.
LEMMA PassesKeep ==
  ASSUME EventsInv,
         \/ RunRetries \/ RunScheduledRules \/ FireRule \/ EventWorkerWakes \/ EventsTick \/ DeleteRule
         \/ \E on \in BOOLEAN : PutRule(on)
  PROVE  EventsInv'
<1>1. /\ UNCHANGED <<retries, evfate, booked, window>>
      /\ evpc' = "rules" => \/ evpc = "rules" /\ todo' = todo
                            \/ \E due \in SUBSET DOMAIN retries : todo' = [e \in due |-> retries[e]]
      /\ evnow' = evnow \/ (evnow < EvMaxTime /\ evnow' = evnow + 1)
  <2>1. CASE RunRetries
    BY <2>1 DEF RunRetries, rateState
  <2>2. CASE RunScheduledRules \/ FireRule \/ EventWorkerWakes
    BY <2>2 DEF RunScheduledRules, FireRule, EventWorkerWakes, rateState
  <2>3. CASE EventsTick \/ DeleteRule \/ (\E on \in BOOLEAN : PutRule(on))
    BY <2>3 DEF EventsTick, DeleteRule, PutRule, rateState, workerState
  <2> QED
    BY <2>1, <2>2, <2>3
<1>2. /\ evfate \in [EvEvents -> Fate] /\ EventEndsOnce /\ RetriesHold /\ RateTypes /\ RateHolds
  BY DEF EventsInv
<1>3. RetriesHold'
  BY <1>1, <1>2 DEF RetriesHold
<1>4. RateTypes' /\ RateHolds'
  BY <1>1, <1>2, EventNumbers DEF RateTypes, RateHolds
<1> QED
  BY <1>1, <1>2, <1>3, <1>4 DEF EventsInv, EventEndsOnce

LEMMA RateKeeps ==
  ASSUME EventsInv, NEW t \in 0..EvMaxTime, WaitAPIDestinationRate(t)
  PROVE  EventsInv'
<1>1. /\ RateTypes /\ RateHolds /\ EventEndsOnce /\ RetriesHold
  BY DEF EventsInv
<1>2. /\ UNCHANGED <<retries, evnow, evpc, todo, evfate>> /\ window < Far
      /\ window' = (IF t >= window + 1 THEN t
                    ELSE IF booked[window] >= EvRate THEN window + 1 ELSE window)
      /\ booked' = [booked EXCEPT ![window'] = @ + 1]
  BY DEF WaitAPIDestinationRate, workerState
<1>3. window \in Nat /\ window' \in 0..Far /\ window' >= window
      /\ (window' > window \/ booked[window] < EvRate)
  BY <1>1, <1>2, EventNumbers DEF RateTypes
<1>4. booked[window'] \in Nat /\ booked[window'] < EvRate
  BY <1>1, <1>3, EventNumbers DEF RateTypes, RateHolds
<1>5. PICK n \in Nat : n = booked[window'] + 1 /\ n <= EvRate
  BY <1>4, EventNumbers
<1>6. booked' = [booked EXCEPT ![window'] = n] /\ booked \in [0..Far -> Nat]
  BY <1>1, <1>2, <1>5 DEF RateTypes
<1>7. booked' \in [0..Far -> Nat] /\ booked'[window'] = n
      /\ \A w \in 0..Far : w # window' => booked'[w] = booked[w]
  BY <1>3, <1>6
<1>8. RateTypes'
  BY <1>1, <1>2, <1>3, <1>7 DEF RateTypes
<1>9. RateHolds'
  <2>1. DOMAIN booked = 0..Far /\ DOMAIN booked' = 0..Far
    BY <1>6, <1>7
  <2>2. ASSUME NEW w \in 0..Far PROVE booked'[w] <= EvRate
    BY <1>1, <1>5, <1>7, <2>1 DEF RateHolds
  <2>3. ASSUME NEW w \in 0..Far, w > window' PROVE booked'[w] = 0
    <3>1. w \in Int /\ w # window' /\ w > window
      BY <1>3, <2>3, EventNumbers
    <3> QED
      BY <1>1, <1>7, <2>1, <3>1 DEF RateHolds
  <2> QED
    BY <2>1, <2>2, <2>3 DEF RateHolds
<1> QED
  BY <1>1, <1>2, <1>8, <1>9 DEF EventsInv, EventEndsOnce, RetriesHold

LEMMA EventsStep == EventsInv /\ [DeliveryNext \/ RateNext]_evvars => EventsInv'
<1> SUFFICES ASSUME EventsInv, [DeliveryNext \/ RateNext]_evvars PROVE EventsInv'
  OBVIOUS
<1>1. CASE UNCHANGED evvars
  BY <1>1 DEF evvars, EventsInv, EventEndsOnce, RetriesHold, RateTypes, RateHolds
<1>2. CASE \E e \in EvEvents, outcome \in {"ok", "retryable"}, jitter \in 1..2 : RetryEvent(e, outcome, jitter)
  BY <1>2, RetryKeeps
<1>3. CASE \E e \in EvEvents, outcome \in {"ok", "retryable"}, jitter \in 1..2 : PutEvent(e, outcome, jitter)
  BY <1>3, PutEventKeeps
<1>4. CASE \E t \in 0..EvMaxTime : WaitAPIDestinationRate(t)
  BY <1>4, RateKeeps
<1> QED
  BY <1>1, <1>2, <1>3, <1>4, PassesKeep DEF DeliveryNext, RateNext, EventWork

-----------------------------------------------------------------------------
(* The SQS event source of Lambda.                                         *)

Pass == [pc : {"asleep", "receive", "invoke", "delete"}, attempt : Nat,
         batch : SUBSET LaMessages, failed : SUBSET LaMessages]

\* A pass deletes only what a function has taken without reporting it.
LambdaInv ==
  /\ laPass \in [LaPasses -> Pass] /\ DOMAIN laQueue \subseteq LaMessages /\ GoneWasHandled
  /\ \A p \in LaPasses : laPass[p].pc = "delete" => laPass[p].batch \ laPass[p].failed \subseteq laHandled

LEMMA AsleepPass == Asleep \in Pass /\ Asleep.pc = "asleep"
BY DEF Asleep, Pass

LEMMA LambdaStart == LaInit => LambdaInv
BY AsleepPass DEF LaInit, LambdaInv, GoneWasHandled, NoRows

\* The pass p moves on and the others stay.
LEMMA OnePass ==
  ASSUME laPass \in [LaPasses -> Pass], NEW p \in LaPasses, NEW x \in Pass,
         laPass' = [laPass EXCEPT ![p] = x]
  PROVE  /\ laPass' \in [LaPasses -> Pass] /\ laPass'[p] = x
         /\ \A q \in LaPasses : q # p => laPass'[q] = laPass[q]
OBVIOUS

LEMMA AgainIs ==
  ASSUME laPass \in [LaPasses -> Pass], NEW p \in LaPasses
  PROVE  \E x \in Pass : x.pc # "delete" /\ Again(p) = [laPass EXCEPT ![p] = x]
<1>1. PICK a \in Pass : a = Asleep
  BY AsleepPass
<1>2. laPass[p].attempt + 1 \in Nat
  BY DEF Pass
<1> DEFINE x == [a EXCEPT !.pc = "receive", !.attempt = laPass[p].attempt + 1]
<1>3. x \in Pass /\ x.pc = "receive"
  <2>1. PICK n \in Nat : n = laPass[p].attempt + 1
    BY <1>2
  <2> QED
    BY <2>1 DEF Pass
<1>4. CASE laPass[p].attempt + 1 < LaAttempts
  <2>1. Again(p) = [laPass EXCEPT ![p] = x]
    BY <1>1, <1>4 DEF Again
  <2> QED
    BY <1>3, <2>1
<1>5. CASE ~(laPass[p].attempt + 1 < LaAttempts)
  <2>1. Again(p) = [laPass EXCEPT ![p] = Asleep]
    BY <1>5 DEF Again
  <2> QED
    BY <2>1, AsleepPass
<1> QED
  BY <1>4, <1>5

LEMMA SendsKeep ==
  ASSUME LambdaInv, Enable \/ \E p \in LaPasses, m \in LaMessages : Send(m, p)
  PROVE  LambdaInv'
<1> USE DEF LambdaInv
<1>1. CASE Enable
  BY <1>1 DEF Enable, GoneWasHandled
<1>2. ASSUME NEW p \in LaPasses, NEW m \in LaMessages, Send(m, p) PROVE LambdaInv'
  <2>1. PICK a \in Pass : a = Asleep
    BY AsleepPass
  <2> DEFINE x == [a EXCEPT !.pc = "receive"]
  <2>2. x \in Pass /\ x.pc = "receive"
    BY DEF Pass
  <2>3. laPass' = laPass \/ laPass' = [laPass EXCEPT ![p] = x]
    BY <1>2, <2>1 DEF Send
  <2> HIDE DEF x
  <2>4. /\ laPass' \in [LaPasses -> Pass]
        /\ \A q \in LaPasses : laPass'[q] = laPass[q] \/ laPass'[q].pc = "receive"
    BY <2>2, <2>3, OnePass
  <2>5. /\ laSent' = laSent \union {m} /\ DOMAIN laQueue' = DOMAIN laQueue \union {m}
        /\ UNCHANGED <<laHandled, laDead>>
    BY <1>2 DEF Send, Put
  <2> QED
    BY <2>4, <2>5 DEF GoneWasHandled
<1> QED
  BY <1>1, <1>2

LEMMA RoundsKeep ==
  ASSUME LambdaInv, NEW p \in LaPasses, LaRound(p)
  PROVE  LambdaInv'
<1> USE DEF LambdaInv
<1>1. CASE Receive(p)
  <2> DEFINE spent == {m \in DOMAIN laQueue : laMax > 0 /\ laQueue[m].count >= laMax}
             live == DOMAIN laQueue \ spent
  <2>1. PICK batch \in SUBSET live :
          /\ DOMAIN laQueue' = live
          /\ laPass' = [laPass EXCEPT ![p] = IF batch = {} THEN Asleep
                                             ELSE [@ EXCEPT !.pc = "invoke", !.batch = batch]]
    BY <1>1 DEF Receive
  <2>2. laDead' = laDead \union spent /\ UNCHANGED <<laSent, laHandled>>
    BY <1>1 DEF Receive
  <2>3. \E x \in Pass : x.pc # "delete" /\ laPass' = [laPass EXCEPT ![p] = x]
    <3>1. CASE batch = {}
      BY <2>1, <3>1, AsleepPass
    <3>2. CASE batch # {}
      <4>1. PICK b \in SUBSET LaMessages : b = batch
        OBVIOUS
      <4>2. PICK y \in Pass : y = laPass[p]
        OBVIOUS
      <4>3. [y EXCEPT !.pc = "invoke", !.batch = b] \in Pass
        BY DEF Pass
      <4>4. laPass' = [laPass EXCEPT ![p] = [y EXCEPT !.pc = "invoke", !.batch = b]]
        BY <2>1, <3>2, <4>1, <4>2
      <4>5. [y EXCEPT !.pc = "invoke", !.batch = b].pc = "invoke"
        BY DEF Pass
      <4> QED
        BY <4>3, <4>4, <4>5
    <3> QED
      BY <3>1, <3>2
  <2>4. /\ laPass' \in [LaPasses -> Pass]
        /\ \A q \in LaPasses : laPass'[q] = laPass[q] \/ laPass'[q].pc # "delete"
    BY <2>3, OnePass
  <2> QED
    BY <2>1, <2>2, <2>4 DEF GoneWasHandled
<1>2. CASE InvokeFails(p)
  <2>1. laPass' \in [LaPasses -> Pass]
        /\ \A q \in LaPasses : laPass'[q] = laPass[q] \/ laPass'[q].pc # "delete"
    BY <1>2, AgainIs, OnePass DEF InvokeFails
  <2> QED
    BY <1>2, <2>1 DEF InvokeFails, GoneWasHandled
<1>3. ASSUME NEW failed \in SUBSET LaMessages, InvokeAnswers(p, failed) PROVE LambdaInv'
  <2>1. PICK y \in Pass : y = laPass[p]
    OBVIOUS
  <2> DEFINE x == [y EXCEPT !.pc = "delete", !.failed = failed]
  <2>2. x \in Pass /\ x.batch = y.batch /\ x.failed = failed
    BY DEF Pass
  <2>3. laPass' = [laPass EXCEPT ![p] = x]
    BY <1>3, <2>1 DEF InvokeAnswers
  <2> HIDE DEF x
  <2>4. /\ laPass' \in [LaPasses -> Pass] /\ laPass'[p] = x
        /\ \A q \in LaPasses : q # p => laPass'[q] = laPass[q]
    BY <2>2, <2>3, OnePass
  <2>5. laHandled' = laHandled \union (y.batch \ failed) /\ UNCHANGED <<laQueue, laSent, laDead>>
    BY <1>3, <2>1 DEF InvokeAnswers
  <2> QED
    BY <2>2, <2>4, <2>5 DEF GoneWasHandled
<1>4. CASE Delete(p)
  <2> DEFINE left == laPass[p].batch \ laPass[p].failed
  <2>1. laPass[p].pc = "delete" /\ left \subseteq laHandled /\ UNCHANGED <<laSent, laDead, laHandled>>
    BY <1>4 DEF Delete
  <2>2. CASE left = {}
    <3>1. laQueue' = laQueue /\ laPass' \in {[laPass EXCEPT ![p] = Asleep], Again(p)}
      BY <1>4, <2>2 DEF Delete
    <3>2. laPass' \in [LaPasses -> Pass]
          /\ \A q \in LaPasses : laPass'[q] = laPass[q] \/ laPass'[q].pc # "delete"
      BY <3>1, AgainIs, OnePass, AsleepPass
    <3> QED
      BY <2>1, <3>1, <3>2 DEF GoneWasHandled
  <2>3. CASE left # {}
    <3>1. PICK m \in left :
            /\ laQueue' = IF m \in DOMAIN laQueue /\ laQueue[m].handle = p THEN Del(laQueue, m) ELSE laQueue
            /\ laPass' = [laPass EXCEPT ![p].batch = @ \ {m}]
      BY <1>4, <2>3 DEF Delete
    <3>2. DOMAIN laQueue' \in {DOMAIN laQueue, DOMAIN laQueue \ {m}} /\ m \in laHandled
      BY <2>1, <3>1 DEF Del
    <3>3. PICK y \in Pass : y = laPass[p]
      OBVIOUS
    <3> DEFINE x == [y EXCEPT !.batch = y.batch \ {m}]
    <3>4. x \in Pass /\ x.batch = y.batch \ {m} /\ x.failed = y.failed
      <4>1. PICK b \in SUBSET LaMessages : b = y.batch \ {m}
        BY DEF Pass
      <4> QED
        BY <4>1 DEF Pass
    <3>5. laPass' = [laPass EXCEPT ![p] = x]
      BY <3>1, <3>3
    <3> HIDE DEF x
    <3>6. /\ laPass' \in [LaPasses -> Pass] /\ laPass'[p] = x
          /\ \A q \in LaPasses : q # p => laPass'[q] = laPass[q]
      BY <3>4, <3>5, OnePass
    <3> QED
      BY <2>1, <3>2, <3>3, <3>4, <3>6 DEF GoneWasHandled
  <2> QED
    BY <2>2, <2>3
<1> QED
  BY <1>1, <1>2, <1>3, <1>4 DEF LaRound

LEMMA LambdaStep == LambdaInv /\ [LaNext]_lavars => LambdaInv'
<1> SUFFICES ASSUME LambdaInv, [LaNext]_lavars PROVE LambdaInv'
  OBVIOUS
<1>1. CASE UNCHANGED lavars
  BY <1>1 DEF lavars, LambdaInv, GoneWasHandled
<1> QED
  BY <1>1, SendsKeep, RoundsKeep DEF LaNext

-----------------------------------------------------------------------------
(* All of them.                                                            *)

WorkersInv == SchedulerInv /\ PipesInv /\ EventsInv /\ LambdaInv

LEMMA WorkersStart == WorkersInit => WorkersInv
BY SchedulerStart, PipesStart, EventsStart, LambdaStart DEF WorkersInit, WorkersInv

\* A step of the process is a step of each worker, most of them stuttering.
LEMMA EachSteps ==
  [WorkersNext]_allWorkers =>
    /\ [SchedulerNext]_scvars /\ [PipesNext]_ppvars /\ [DeliveryNext \/ RateNext]_evvars /\ [LaNext]_lavars
BY DEF WorkersNext, allWorkers

LEMMA WorkersStep == WorkersInv /\ [WorkersNext]_allWorkers => WorkersInv'
BY EachSteps, SchedulerStep, PipesStep, EventsStep, LambdaStep DEF WorkersInv

LEMMA WorkersInvariant == WorkersSpec => []WorkersInv
<1>1. QED
  BY WorkersStart, WorkersStep, PTL DEF WorkersSpec

\* Whatever the clients do meanwhile, an occurrence is delivered within its
\* retries and settled once (scheduler.go: runDue, changeRecordIfUnchanged), no
\* record of a stream is passed over and none is dead-lettered before its
\* retries are used (pipes.go: drainStream), an event ends once (events.go:
\* runRetries), no window is booked beyond the rate
\* (waitAPIDestinationRate), and a message leaves its queue only handled or
\* dead-lettered (lambda.go: processSQSMapping).
THEOREM WorkIsSettled == WorkersSpec => []WorkersSettle
<1>1. WorkersInv => WorkersSettle
  BY DEF WorkersInv, SchedulerInv, PipesInv, EventsInv, LambdaInv, WorkersSettle
<1>2. QED
  BY <1>1, WorkersInvariant, PTL

\* The compare-and-set of the bookkeeping never brings back or removes what a
\* client wrote meanwhile (scheduler.go: changeRecordIfUnchanged).
THEOREM ClientsAreNotOverwritten == WorkersSpec => ClientWritesStand
<1>1. SchedulerInv /\ [SchedulerNext]_scvars =>
        [sched' # sched => \/ sched'.write = sched.write
                           \/ writes' = writes + 1
                           \/ /\ sched' = NoSchedule
                              /\ \/ scpc' = scpc
                                 \/ listed.write = sched.write /\ listed.req.del]_scvars
  <2> SUFFICES ASSUME SchedulerInv, SchedulerNext, sched' # sched
               PROVE  \/ sched'.write = sched.write
                      \/ writes' = writes + 1
                      \/ /\ sched' = NoSchedule
                         /\ scpc' = scpc \/ (listed.write = sched.write /\ listed.req.del)
    OBVIOUS
  <2>1. CASE ChangeRecordIfUnchanged
    <3>1. scpc = "write" /\ sched = listed /\ sched' = draft
      BY <2>1 DEF ChangeRecordIfUnchanged
    <3> QED
      BY <3>1 DEF SchedulerInv, Copies
  <2>2. CASE DeleteSchedule \/ (\E r \in ScRequests : PutSchedule(r))
    BY <2>2 DEF DeleteSchedule, PutSchedule
  <2> QED
    BY <2>1, <2>2 DEF SchedulerNext, SchedulerWorks, SchedulerTicks, RunDue, DeliverTarget
<1>2. WorkersInv => SchedulerInv
  BY DEF WorkersInv
<1>3. [WorkersNext]_allWorkers => [SchedulerNext]_scvars
  BY EachSteps
<1>4. QED
  BY <1>1, <1>2, <1>3, WorkersInvariant, PTL DEF WorkersSpec, ClientWritesStand
=============================================================================
