----------------------------- MODULE Schedules ------------------------------
(***************************************************************************)
(* EventBridge Scheduler: the polling worker and one schedule that clients *)
(* create, update and delete under it.  The worker works on the records it *)
(* listed and writes its bookkeeping only over the bytes it read.          *)
(***************************************************************************)
EXTENDS Tables, Naturals, Sequences, FiniteSets

CONSTANTS ScRequests,     \* schedules: [kind, at, end, flex, del, on]
          ScMaxTime,      \* bound: instants
          ScMaxWrites,    \* bound: writes by clients
          ScEvery,        \* period of the rate expression
          ScRetries,      \* MaximumRetryAttempts
          ScAge           \* MaximumEventAgeInSeconds

ASSUME SchedulerBounds ==
  /\ ScEvery \in Nat \ {0} /\ {ScMaxTime, ScMaxWrites, ScRetries, ScAge} \subseteq Nat
  /\ ScRequests \subseteq [kind : {"rate", "at"}, at : Nat, end : Nat, flex : BOOLEAN,
                           del : BOOLEAN, on : BOOLEAN]

VARIABLES sched,      \* the record, or NoSchedule
          writes,     \* writes by clients so far
          listed,     \* the record as runDue listed it
          scpc,       \* "sleep", "deliver" or "write"
          draft,      \* what the worker is about to write, NoSchedule to delete
          ranAt,      \* the instant runDue works with
          wakeAt,     \* the instant the loop sleeps until
          scnow,      \* the clock
          fired,      \* history: deliveries tried of <<write, scheduled instant>>
          settled     \* history: how often it was delivered or given up for good

scvars == <<sched, writes, listed, scpc, draft, ranAt, wakeAt, scnow, fired, settled>>

Never == ScMaxTime + ScEvery + 1
NoRequest == [kind |-> "rate", at |-> 0, end |-> Never, flex |-> FALSE, del |-> FALSE, on |-> FALSE]
NoSchedule == [write |-> 0, req |-> NoRequest, wrote |-> 0,
               known |-> FALSE, due |-> Never, next |-> Never, tries |-> 0, since |-> Never]
Poll == 1

SchedulerInit ==
  /\ sched = NoSchedule /\ writes = 0 /\ listed = NoSchedule /\ scpc = "sleep"
  /\ draft = NoSchedule /\ ranAt = 0 /\ wakeAt = 0 /\ scnow = 0
  /\ fired = [o \in (1..ScMaxWrites) \X (0..Never) |-> 0]
  /\ settled = [o \in (1..ScMaxWrites) \X (0..Never) |-> 0]

\* CreateSchedule and UpdateSchedule replace the record by the request, which
\* has none of the worker's bookkeeping.
PutSchedule(r) ==
  /\ writes < ScMaxWrites /\ writes' = writes + 1
  /\ sched' = [NoSchedule EXCEPT !.write = writes + 1, !.req = r, !.wrote = scnow]
  /\ UNCHANGED <<listed, scpc, draft, ranAt, wakeAt, scnow, fired, settled>>

DeleteSchedule ==
  /\ sched # NoSchedule /\ sched' = NoSchedule
  /\ UNCHANGED <<writes, listed, scpc, draft, ranAt, wakeAt, scnow, fired, settled>>

----------------------------------------------------------------------------
\* A recurring schedule ends with EndDate; a flexible window moves the
\* invocation by an offset that is a function of the schedule and the instant.
UntilEnd(q, t) == IF q.kind = "rate" /\ t > q.end THEN Never ELSE t
WithWindow(q, t) == IF q.flex /\ t # Never THEN t + (t % 2) ELSE t

\* recordNext: the bookkeeping, or computed from when the record was written;
\* an `at` before that never fires.
FirstDue(r) == UntilEnd(r.req, IF r.req.kind = "rate" THEN r.wrote
                               ELSE IF r.req.at < r.wrote THEN Never ELSE r.req.at)
RecordNext(r) == IF r.known THEN [due |-> r.due, next |-> r.next]
                            ELSE [due |-> FirstDue(r), next |-> WithWindow(r.req, FirstDue(r))]
AfterDue(q) == UntilEnd(q, IF q.kind = "rate" THEN ranAt + ScEvery ELSE Never)

Earlier(a, b) == IF a < b THEN a ELSE b

\* runDue lists; a record that is not due gives the loop its next wake-up.
RunDue ==
  LET n == RecordNext(sched).next IN
  /\ scpc = "sleep" /\ wakeAt <= scnow
  /\ IF sched.req.on /\ n <= scnow
     THEN scpc' = "deliver" /\ listed' = sched /\ ranAt' = scnow /\ UNCHANGED wakeAt
     ELSE /\ wakeAt' = IF sched.req.on THEN Earlier(scnow + Poll, n) ELSE scnow + Poll
          /\ UNCHANGED <<scpc, listed, ranAt>>
  /\ UNCHANGED <<sched, writes, draft, scnow, fired, settled>>

Occurrence == <<listed.write, RecordNext(listed).due>>

\* After a delivery, or when retries are exhausted: the next invocation, or the
\* end of the schedule.
Advanced ==
  LET due == AfterDue(listed.req)
      next == WithWindow(listed.req, due)
  IN IF next = Never /\ listed.req.del THEN NoSchedule
     ELSE [listed EXCEPT !.known = TRUE, !.due = due, !.next = next, !.tries = 0, !.since = Never]

Started == IF listed.since # Never THEN listed.since ELSE RecordNext(listed).due

\* retry: a retryable error is retried after a jittered delay while age and
\* attempts allow, otherwise the event goes to deadLetter.
Retry(outcome) == outcome = "retryable" /\ ranAt < Started + ScAge /\ listed.tries < ScRetries

\* DeliverTarget and what runDue makes of its outcome.
DeliverTarget(outcome, jitter) ==
  LET again == Retry(outcome) IN
  /\ scpc = "deliver" /\ scpc' = "write"
  /\ fired' = [fired EXCEPT ![Occurrence] = @ + 1]
  /\ settled' = IF again THEN settled ELSE [settled EXCEPT ![Occurrence] = @ + 1]
  /\ draft' = IF again
              THEN [listed EXCEPT !.known = TRUE, !.due = RecordNext(listed).due,
                                  !.next = ranAt + jitter, !.tries = @ + 1, !.since = Started]
              ELSE Advanced
  /\ UNCHANGED <<sched, writes, listed, ranAt, wakeAt, scnow>>

\* Mistake: the bookkeeping is written whatever the record is by now.
ChangeRecordBlindly ==
  /\ scpc = "write" /\ scpc' = "sleep"
  /\ sched' = draft
  /\ wakeAt' = Earlier(ranAt + Poll, draft.next)
  /\ UNCHANGED <<writes, listed, draft, ranAt, scnow, fired, settled>>

\* changeRecordIfUnchanged, in one transaction.
ChangeRecordIfUnchanged ==
  /\ scpc = "write" /\ scpc' = "sleep"
  /\ sched' = IF sched = listed THEN draft ELSE sched
  /\ wakeAt' = Earlier(ranAt + Poll, draft.next)
  /\ UNCHANGED <<writes, listed, draft, ranAt, scnow, fired, settled>>

SchedulerTicks ==
  /\ scnow < ScMaxTime /\ scnow' = scnow + 1
  /\ UNCHANGED <<sched, writes, listed, scpc, draft, ranAt, wakeAt, fired, settled>>

SchedulerWorks ==
  \/ RunDue \/ ChangeRecordIfUnchanged
  \/ \E outcome \in {"ok", "fatal", "retryable"}, jitter \in 1..2 : DeliverTarget(outcome, jitter)

SchedulerNext ==
  \/ SchedulerWorks \/ SchedulerTicks \/ DeleteSchedule
  \/ \E r \in ScRequests : PutSchedule(r)

----------------------------------------------------------------------------
\* The last write of a client is what is stored, but for the worker's
\* bookkeeping: a delivery that was under way while the schedule was updated or
\* deleted neither brings the old schedule back nor deletes the new one.
ClientWritesStand ==
  [][sched' # sched => \/ sched'.write = sched.write
                       \/ writes' = writes + 1
                       \/ /\ sched' = NoSchedule
                          /\ \/ scpc' = scpc
                             \/ listed.write = sched.write /\ listed.req.del]_scvars

\* An occurrence is tried at most once more than its retries allow, and is
\* settled (delivered, or dead-lettered) at most once: unless the schedule is
\* written meanwhile, no occurrence is delivered twice or dead-lettered twice.
OccurrenceBounded ==
  \A o \in DOMAIN fired : fired[o] <= ScRetries + 1 /\ settled[o] <= 1

\* An enabled schedule that nobody writes fires once it is due: the poll that
\* was late does not skip it.
ScheduleFires ==
  (writes = ScMaxWrites /\ sched.req.on /\ ~sched.known /\ RecordNext(sched).next < ScMaxTime)
  ~> (sched.known \/ sched = NoSchedule)
SchedulerFairness == WF_scvars(SchedulerWorks) /\ WF_scvars(SchedulerTicks)

-----------------------------------------------------------------------------
(***************************************************************************)
(* The cron expressions of EventBridge and the Scheduler                   *)
(* (internal/services/aws/scheduleexpr/expression.go): First, After and    *)
(* the calendar scan next, on a calendar with CrMinutes minutes an hour,   *)
(* CrHours hours a day and months of the lengths CrMonths, one year after  *)
(* the other.  The week has its seven days.  An instant is a number of     *)
(* half minutes, because First must round up inside a minute.              *)
(* Times are UTC: a zone whose clocks jump over midnight is not modelled.  *)
(***************************************************************************)

CONSTANTS CrMinutes,  \* minutes in an hour
          CrHours,    \* hours in a day
          CrMonths,   \* <<days of the first month, days of the second, ...>>
          CrYears,    \* the years the scan covers: it gives up after them (2199)
          CrExprs,    \* the parsed expressions
          CrStarts    \* the instants a schedule is asked about

ASSUME CronAssumption ==
    /\ CrMinutes \in Nat \ {0} /\ CrHours \in Nat \ {0} /\ CrYears \in Nat \ {0}
    /\ CrMonths \in Seq(Nat \ {0}) /\ CrMonths # <<>>

VARIABLES crExpr,   \* the expression under evaluation
          crFrom,   \* the instant First was asked about
          crAt,     \* the scan's t, a minute
          crState   \* "scan", "found" or "none"

crvars == <<crExpr, crFrom, crAt, crState>>

-----------------------------------------------------------------------------
(* The calendar.  Days are numbered from 0, a Sunday.                      *)

DayLength == CrMinutes * CrHours
MonthStart[m \in 1 .. Len(CrMonths) + 1] ==
    IF m = 1 THEN 0 ELSE MonthStart[m - 1] + CrMonths[m - 1]
YearLength == MonthStart[Len(CrMonths) + 1]
Horizon == CrYears * YearLength * DayLength

DayIndex(t) == t \div DayLength
YearOf(t)   == DayIndex(t) \div YearLength + 1
MonthOf(t)  == LET d == DayIndex(t) % YearLength
               IN CHOOSE m \in 1 .. Len(CrMonths) :
                    MonthStart[m] <= d /\ d < MonthStart[m + 1]
DayOf(t)    == (DayIndex(t) % YearLength) - MonthStart[MonthOf(t)] + 1
HourOf(t)   == (t \div CrMinutes) % CrHours
MinuteOf(t) == t % CrMinutes

\* Sunday is 1 and Saturday 7, as awsWeekday counts them.
WeekdayOfDay(d) == (d % 7) + 1
MonthFirst(t)   == DayIndex(t) - (DayOf(t) - 1)

-----------------------------------------------------------------------------
(* dayField.matches: a field is any, a set of values, the last day, the    *)
(* weekday nearest to a day (W), the last such weekday (L) or the n-th (#) *)

NearestWeekday(day, lastDay, weekday) ==
    CASE weekday = 7 -> IF day = 1 THEN day + 2 ELSE day - 1
      [] weekday = 1 -> IF day = lastDay THEN day - 2 ELSE day + 1
      [] OTHER -> day

DayFieldMatches(f, t, isWeekday) ==
    LET day     == DayOf(t)
        lastDay == CrMonths[MonthOf(t)]
        weekday == WeekdayOfDay(DayIndex(t))
    IN CASE f.kind = "any"  -> TRUE
         [] f.kind = "last" -> day = lastDay
         [] f.kind = "L"    -> weekday = f.w /\ day + 7 > lastDay
         [] f.kind = "#"    -> weekday = f.w /\ (day - 1) \div 7 + 1 = f.n
         [] f.kind = "W"    ->
              /\ f.n <= lastDay
              /\ day = NearestWeekday(f.n, lastDay, WeekdayOfDay(MonthFirst(t) + f.n - 1))
         [] f.kind = "values" -> (IF isWeekday THEN weekday ELSE day) \in f.set

MatchesDay(e, t) == DayFieldMatches(e.dom, t, FALSE) /\ DayFieldMatches(e.dow, t, TRUE)

-----------------------------------------------------------------------------
(* next: one step per iteration of its loop.                               *)

StartOfYear(t)  == (YearOf(t) * YearLength) * DayLength
StartOfMonth(t) == (MonthFirst(t) + CrMonths[MonthOf(t)]) * DayLength
\* Mistake: the next day at the same hour.
StartOfDayKeepsHour(t) == t + DayLength
StartOfDay(t)   == (DayIndex(t) + 1) * DayLength
StartOfHour(t)  == (t \div CrMinutes + 1) * CrMinutes

Jump(t) == crAt' = t /\ UNCHANGED <<crExpr, crFrom, crState>>

Scanning == crState = "scan" /\ crAt < Horizon

SkipYear   == Scanning /\ YearOf(crAt) \notin crExpr.yr /\ Jump(StartOfYear(crAt))
SkipMonth  == /\ Scanning /\ YearOf(crAt) \in crExpr.yr
              /\ MonthOf(crAt) \notin crExpr.month /\ Jump(StartOfMonth(crAt))
OnMonth    == Scanning /\ YearOf(crAt) \in crExpr.yr /\ MonthOf(crAt) \in crExpr.month
SkipDay    == OnMonth /\ ~MatchesDay(crExpr, crAt) /\ Jump(StartOfDay(crAt))
OnDay      == OnMonth /\ MatchesDay(crExpr, crAt)
SkipHour   == OnDay /\ HourOf(crAt) \notin crExpr.hour /\ Jump(StartOfHour(crAt))
SkipMinute == /\ OnDay /\ HourOf(crAt) \in crExpr.hour
              /\ MinuteOf(crAt) \notin crExpr.minute /\ Jump(crAt + 1)

\* next, asked about the minute a, starts at the minute after it.
CallNext(a) == crAt' = a + 1 /\ UNCHANGED <<crExpr, crFrom, crState>>

\* First looks one minute back, and asks again when the minute that matches
\* began before the instant it was asked about.
Found ==
    /\ OnDay /\ HourOf(crAt) \in crExpr.hour /\ MinuteOf(crAt) \in crExpr.minute
    /\ IF 2 * crAt < crFrom
       THEN CallNext(crAt)
       ELSE crState' = "found" /\ UNCHANGED <<crExpr, crFrom, crAt>>

GiveUp == crState = "scan" /\ crAt >= Horizon
          /\ crState' = "none" /\ UNCHANGED <<crExpr, crFrom, crAt>>

\* After: the worker asks for the occurrence strictly after the one it ran.
After ==
    /\ crState = "found"
    /\ crFrom' = 2 * crAt + 1 /\ crState' = "scan"
    /\ crAt' = crAt + 1
    /\ UNCHANGED crExpr

CronInit ==
    /\ crExpr \in CrExprs /\ crFrom \in CrStarts
    /\ crAt = crFrom \div 2  \* next(now - minute) starts at now's minute
    /\ crState = "scan"

CronNext == SkipYear \/ SkipMonth \/ SkipDay \/ SkipHour \/ SkipMinute
            \/ Found \/ GiveUp \/ After

CronFairness == WF_crvars(CronNext)

-----------------------------------------------------------------------------
(* The reference: what the fields mean, without the scan.                  *)

\* The weekday of the month nearest to day n.
NearestInMonth(first, last, n) ==
    LET days == {d \in 1 .. last : WeekdayOfDay(first + d - 1) \notin {1, 7}}
        far(d) == IF d > n THEN d - n ELSE n - d
    IN CHOOSE d \in days : \A o \in days : far(d) <= far(o)

DayMeans(f, t, isWeekday) ==
    LET first == MonthFirst(t)
        last  == CrMonths[MonthOf(t)]
        same  == {d \in 1 .. last : f.kind \in {"L", "#"} /\ WeekdayOfDay(first + d - 1) = f.w}
    IN CASE f.kind = "L" -> same # {} /\ DayOf(t) = MaxOf(same)
         [] f.kind = "#" -> /\ DayOf(t) \in same
                            /\ Cardinality({d \in same : d <= DayOf(t)}) = f.n
         [] f.kind = "W" -> f.n <= last /\ DayOf(t) = NearestInMonth(first, last, f.n)
         [] OTHER -> DayFieldMatches(f, t, isWeekday)

Due(e, t) ==
    /\ YearOf(t) \in e.yr /\ MonthOf(t) \in e.month
    /\ DayMeans(e.dom, t, FALSE) /\ DayMeans(e.dow, t, TRUE)
    /\ HourOf(t) \in e.hour /\ MinuteOf(t) \in e.minute

\* No occurrence is skipped: every minute the scan has jumped over, at or after
\* the instant First or After was asked about, matches no expression; and what
\* it answers does.  "First returns the first invocation on or after now and
\* start" and "After returns the next invocation strictly after t".
CronFindsFirst ==
    /\ \A t \in {u \in 0 .. crAt - 1 : u < Horizon /\ 2 * u >= crFrom} : ~Due(crExpr, t)
    /\ crState = "found" => Due(crExpr, crAt) /\ 2 * crAt >= crFrom

\* The scan ends: it finds an instant or runs past its last year.
CronAnswers == (crState = "scan") ~> (crState # "scan")

=============================================================================
