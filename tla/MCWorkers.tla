----------------------------- MODULE MCWorkers -----------------------------
(***************************************************************************)
(* The workers of the AWS packs for TLC: Scheduler, Pipes, EventBridge,    *)
(* the cron expressions they share, and the queue worker of Lambda.  They  *)
(* share no state, so a behaviour exercises one of them, chosen by         *)
(* `focus`.                                                                *)
(***************************************************************************)
EXTENDS EventWorkers

VARIABLE focus

workervars == <<focus, allWorkers, crvars>>

\* A rate with and without an end and a window, and a single instant.
MCRequests ==
  [kind : {"rate"}, at : {0}, end : {3, 99}, flex : BOOLEAN, del : {TRUE}, on : {TRUE}]
    \union [kind : {"at"}, at : {1}, end : {99}, flex : {FALSE}, del : BOOLEAN, on : BOOLEAN]

DayField(k, w, n, s) == [kind |-> k, w |-> w, n |-> n, set |-> s]
AnyDay == DayField("any", 0, 0, {})
MCDaysOfMonth == {DayField("last", 0, 0, {}), DayField("values", 0, 0, {2, 9})}
                   \union {DayField("W", 0, n, {}) : n \in {1, 5, 9}}
MCDaysOfWeek == {DayField("L", w, 0, {}) : w \in {1, 7}} \union {DayField("values", 0, 0, {2, 6})}
                  \union {DayField("#", w, n, {}) : w \in {1, 3}, n \in {1, 2}}
MCDays == {<<d, AnyDay>> : d \in MCDaysOfMonth} \union {<<AnyDay, d>> : d \in MCDaysOfWeek}
MCExprs ==
  {[minute |-> m, hour |-> {1}, dom |-> d[1], dow |-> d[2], month |-> mo, yr |-> y] :
      m \in {{0}, {0, 1}}, mo \in {{1, 2, 3}, {2}}, y \in {{1, 2}, {2}}, d \in MCDays}
MCStarts == {0, 1, 6, 7, 53, 150}
MCMonths == <<9, 10, 8>>

NoCron == /\ crExpr = CHOOSE e \in CrExprs : TRUE
          /\ crFrom = 0 /\ crAt = 0 /\ crState = "none"

MCInit ==
  /\ focus \in {"scheduler", "pipes", "events", "rate", "cron", "lambda"}
  /\ SchedulerInit /\ EventsInit
  /\ PipesInit /\ (focus # "pipes" => source = "queue")
  /\ LaInit /\ (focus # "lambda" => laEnabled /\ laMax = CHOOSE n \in LaMaxReceives : TRUE)
  /\ IF focus = "cron" THEN CronInit ELSE NoCron

OnScheduler == focus = "scheduler" /\ UNCHANGED <<focus, ppvars, evvars, crvars, lavars>>
OnPipes     == focus = "pipes" /\ UNCHANGED <<focus, scvars, evvars, crvars, lavars>>
OnEvents    == focus = "events" /\ UNCHANGED <<focus, scvars, ppvars, crvars, lavars>>
OnRate      == focus = "rate" /\ UNCHANGED <<focus, scvars, ppvars, crvars, lavars>>
OnCron      == focus = "cron" /\ UNCHANGED <<focus, allWorkers>>
OnLambda    == focus = "lambda" /\ UNCHANGED <<focus, scvars, ppvars, evvars, crvars>>

MCNext ==
  \/ SchedulerNext /\ OnScheduler
  \/ PipesNext /\ OnPipes
  \/ DeliveryNext /\ OnEvents
  \/ RateNext /\ OnRate
  \/ CronNext /\ OnCron
  \/ LaNext /\ OnLambda

\* The fairness of the part the behaviour exercises: `focus` never changes, so
\* one condition over all the parts stands for one condition per part.
WorkerWorks ==
  \/ SchedulerWorks /\ OnScheduler
  \/ DrainSteps /\ OnPipes
  \/ EventWork /\ OnEvents
  \/ CronNext /\ OnCron
TimePasses ==
  \/ SchedulerTicks /\ OnScheduler
  \/ SourceGrows /\ OnPipes
  \/ EventsTick /\ OnEvents
MCFairness ==
  /\ WF_workervars(WorkerWorks)
  /\ WF_workervars(TimePasses)
  /\ SF_workervars(ProcessRecords(Recs) /\ OnPipes)
  /\ \A p \in LaPasses : WF_workervars(LaRound(p) /\ OnLambda)

MCSpec == MCInit /\ [][MCNext]_workervars /\ MCFairness

\* Schedules fire, streams drain, events end, searches answer and passes over a
\* queue end while the workers run and time passes.
WorkersProgress ==
  /\ ScheduleFires /\ StreamDrains /\ EventEnds /\ CronAnswers /\ PassesEnd
=============================================================================
