------------------------------ MODULE MCStates ------------------------------
(***************************************************************************)
(* The Step Functions pack for TLC.  Its parts share no state in this      *)
(* model, so a behaviour exercises one of them, chosen by `focus`.         *)
(***************************************************************************)
EXTENDS StatesService, StatesLanguage

VARIABLE focus

MCState(type, next) ==
  [type |-> type, next |-> next, retry |-> 0, delay |-> FALSE, catch |-> End, choices |-> {},
   n |-> 0, limit |-> 0, distributed |-> FALSE, tolerate |-> 0]

\* A task with delayed retries and a catcher, and a loop through a Choice.
MCTaskMachine ==
  [s \in {"start", "caught", "wait", "ok", "bad"} |->
     CASE s = "start"  -> [MCState("Task", "wait") EXCEPT !.retry = 2, !.delay = TRUE, !.catch = "caught"]
       [] s = "caught" -> [MCState("Choice", End) EXCEPT !.choices = {"start", "bad"}]
       [] s = "wait"   -> MCState("Wait", "ok")
       [] s = "ok"     -> MCState("Succeed", End)
       [] s = "bad"    -> MCState("Fail", End)]
\* An inline Map of three items on two workers, retried at once.
MCMapMachine ==
  [s \in {"start", "last"} |->
     IF s = "start" THEN [MCState("Map", "last") EXCEPT !.n = 3, !.limit = 2, !.retry = 1]
                    ELSE MCState("Pass", End)]
\* A distributed Map that tolerates one failure.
MCDistributedMachine ==
  [s \in {"start", "bad"} |->
     IF s = "start" THEN [MCState("Map", End) EXCEPT !.n = 3, !.distributed = TRUE,
                                                     !.tolerate = 1, !.catch = "bad"]
                    ELSE MCState("Fail", End)]
\* A Parallel whose retries are delayed.
MCParallelMachine ==
  [s \in {"start"} |-> [MCState("Parallel", End) EXCEPT !.n = 2, !.retry = 1, !.delay = TRUE]]
MCMachines == {MCTaskMachine, MCMapMachine, MCDistributedMachine, MCParallelMachine}

MCLetters == {"a", "b", Star, Escape}

allvars == <<focus, sfvars, wkvars, rgvars, lgvars>>

\* There is no walk, when the executions are exercised.
NoWalk ==
  /\ machine = MCParallelMachine /\ express = FALSE /\ cur = "start" /\ hops = 0
  /\ retries = [s \in Names |-> 0] /\ phase = "leave" /\ result = "FAILED" /\ parked = "no"
  /\ kids = NoRows /\ pool = NoRows /\ sender = 0 /\ stopped = FALSE /\ disconnected = FALSE
  /\ attempts = 0 /\ accepted = FALSE

NoLanguage ==
  /\ items = <<>> /\ limits = [count |-> 2, bytes |-> 5]
  /\ taken = 0 /\ current = <<>> /\ batched = <<>> /\ outcome = "ok"
  /\ pattern = <<>> /\ value = <<>> /\ offset = 0 /\ shown = <<>>

MCInit ==
  /\ ExecInit /\ RegistryInit
  /\ \/ focus \in {"executions", "registry", "words"} /\ NoWalk
     \/ focus = "walk" /\ WalkInit
  /\ IF focus = "words" THEN LanguageInit \/ WordsInit ELSE NoLanguage

MCNext ==
  \/ focus = "words" /\ LanguageNext /\ UNCHANGED <<focus, sfvars, wkvars, rgvars>>
  \/ focus = "executions" /\ ExecNext /\ UNCHANGED <<focus, wkvars, rgvars, lgvars>>
  \/ focus = "walk" /\ WalkNext /\ UNCHANGED <<focus, sfvars, rgvars, lgvars>>
  \/ focus = "registry" /\ RegistryNext /\ UNCHANGED <<focus, sfvars, wkvars, lgvars>>

\* ExecFairness and WalkFairness, of the part the behaviour exercises.
MCFairness ==
  /\ WF_allvars(focus = "executions" /\ WorkerSteps /\ UNCHANGED <<focus, wkvars, rgvars, lgvars>>)
  /\ WF_allvars(focus = "executions" /\ ClockTicks /\ UNCHANGED <<focus, wkvars, rgvars, lgvars>>)
  /\ \A p \in Procs :
       WF_allvars(focus = "executions" /\ HandlerSteps(p) /\ UNCHANGED <<focus, wkvars, rgvars, lgvars>>)
  /\ WF_allvars(focus = "walk" /\ WalkSteps /\ UNCHANGED <<focus, sfvars, rgvars, lgvars>>)

MCSpec == MCInit /\ [][MCNext]_allvars /\ MCFairness

\* A due timer of a parked execution fires, and every walk ends or parks,
\* while worker and handlers run and time passes.
StatesProgress == TimersFire /\ WalkEnds
=============================================================================
