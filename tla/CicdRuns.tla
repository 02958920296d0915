------------------------------ MODULE CicdRuns ------------------------------
(***************************************************************************)
(* The in-memory job control of internal/execution/cicd (memory.go) and    *)
(* its callers.  Every method runs under one mutex, so an action is one    *)
(* whole call; what a caller may lose is the answer, after which it calls  *)
(* again with what it knew before.                                         *)
(***************************************************************************)
EXTENDS Tables, Sequences, Integers, FiniteSets
LOCAL INSTANCE SequencesExt
LOCAL INSTANCE Relation

CONSTANTS
  JcCallers,  \* the processes that share the backend
  JcKeys,     \* submission keys, "" (no key) included
  JcMaxCalls  \* bound on calls, so that an idle observer does not call for ever

VARIABLES
  jcSeq,      \* m.seq
  jcByKey,    \* m.byKey: submission key -> backend id
  jcJobs,     \* m.byID: backend id -> job
  jcReceipt,  \* m.receipt: the backend ids that have one
  jcCaller,   \* caller -> the handle, cursor and events it has been told of
  jcCancels,  \* ghost: jobs whose cancel was answered before they had ended
  jcCalls

jcvars == <<jcSeq, jcByKey, jcJobs, jcReceipt, jcCaller, jcCancels, jcCalls>>

NoJob == 0
Fresh == [job |-> NoJob, key |-> "", cursor |-> "", seen |-> <<>>, over |-> FALSE, receipt |-> FALSE]

JcInit ==
  /\ jcSeq = 0 /\ jcByKey = NoRows /\ jcJobs = NoRows /\ jcReceipt = {}
  /\ jcCaller = [c \in JcCallers |-> Fresh]
  /\ jcCancels = {} /\ jcCalls = 0

Call == jcCalls < JcMaxCalls /\ jcCalls' = jcCalls + 1

Accepted == [events |-> <<"accepted">>, cancelReq |-> FALSE, terminal |-> FALSE]

\* A known submission key returns the handle it already has.
Submit(c, key, lost) ==
  /\ Call /\ jcCaller[c].job = NoJob /\ key # ""
  /\ LET known == key \in DOMAIN jcByKey
         id == IF known THEN jcByKey[key] ELSE jcSeq + 1
     IN /\ jcSeq' = IF known THEN jcSeq ELSE id
        /\ jcByKey' = Put(jcByKey, key, id)
        /\ jcJobs' = IF known THEN jcJobs ELSE Put(jcJobs, id, Accepted)
        /\ jcCaller' = IF lost THEN jcCaller ELSE [jcCaller EXCEPT ![c].job = id, ![c].key = key]
  /\ UNCHANGED <<jcReceipt, jcCancels>>

\* The first progress ends the job: cancelled when a cancel was accepted, else completed with a receipt.
ProgressLocked(j) ==
  IF j.terminal THEN j
  ELSE [j EXCEPT !.terminal = TRUE, !.events = Append(@, IF j.cancelReq THEN "cancelled" ELSE "completed")]

\* The events after the one the cursor names; from the start when it names none.
ObservationLocked(j, cursor) ==
  LET at == {i \in DOMAIN j.events : j.events[i] = cursor}
      start == IF cursor = "" \/ at = {} THEN 0 ELSE MinOf(at)
  IN [events |-> SubSeq(j.events, start + 1, Len(j.events)), next |-> Last(j.events)]

\* Observe with the caller's cursor adds to what it has seen; Reconcile asks
\* again from the start, so its answer replaces it.
Observe(c, again, lost) ==
  /\ Call /\ jcCaller[c].job # NoJob
  /\ LET me == jcCaller[c]
         before == jcJobs[me.job]
         j == ProgressLocked(before)
         o == ObservationLocked(j, IF again THEN "" ELSE me.cursor)
         receipts == IF ~before.terminal /\ ~before.cancelReq THEN jcReceipt \union {me.job} ELSE jcReceipt
     IN /\ jcJobs' = [jcJobs EXCEPT ![me.job] = j]
        /\ jcReceipt' = receipts
        /\ jcCaller' =
             IF lost THEN jcCaller
             ELSE [jcCaller EXCEPT
                     ![c].cursor = o.next,
                     ![c].seen = IF again THEN o.events ELSE @ \o o.events,
                     ![c].over = j.terminal,
                     ![c].receipt = j.terminal /\ me.job \in receipts]
  /\ UNCHANGED <<jcSeq, jcByKey, jcCancels>>
\* Mistake: the request to cancel is not kept.
CancelForgotten(c) ==
  /\ Call /\ jcCaller[c].job # NoJob
  /\ LET id == jcCaller[c].job
     IN IF jcJobs[id].terminal THEN UNCHANGED <<jcJobs, jcCancels>>
        ELSE /\ UNCHANGED jcJobs
             /\ jcCancels' = jcCancels \union {id}
  /\ UNCHANGED <<jcSeq, jcByKey, jcReceipt, jcCaller>>

Cancel(c) ==
  /\ Call /\ jcCaller[c].job # NoJob
  /\ LET id == jcCaller[c].job
     IN IF jcJobs[id].terminal THEN UNCHANGED <<jcJobs, jcCancels>>
        ELSE /\ jcJobs' = [jcJobs EXCEPT ![id].cancelReq = TRUE]
             /\ jcCancels' = jcCancels \union {id}
  /\ UNCHANGED <<jcSeq, jcByKey, jcReceipt, jcCaller>>

JcNext ==
  \E c \in JcCallers :
    \/ \E key \in JcKeys, lost \in BOOLEAN : Submit(c, key, lost)
    \/ \E again, lost \in BOOLEAN : Observe(c, again, lost)
    \/ Cancel(c)

(***************************************************************************)
(* Properties                                                              *)
(***************************************************************************)

\* A caller that follows NextCursor, retrying every call whose answer it
\* lost, has seen each event of its job once and in order; when it was told
\* that the job is over it has seen how, and it holds a receipt exactly when
\* the job completed.
FollowersSeeEachEventOnce ==
  \A c \in JcCallers : jcCaller[c].job # NoJob =>
    LET me == jcCaller[c]
        j == jcJobs[me.job]
    IN /\ IsPrefix(me.seen, j.events)
       /\ me.over => me.seen = j.events /\ (me.receipt <=> Last(me.seen) = "completed")

\* However often a submission is repeated, by whomever, one key is one job:
\* two callers hold the same job exactly when they submitted the same key.
OneJobPerKey ==
  \A c, d \in JcCallers :
    jcCaller[c].job # NoJob /\ jcCaller[d].job # NoJob =>
      (jcCaller[c].job = jcCaller[d].job <=> jcCaller[c].key = jcCaller[d].key)

\* A cancel that was accepted before the job ended wins: the job never
\* completes and never has a receipt.
AcceptedCancelWins ==
  \A id \in jcCancels :
    id \notin jcReceipt /\ \A i \in DOMAIN jcJobs[id].events : jcJobs[id].events[i] # "completed"

-----------------------------------------------------------------------------
(***************************************************************************)
(* The executor behind CodePipeline (cicd/codepipeline/exec.go) and the    *)
(* operations of behavior/aws/codepipeline/service.yaml that meet it.      *)
(* Requests that run the executor (start, approval) are served one after   *)
(* the other; StopPipelineExecution may come between any two store         *)
(* operations of one.  The pipeline keeps one table of action states that  *)
(* all its executions share.                                               *)
(***************************************************************************)

CONSTANTS
  CpPipelines,  \* the pipelines to run: sequences of action types, the stages laid end to end
  CpMaxStarts   \* bound on executions

VARIABLES
  cpPipe,     \* [actions, states, latest]: the pipeline record; states = <<>> when there is no stageStates
  cpExecs,    \* execution -> status
  cpReq,      \* the request being served
  cpRuns,     \* ghost: the deployments the current table of states has seen, as a number
  cpApproved  \* ghost: approvals accepted since the states were last cleared

cpvars == <<cpPipe, cpExecs, cpReq, cpRuns, cpApproved>>

Unserved == [pc |-> "idle"]
CpTerminal == {"Succeeded", "Failed", "Stopped", "Abandoned"}

CpInit ==
  /\ cpPipe \in {[actions |-> a, states |-> <<>>, latest |-> 0] : a \in CpPipelines}
  /\ cpExecs = <<>> /\ cpReq = Unserved /\ cpRuns = 0 /\ cpApproved = 0

\* StartPipelineExecution: the execution is put and named as the latest, and
\* then the states of the run before are dropped.
StartPipelineExecution ==
  /\ cpReq.pc = "idle" /\ Len(cpExecs) < CpMaxStarts
  /\ cpExecs' = Append(cpExecs, "InProgress")
  /\ cpPipe' = [cpPipe EXCEPT !.latest = Len(cpExecs')]
  /\ cpReq' = [pc |-> "started", exec |-> Len(cpExecs')]
  /\ UNCHANGED <<cpRuns, cpApproved>>

AfterStart ==
  /\ cpReq.pc = "started"
  /\ cpPipe' = [cpPipe EXCEPT !.states = <<>>]
  /\ cpReq' = [cpReq EXCEPT !.pc = "finalize"]
  /\ cpRuns' = 0 /\ cpApproved' = 0
  /\ UNCHANGED cpExecs

\* PutApprovalResult: a result for an action that is not Pending changes
\* nothing; a request without an execution means the latest one.
PutApprovalResult(named, i, result) ==
  /\ cpReq.pc = "idle" /\ named \in 0..Len(cpExecs) /\ cpPipe.latest # 0
  /\ i \in DOMAIN cpPipe.states /\ cpPipe.states[i] = "Pending"
  /\ LET exec == IF named = 0 THEN cpPipe.latest ELSE named
     IN /\ cpPipe' = [cpPipe EXCEPT !.states[i] = IF result = "Approved" THEN "Succeeded" ELSE "Failed"]
        /\ cpReq' = IF result = "Approved" THEN [pc |-> "finalize", exec |-> exec]
                    ELSE [pc |-> "patch", exec |-> exec, overall |-> "Failed"]
  /\ cpApproved' = IF result = "Approved" THEN cpApproved + 1 ELSE cpApproved
  /\ UNCHANGED <<cpExecs, cpRuns>>

\* runAction: the statuses one action can end with.
RunAction(type) ==
  CASE type = "Source" -> {"Succeeded"}
    [] type = "Approval" -> {"Pending"}
    [] type \in {"CodeBuild", "CodeDeploy"} -> {"Succeeded", "Failed", "InProgress"}
    [] OTHER -> {"InProgress"}

\* Finalize reads the record once and walks its actions: a Succeeded or
\* Failed action of the table is not run again, the first action that did not
\* succeed stops the walk and those after it are InProgress.
FinalizeRead ==
  /\ cpReq.pc = "finalize"
  /\ cpReq' = [pc |-> "walk", exec |-> cpReq.exec, pipe |-> cpPipe, out |-> <<>>,
       overall |-> "Succeeded", stop |-> FALSE]
  /\ UNCHANGED <<cpPipe, cpExecs, cpRuns, cpApproved>>

WalkAction ==
  /\ cpReq.pc = "walk" /\ Len(cpReq.out) < Len(cpReq.pipe.actions)
  /\ LET i == Len(cpReq.out) + 1
         type == cpReq.pipe.actions[i]
         prior == i \in DOMAIN cpReq.pipe.states /\ cpReq.pipe.states[i] \in {"Succeeded", "Failed"}
         ran == ~cpReq.stop /\ ~prior
     IN /\ \E status \in CASE cpReq.stop -> {"InProgress"}
                           [] prior /\ ~cpReq.stop -> {cpReq.pipe.states[i]}
                           [] ran -> RunAction(type) :
             cpReq' = [cpReq EXCEPT
                         !.out = Append(@, status),
                         !.stop = @ \/ status # "Succeeded",
                         !.overall = IF cpReq.stop \/ status = "Succeeded" THEN @
                                     ELSE IF status = "Failed" THEN "Failed" ELSE "InProgress"]
        /\ cpRuns' = IF ran /\ type = "CodeDeploy" THEN cpRuns + 1 ELSE cpRuns
  /\ UNCHANGED <<cpPipe, cpExecs, cpApproved>>

\* The whole record is put back with the new table.
FinalizePut ==
  /\ cpReq.pc = "walk" /\ Len(cpReq.out) = Len(cpReq.pipe.actions)
  /\ cpPipe' = [cpReq.pipe EXCEPT !.states = cpReq.out]
  /\ cpReq' = [pc |-> "patch", exec |-> cpReq.exec, overall |-> cpReq.overall]
  /\ UNCHANGED <<cpExecs, cpRuns, cpApproved>>

\* patchExec: the status is read, and put when it was InProgress.
PatchRead ==
  /\ cpReq.pc = "patch"
  /\ cpReq' = IF cpExecs[cpReq.exec] = "InProgress" THEN [cpReq EXCEPT !.pc = "put"] ELSE Unserved
  /\ UNCHANGED <<cpPipe, cpExecs, cpRuns, cpApproved>>

PatchPut ==
  /\ cpReq.pc = "put"
  /\ cpExecs' = [cpExecs EXCEPT ![cpReq.exec] = cpReq.overall]
  /\ cpReq' = Unserved
  /\ UNCHANGED <<cpPipe, cpRuns, cpApproved>>

\* StopPipelineExecution rewrites only an execution that is InProgress.
StopPipelineExecution(e, status) ==
  /\ e \in DOMAIN cpExecs /\ cpExecs[e] = "InProgress"
  /\ cpExecs' = [cpExecs EXCEPT ![e] = status]
  /\ UNCHANGED <<cpPipe, cpReq, cpRuns, cpApproved>>

CpNext ==
  \/ StartPipelineExecution \/ AfterStart
  \/ \E named \in 0..CpMaxStarts, i \in DOMAIN cpPipe.states, result \in {"Approved", "Rejected"} :
       PutApprovalResult(named, i, result)
  \/ FinalizeRead \/ WalkAction \/ FinalizePut \/ PatchRead \/ PatchPut
  \/ \E e \in DOMAIN cpExecs, status \in {"Stopped", "Abandoned"} : StopPipelineExecution(e, status)

(***************************************************************************)
(* Properties                                                              *)
(***************************************************************************)

\* A pipeline with a manual approval before its deployment deploys only when
\* the approval was given since the last start, and once for it: not when it
\* was rejected, and not again when an approval is repeated or the execution
\* walked anew.
DeploysAreApproved ==
  (\E i, j \in DOMAIN cpPipe.actions : i < j /\ cpPipe.actions[i] = "Approval" /\ cpPipe.actions[j] = "CodeDeploy")
    => cpRuns <= cpApproved

\* Between requests the table of actions is a history of one walk: whatever
\* succeeded comes first, then at most one action that failed, waits or
\* runs, and nothing after it has begun.
WalkedInOrder ==
  cpReq.pc = "idle" =>
    \A i, j \in DOMAIN cpPipe.states :
      i < j /\ cpPipe.states[i] # "Succeeded" => cpPipe.states[j] = "InProgress"

\* An execution that was served and never stopped or resumed agrees with the
\* table its walk left: it is Succeeded only if every action of the pipeline
\* succeeded when no later execution has replaced the table.
SucceededMeansAll ==
  cpReq.pc = "idle" /\ cpPipe.latest # 0 /\ cpExecs[cpPipe.latest] = "Succeeded" =>
    \A i \in DOMAIN cpPipe.actions : i \in DOMAIN cpPipe.states /\ cpPipe.states[i] = "Succeeded"

\* service.yaml: "Only InProgress executions move to Stopped or Abandoned.
\* Terminal executions keep their status."
TerminalExecutionsStay ==
  [][\A e \in DOMAIN cpExecs : cpExecs[e] \in CpTerminal => cpExecs'[e] = cpExecs[e]]_cpvars

-----------------------------------------------------------------------------
(***************************************************************************)
(* The executors behind StartBuild (cicd/codebuild), CreateDeployment      *)
(* (cicd/codedeploy) and StartJob (cicd/amplify): each reads the record    *)
(* the operation stored, runs the commands of its specification, stores    *)
(* what they made and puts the record back in its final state.  A stop     *)
(* may come at any point in between.  How a command ends and what files    *)
(* it leaves is a choice of the environment.                               *)
(***************************************************************************)

CONSTANTS BrSpecs  \* [service, form, phases, finally, needs, keeps]: see the executors

VARIABLES
  brSpec,     \* the job: what its record and its specification say
  brStatus,   \* status of the stored record
  brPc,       \* where the executor stands
  brMain,     \* exit codes of the phase commands run so far
  brFin,      \* exit codes of the finally commands run so far
  brFiles,    \* files in the work directory
  brTarget,   \* codedeploy: what the destination holds
  brBlobs     \* blob store: what was published

brvars == <<brSpec, brStatus, brPc, brMain, brFin, brFiles, brTarget, brBlobs>>

Running(service) ==
  CASE service = "codebuild" -> "IN_PROGRESS" [] service = "amplify" -> "RUNNING" [] service = "codedeploy" -> "InProgress"
Good(service) ==
  CASE service = "codebuild" -> "SUCCEEDED" [] service = "amplify" -> "SUCCEED" [] service = "codedeploy" -> "Succeeded"
Bad(service) == IF service = "codedeploy" THEN "Failed" ELSE "FAILED"
Halted(service) == IF service = "codedeploy" THEN "Stopped" ELSE "STOPPED"

BrInit ==
  /\ brSpec \in BrSpecs
  /\ brStatus = Running(brSpec.service) /\ brPc = "read"
  /\ brMain = <<>> /\ brFin = <<>> /\ brFiles = {} /\ brTarget = {} /\ brBlobs = {}

\* install, pre_build, build and post_build; the lines of an amplify
\* specification; the files and then the hooks of an appspec.
Commands == FlattenSeq(brSpec.phases)

FirstBad(codes) == LET bad == {i \in DOMAIN codes : codes[i] # 0} IN IF bad = {} THEN 0
    ELSE codes[CHOOSE i \in bad : \A j \in bad : i <= j]
\* exit: the first failing command's code, of the phases before the finally block.
Exit == FirstBad(brMain \o brFin)

\* The three Finalize up to the first command: a record that is no longer
\* running is left alone.
Goes(to) == brPc' = IF brStatus = Running(brSpec.service) THEN to ELSE "end"
Reads(service) == brPc = "read" /\ brSpec.service = service /\ UNCHANGED <<brSpec, brStatus, brMain,
    brFin, brBlobs>>

\* CodeBuild: a missing specification fails the build.
CodeBuildFinalize ==
  /\ Reads("codebuild")
  /\ Goes(IF brSpec.form \in {"bad", "none"} THEN "fail" ELSE "run")
  /\ UNCHANGED <<brFiles, brTarget>>

\* Amplify: without a specification the job makes a page of its own.
AmplifyFinalize ==
  /\ Reads("amplify")
  /\ Goes(CASE brSpec.form = "bad" -> "fail" [] brSpec.form = "none" -> "publish" [] OTHER -> "run")
  /\ brFiles' = IF brPc' = "publish" THEN {"index.html"} ELSE brFiles
  /\ UNCHANGED brTarget

\* CodeDeploy: without one the page goes to the destination.
CodeDeployFinalize ==
  /\ Reads("codedeploy")
  /\ Goes(CASE brSpec.form = "bad" -> "fail" [] brSpec.form = "none" -> "good" [] OTHER -> "run")
  /\ brTarget' = IF brPc' = "good" THEN {"index.html"} ELSE brTarget
  /\ UNCHANGED brFiles

\* Phase commands in order until one fails.  Only a buildspec that got an
\* exit code goes on to its finally block: a command that could not be
\* started ends everything, as any failure does in the other forms.
RunPhaseCommand(code, made) ==
  /\ brPc = "run" /\ Exit = 0 /\ Len(brMain) < Len(Commands)
  /\ brMain' = Append(brMain, code)
  /\ brFiles' = brFiles \union made
  /\ brTarget' = IF Commands[Len(brMain) + 1] = "copy" /\ code = 0 THEN brTarget \union {"copied"}
       ELSE brTarget
  /\ brPc' = IF code = -1 \/ (code > 0 /\ brSpec.form # "buildspec") THEN "fail" ELSE "run"
  /\ UNCHANGED <<brSpec, brStatus, brFin, brBlobs>>

PhasesOver == brPc = "run" /\ (Exit # 0 \/ Len(brMain) = Len(Commands))

RunFinallyCommand(code, made) ==
  /\ PhasesOver /\ Len(brFin) < brSpec.finally
  /\ brFin' = Append(brFin, code)
  /\ brFiles' = brFiles \union made
  /\ brPc' = IF code = -1 THEN "fail" ELSE "run"
  /\ UNCHANGED <<brSpec, brStatus, brMain, brTarget, brBlobs>>

\* After the last command a good run checks the files its artifacts name.
RunOver ==
  /\ PhasesOver /\ Len(brFin) = brSpec.finally
  /\ brPc' = IF Exit = 0 /\ ~(brSpec.needs \subseteq brFiles) THEN "fail" ELSE "publish"
  /\ UNCHANGED <<brSpec, brStatus, brMain, brFin, brFiles, brTarget, brBlobs>>

\* A build publishes whatever files there are, also after a failed run, when
\* its record keeps artifacts, and fails when there are none.
PublishArtifacts ==
  /\ brPc = "publish" /\ brSpec.service = "codebuild"
  /\ brBlobs' = IF brSpec.keeps THEN brFiles ELSE {}
  /\ brPc' = IF Exit # 0 \/ (brSpec.keeps /\ brFiles = {}) THEN "fail" ELSE "good"
  /\ UNCHANGED <<brSpec, brStatus, brMain, brFin, brFiles, brTarget>>

\* A job publishes its page after a good run; a deployment has nothing to publish.
PublishPage ==
  /\ brPc = "publish" /\ brSpec.service # "codebuild"
  /\ brBlobs' = IF brSpec.service = "amplify" /\ Exit = 0 THEN brFiles \intersect {"index.html"} ELSE {}
  /\ brPc' = IF Exit # 0 THEN "fail" ELSE "good"
  /\ UNCHANGED <<brSpec, brStatus, brMain, brFin, brFiles, brTarget>>

\* The record read at the start is put back with its final status.
PatchTerminal ==
  /\ brPc \in {"good", "fail"}
  /\ brStatus' = IF brPc = "good" THEN Good(brSpec.service) ELSE Bad(brSpec.service)
  /\ brPc' = "end"
  /\ UNCHANGED <<brSpec, brMain, brFin, brFiles, brTarget, brBlobs>>

\* StopBuild leaves a finished build alone; StopDeployment does not look.
StopRecord ==
  /\ brSpec.service # "amplify"
  /\ brSpec.service = "codebuild" => brStatus = Running("codebuild")
  /\ brStatus' = Halted(brSpec.service)
  /\ UNCHANGED <<brSpec, brPc, brMain, brFin, brFiles, brTarget, brBlobs>>

BrNext ==
  \/ CodeBuildFinalize \/ AmplifyFinalize \/ CodeDeployFinalize
  \/ \E code \in -1..2, made \in {{}, {"index.html"}} : RunPhaseCommand(code,
       made) \/ RunFinallyCommand(code, made)
  \/ RunOver \/ PublishArtifacts \/ PublishPage \/ PatchTerminal \/ StopRecord

(***************************************************************************)
(* Properties                                                              *)
(***************************************************************************)

\* A job is reported good only if every command of its specification ran,
\* none failed, the finally block's included, every file its artifacts name
\* is there, and a build that keeps artifacts has stored them.
GoodMeansAllRan ==
  brStatus = Good(brSpec.service) =>
    /\ Len(brMain) = Len(Commands) /\ Len(brFin) = brSpec.finally
    /\ \A i \in DOMAIN brMain : brMain[i] = 0
    /\ \A i \in DOMAIN brFin : brFin[i] = 0
    /\ brSpec.needs \subseteq brFiles
    /\ brSpec.service = "codebuild" /\ brSpec.keeps => brBlobs # {}

\* A buildspec whose commands could all be started runs its whole finally
\* block before its record is final, and a phase that failed is the last one:
\* nothing of the later phases has run.
FinallyAlwaysRuns ==
  brSpec.form = "buildspec" /\ brPc \in {"publish", "good", "fail", "end"} /\ brMain # <<>> =>
    /\ (\A i \in DOMAIN brMain : brMain[i] # -1) /\ (\A i \in DOMAIN brFin : brFin[i] # -1) => Len(brFin) = brSpec.finally
    /\ \A i \in DOMAIN brMain : brMain[i] # 0 => i = Len(brMain)

\* behavior/aws/codebuild/service.yaml: "Terminal builds
\* (SUCCEEDED/FAILED/STOPPED) return unchanged": a build that was stopped
\* stays STOPPED.
StoppedBuildStays == [][brSpec.service = "codebuild" /\ brStatus = "STOPPED" => brStatus' = "STOPPED"]_brvars

-----------------------------------------------------------------------------
(***************************************************************************)
(* The local runners of six pipeline dialects: GitHub Actions, GitLab CI,  *)
(* Bitbucket Pipelines, Cloud Build, Azure Pipelines (a list of jobs) and  *)
(* Cloudflare CI (a tree of runners, without its cache).  What a script    *)
(* does is its exit code; jobs are numbered in the order of their names.   *)
(***************************************************************************)

CONSTANTS
  PdCases,   \* pipelines: [dialect, listed, needs, manual, allowed, out, stage, matrix]
  PdTrees    \* runner trees: id -> [children, then], 1 the root

VARIABLES
  pdCase,    \* the pipeline being run
  pdLeft,    \* jobs still to be looked at
  pdJobs,    \* job -> its status, once it has one
  pdStatus,  \* overall status so far
  pdHalt,    \* bitbucket: blocked; azure: returned
  pdCells,   \* cells of the job at hand that have ended, with their results
  pdTree,    \* cloudflare: a tree of runners
  pdResult   \* cloudflare: what a run of it reports

pdvars == <<pdCase, pdLeft, pdJobs, pdStatus, pdHalt, pdCells, pdTree, pdResult>>

(***************************************************************************)
(* The order of the jobs                                                   *)
(***************************************************************************)

\* topoJobs: a depth-first visit in name order; marks 1 (visiting) and 2 (done).
RECURSIVE Visit(_, _, _)
Visit(needs, n, acc) ==
  IF acc.err THEN acc
  ELSE IF n \in DOMAIN acc.seen /\ acc.seen[n] = 2 THEN acc
  ELSE IF n \in DOMAIN acc.seen \/ n \notin DOMAIN needs THEN [acc EXCEPT !.err = TRUE]
  ELSE LET below == FoldLeft(LAMBDA a, d : Visit(needs, d, a), [acc EXCEPT !.seen = Put(@, n, 1)],
      SetToSortSeq(needs[n], <))
       IN IF below.err THEN below
          ELSE [below EXCEPT !.seen = Put(@, n, 2), !.order = Append(@, n)]

TopoJobs(needs) ==
  FoldLeft(LAMBDA a, n : Visit(needs, n, a), [seen |-> NoRows, order |-> <<>>, err |-> FALSE],
           SetToSortSeq(DOMAIN needs, <))

\* GitLab: by stage, then by name.
StageOrder(case) ==
  SetToSortSeq(DOMAIN case.needs, LAMBDA a,
      b : case.stage[a] < case.stage[b] \/ (case.stage[a] = case.stage[b] /\ a < b))

\* expandMatrix: the product of the axes and the rows of include, without the
\* excluded; one plain cell when nothing is left.
ExpandMatrix(m) ==
  LET product == IF DOMAIN m.axes = {} THEN {}
      ELSE {f \in [DOMAIN m.axes -> UNION {m.axes[k] : k \in DOMAIN m.axes}] :
                                                       \A k \in DOMAIN m.axes : f[k] \in m.axes[k]}
      excluded(cell) == \E e \in m.exclude : DOMAIN e # {} /\ \A k \in DOMAIN e : k \in DOMAIN cell /\ cell[k] = e[k]
      kept == {c \in product \union m.include : ~excluded(c)}
  IN IF kept = {} THEN {NoRows} ELSE kept

Order(case) ==
  CASE case.dialect = "github" -> TopoJobs(case.needs).order
    [] case.dialect = "gitlab" -> StageOrder(case)
    [] OTHER -> case.listed

Refused(case) == case.dialect = "github" /\ TopoJobs(case.needs).err

PdInit ==
  /\ pdCase \in PdCases
  /\ pdLeft = IF Refused(pdCase) THEN <<>> ELSE Order(pdCase)
  /\ pdStatus = IF Refused(pdCase) THEN "error" ELSE "succeeded"
  /\ pdJobs = NoRows /\ pdHalt = FALSE /\ pdCells = NoRows
  /\ pdTree \in (IF pdCase.dialect = "cloudflare" THEN PdTrees ELSE {NoRows}) /\ pdResult = <<>>

(***************************************************************************)
(* One job, as each runner's loop treats it                                *)
(***************************************************************************)
Ok(j) == j \in DOMAIN pdJobs /\ pdJobs[j] = "succeeded"
NeedsOk(j) == \A d \in pdCase.needs[j] : Ok(d)
Waits(j) == j \in pdCase.manual /\ j \notin pdCase.allowed

Ends(j, status, overall, halt) ==
  /\ pdJobs' = Put(pdJobs, j, status)
  /\ pdStatus' = overall /\ pdHalt' = halt
  /\ pdLeft' = Tail(pdLeft) /\ pdCells' = NoRows
  /\ UNCHANGED <<pdCase, pdTree, pdResult>>

\* Why a job does not run: it is not selected, waits for nobody's approval, a
\* need has not succeeded, or the pipeline has already stopped.
GithubNotRun(j, why) == why = "skipped" /\ ~NeedsOk(j)
CloudBuildNotRun(j, why) == why = "skipped" /\ ~NeedsOk(j)
GitlabNotRun(j, why) ==
  \/ why = "selected-out" /\ j \in pdCase.out
  \/ why = "skipped" /\ j \notin pdCase.out /\ ~NeedsOk(j)
  \/ why = "blocked" /\ j \notin pdCase.out /\ NeedsOk(j) /\ Waits(j)
BitbucketNotRun(j, why) == (why = "skipped" /\ pdHalt) \/ (why = "blocked" /\ ~pdHalt /\ Waits(j))
AzureNotRun(j, why) == why = "blocked" /\ ~pdHalt /\ Waits(j)
NotRun(j, why) ==
  CASE pdCase.dialect = "github" -> GithubNotRun(j, why)
    [] pdCase.dialect = "gcb" -> CloudBuildNotRun(j, why)
    [] pdCase.dialect = "gitlab" -> GitlabNotRun(j, why)
    [] pdCase.dialect = "bitbucket" -> BitbucketNotRun(j, why)
    [] pdCase.dialect = "azure" -> AzureNotRun(j, why)

PassOver ==
  /\ pdLeft # <<>> /\ pdCells = NoRows
  /\ \E why \in {"selected-out", "skipped", "blocked"} :
       /\ NotRun(Head(pdLeft), why)
       /\ Ends(Head(pdLeft), why,
               CASE why = "selected-out" -> pdStatus
                 [] why = "skipped" ->
                      (IF pdCase.dialect = "bitbucket" \/ (pdCase.dialect = "gitlab" /\ pdStatus # "succeeded")
                       THEN pdStatus ELSE "failed")
                 [] why = "blocked" -> "blocked",
               pdHalt \/ (why = "blocked" /\ pdCase.dialect \in {"bitbucket", "azure"}))

\* The Azure runner returns at the first job that is blocked or fails.
Returned == pdCase.dialect = "azure" /\ pdHalt
Runs(j) == ~Returned /\ ~(\E why \in {"selected-out", "skipped", "blocked"} : NotRun(j, why))

\* One cell of the job's matrix; the other dialects have one cell.  A cell
\* that fails does not keep the next ones from running.
RunCell(good) ==
  /\ pdLeft # <<>> /\ Runs(Head(pdLeft))
  /\ \E c \in ExpandMatrix(pdCase.matrix) \ DOMAIN pdCells : pdCells' = Put(pdCells, c, good)
  /\ UNCHANGED <<pdCase, pdLeft, pdJobs, pdStatus, pdHalt, pdTree, pdResult>>

EndJob ==
  /\ pdLeft # <<>> /\ pdCells # NoRows /\ DOMAIN pdCells = ExpandMatrix(pdCase.matrix)
  /\ LET good == \A c \in DOMAIN pdCells : pdCells[c]
     IN Ends(Head(pdLeft), IF good THEN "succeeded" ELSE "failed", IF good THEN pdStatus ELSE "failed",
             pdHalt \/ (~good /\ pdCase.dialect \in {"bitbucket", "azure"}))

(***************************************************************************)
(* Cloudflare CI                                                           *)
(***************************************************************************)

\* runNode: a node whose parent failed is reported as skipped with all below
\* it; its children depend on it, its then-nodes on it and its children.
RECURSIVE RunNode(_, _, _, _, _)
RunNode(tree, good, n, parentOk, out) ==
  LET mine == Append(out, [name |-> n, ran |-> parentOk, ok |-> parentOk /\ n \in good])
      kids(acc, list, go) == FoldLeft(LAMBDA o, c : RunNode(tree, good, c, go, o), acc, list)
      ok == parentOk /\ n \in good
      below == kids(mine, tree[n].children, ok)
      kidsOk == ok /\ \A i \in DOMAIN below : (\E c \in ToSet(tree[n].children) : below[i].name = c) => below[i].ok
  IN kids(below, tree[n].then, kidsOk)

RunTree(good) ==
  /\ pdCase.dialect = "cloudflare" /\ pdResult = <<>>
  /\ pdResult' = RunNode(pdTree, good, 1, TRUE, <<>>)
  /\ UNCHANGED <<pdCase, pdLeft, pdJobs, pdStatus, pdHalt, pdCells, pdTree>>

PdNext ==
  \/ PassOver \/ EndJob
  \/ \E good \in BOOLEAN : RunCell(good)
  \/ \E good \in SUBSET DOMAIN pdTree : RunTree(good)

(***************************************************************************)
(* Properties                                                              *)
(***************************************************************************)

\* GitHub, GitLab and Cloud Build run a job only after every job it needs
\* has succeeded, in whatever order jobs are declared; a workflow with a
\* cycle or an unknown need is refused, and only such a workflow.
NeedsComeFirst ==
  /\ \A j \in DOMAIN pdJobs :
       pdCase.dialect \in {"github", "gitlab", "gcb"} /\ pdJobs[j] \in {"succeeded", "failed"} => NeedsOk(j)
  /\ pdCase.dialect = "github" =>
       LET nodes == DOMAIN pdCase.needs \union UNION {pdCase.needs[j] : j \in DOMAIN pdCase.needs}
           edges == [p \in nodes \X nodes |-> p[1] \in DOMAIN pdCase.needs /\ p[2] \in pdCase.needs[p[1]]]
       IN Refused(pdCase) <=>
            \/ nodes # DOMAIN pdCase.needs
            \/ \E n \in nodes : TransitiveClosure(edges, nodes)[n, n]

\* A pipeline reports that it succeeded only if every job that was selected
\* ran and succeeded; in the two dialects that stop, what succeeded comes
\* before what did not.
SucceededMeansAllJobs ==
  /\ pdLeft = <<>> /\ pdStatus = "succeeded" =>
       \A j \in DOMAIN pdCase.needs : pdJobs[j] \in {"succeeded", "selected-out"}
  /\ pdCase.dialect \in {"bitbucket", "azure"} =>
       \A i, j \in DOMAIN pdCase.listed :
         i < j /\ Ok(pdCase.listed[j]) => Ok(pdCase.listed[i])

\* Every runner of a tree is reported once; a runner starts exactly when the runner it hangs from
\* succeeded and, for a then-runner, that one's children too.
TreeRunsByDependency ==
  pdResult # <<>> =>
    LET okOf == {pdResult[i].name : i \in {k \in DOMAIN pdResult : pdResult[k].ok}}
        ranOf == {pdResult[i].name : i \in {k \in DOMAIN pdResult : pdResult[k].ran}}
    IN /\ ToSet([i \in DOMAIN pdResult |-> pdResult[i].name]) = DOMAIN pdTree /\ Len(pdResult) = Cardinality(DOMAIN pdTree)
       /\ \A p \in DOMAIN pdTree :
            /\ \A c \in ToSet(pdTree[p].children) : c \in ranOf <=> p \in okOf
            /\ \A t \in ToSet(pdTree[p].then) :
                 t \in ranOf <=> p \in okOf /\ ToSet(pdTree[p].children) \subseteq okOf

\* Runs of the job control, the pipelines, the builds and the provider
\* dialects: an accepted cancel wins over the completion it races, a stage
\* deploys only once approved, phases, jobs and stages run in the order and
\* under the conditions their definition gives, and success means that all of
\* them ran.
CicdRunsHold ==
  /\ FollowersSeeEachEventOnce /\ OneJobPerKey /\ AcceptedCancelWins
  /\ DeploysAreApproved /\ WalkedInOrder /\ SucceededMeansAll
  /\ GoodMeansAllRan /\ FinallyAlwaysRuns /\ NeedsComeFirst
  /\ SucceededMeansAllJobs /\ TreeRunsByDependency
=============================================================================
