------------------------------- MODULE MCControl ----------------------------
(***************************************************************************)
(* Jobs, builds, pipelines and deployments, and requests to one engine,    *)
(* for TLC: the parts in which callers wait for each other.  They share no *)
(* state here: a behaviour exercises one of them, chosen by `focus`.       *)
(***************************************************************************)
EXTENDS CicdRuns, Backends, EngineRequests

VARIABLE focus

jobvars == <<jcvars, cpvars, brvars, chvars, xbvars, pdvars, dpvars>>
controlvars == <<focus, jobvars, ervars>>

(***************************************************************************)
(* Values of the constants                                                 *)
(***************************************************************************)
MCPipelines ==
  {<<"Source", "CodeBuild", "Approval", "CodeDeploy">>, <<"Source", "Approval", "CodeDeploy",
      "Approval", "CodeDeploy">>,
   <<"Source", "Lambda">>}

Job(service, form, phases, finally, needs, keeps) ==
  [service |-> service, form |-> form, phases |-> phases, finally |-> finally, needs |-> needs,
      keeps |-> keeps]
Shell == <<<<"sh">>, <<"sh", "sh">>>>
MCBuilds ==
  {Job(s, f, <<>>, 0, {}, FALSE) : s \in {"codebuild", "amplify", "codedeploy"}, f \in {"none", "bad"}}
  \union {Job("codebuild", "buildspec", Shell, n, needs, needs = {}) : n \in {1, 2},
      needs \in {{}, {"index.html"}}}
  \union {Job("amplify", "buildspec", Shell, 1, {}, FALSE), Job("amplify", "lines", Shell, 0, {}, FALSE),
          Job("codedeploy", "appspec", <<<<"copy", "copy">>, <<"sh">>>>, 0, {}, FALSE)}

Plain == [axes |-> NoRows, include |-> {}, exclude |-> {}]
TwoCells == [axes |-> [k \in {"os"} |-> {1, 2}], include |-> {[k \in {"os"} |-> 3]},
    exclude |-> {[k \in {"os"} |-> 2]}]
Three(x) == [j \in 1..3 |-> x]
Pipeline(dialect, needs, manual, out, stage, matrix) ==
  [dialect |-> dialect, listed |-> <<2, 1, 3>>, needs |-> needs, manual |-> manual, allowed |-> {2},
      out |-> out,
   stage |-> stage, matrix |-> matrix]
MCCases ==
  {Pipeline("github", needs, {}, {}, Three(1), Plain) : needs \in [1..3 -> {{}, {1}, {2}, {3},
      {1, 3}, {2, 4}}]}
  \union {Pipeline("github", [Three({}) EXCEPT ![1] = {3}], {}, {}, Three(1), TwoCells)}
  \union {Pipeline("gcb", needs, {}, {}, Three(1), Plain) : needs \in [1..3 -> {{}, {1}, {2, 3}}]}
  \union {Pipeline("gitlab", needs, manual, out, stage, Plain) :
            needs \in [1..3 -> {{}, {1}, {2}}], manual \in {{}, {1, 2}}, out \in {{}, {3}},
            stage \in {Three(1), [Three(1) EXCEPT ![1] = 2]}}
  \union {Pipeline(d, Three({}), manual, {}, Three(1), Plain) : d \in {"bitbucket", "azure"},
      manual \in {{}, {1}, {2, 3}}}
  \union {[Pipeline("cloudflare", NoRows, {}, {}, Three(1), Plain) EXCEPT !.listed = <<>>]}
Runner(children, then) == [children |-> children, then |-> then]
MCTrees ==
  {[n \in 1..6 |-> CASE n = 1 -> Runner(<<2, 3>>, <<4>>) [] n = 2 -> Runner(<<5>>,
      <<6>>) [] OTHER -> Runner(<<>>, <<>>)],
   [n \in 1..5 |-> CASE n = 1 -> Runner(<<2>>, <<3>>) [] n = 3 -> Runner(<<4>>,
       <<5>>) [] OTHER -> Runner(<<>>, <<>>)]}

Asked(k, n, t, b) == [kind |-> k, name |-> n, token |-> t, bad |-> b]
Batch(entries) == [batch |-> TRUE, entries |-> entries]
MCRequests ==
  [a |-> Batch(<<Asked("create", "x", "", FALSE), Asked("send", "", "t", FALSE)>>),
   c |-> Batch(<<Asked("send", "", "t", TRUE), Asked("send", "", "t", FALSE)>>),
   d |-> Batch(<<Asked("create", "x", "", FALSE), Asked("delete", "x", "", FALSE),
       Asked("create", "y", "", FALSE)>>)]

(***************************************************************************)
(* The specification                                                       *)
(***************************************************************************)
Foci == {"jobs", "pipeline", "build", "child", "backend", "dialect", "deploy", "requests"}
One(S) == {CHOOSE x \in S : TRUE}
Of(f, S) == IF focus = f THEN S ELSE One(S)

MCInit ==
  /\ focus \in Foci
  /\ cpPipe \in Of("pipeline", {[actions |-> a, states |-> <<>>, latest |-> 0] : a \in CpPipelines})
  /\ brSpec \in Of("build", BrSpecs)
  /\ chKind \in Of("child", ChKinds) /\ dpKind \in Of("deploy", DpKinds)
  /\ pdCase \in (IF focus = "dialect" THEN PdCases ELSE One({c \in PdCases : c.dialect = "azure"}))
  /\ JcInit /\ CpInit /\ BrInit /\ ChInit /\ XbInit /\ PdInit /\ DpInit
  /\ ErInit

On(f) == focus = f /\ UNCHANGED focus
JobStep ==
  \/ On("jobs") /\ JcNext /\ UNCHANGED <<cpvars, brvars, chvars, xbvars, pdvars, dpvars>>
  \/ On("pipeline") /\ CpNext /\ UNCHANGED <<jcvars, brvars, chvars, xbvars, pdvars, dpvars>>
  \/ On("build") /\ BrNext /\ UNCHANGED <<jcvars, cpvars, chvars, xbvars, pdvars, dpvars>>
  \/ On("child") /\ ChNext /\ UNCHANGED <<jcvars, cpvars, brvars, xbvars, pdvars, dpvars>>
  \/ On("backend") /\ XbNext /\ UNCHANGED <<jcvars, cpvars, brvars, chvars, pdvars, dpvars>>
  \/ On("dialect") /\ PdNext /\ UNCHANGED <<jcvars, cpvars, brvars, chvars, xbvars, dpvars>>
  \/ On("deploy") /\ DpNext /\ UNCHANGED <<jcvars, cpvars, brvars, chvars, xbvars, pdvars>>
MCNext ==
  \/ JobStep /\ UNCHANGED ervars
  \/ On("requests") /\ ErNext /\ UNCHANGED jobvars

\* A child process is waited for, and a request that holds the lock or can have
\* it goes on.
Progress(r) ==
  \/ On("child") /\ ChProgress /\ UNCHANGED <<jcvars, cpvars, brvars, xbvars, pdvars, dpvars, ervars>>
  \/ On("requests") /\ ErStep(r) /\ UNCHANGED jobvars
MCSpec ==
  /\ MCInit /\ [][MCNext]_controlvars
  /\ \A r \in DOMAIN MCRequests : WF_controlvars(Progress(r))

\* Requests of the engine: creations never overwrite, counters never repeat, a
\* refused request writes nothing, a repeated one gets the first answer and a
\* batch answers each of its entries.
AnsweredIsDone ==
  /\ CreatesNeverOverwrite /\ NumbersAreDistinct /\ RefusedWritesNothing
  /\ DuplicatesAnswerAlike /\ BatchesAnswerEveryEntry

\* Closing a process returns and every request is answered: no lock is kept on
\* a path out.
ControlProgress == CallsReturn /\ RequestsAreAnswered
=============================================================================
