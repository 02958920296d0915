------------------------------ MODULE Backends ------------------------------
(***************************************************************************)
(* The child processes the emulator starts: a worker of                    *)
(* internal/execution/process (process.go) and the Miniflare helper of     *)
(* internal/execution (miniflare.go).  One child, the call of Start that   *)
(* made it, and the callers of Close and Kill.  The child may be ready     *)
(* late or never, may exit by itself, and may ignore every request to      *)
(* stop except SIGKILL.                                                    *)
(***************************************************************************)
EXTENDS Tables, Naturals, Sequences, FiniteSets

CONSTANTS
  ChKinds,    \* {"process", "miniflare"}, or one of them
  ChClosers   \* the callers of Close

\* "" stands for nobody, as the holder of a mutex.
ASSUME ChAssumption == ChKinds \subseteq {"process", "miniflare"} /\ "" \notin ChClosers

VARIABLES
  chKind,
  chProc,    \* "none", "starting", "ready", "dead" (exited and waited for)
  chKilled,  \* SIGKILL was sent
  chStart,   \* where Start stands
  chClosed,  \* p.closed, s.closed
  chMu,      \* who holds the session's mutex; "" when it is free
  chPc       \* closer -> where its Close stands

chvars == <<chKind, chProc, chKilled, chStart, chClosed, chMu, chPc>>

ChInit ==
  /\ chKind \in ChKinds
  /\ chProc = "none" /\ chKilled = FALSE /\ chStart = "idle"
  /\ chClosed = FALSE /\ chMu = "" /\ chPc = [c \in ChClosers |-> "idle"]

(***************************************************************************)
(* The child                                                               *)
(***************************************************************************)
ChildReady == chProc = "starting" /\ ~chKilled /\ chProc' = "ready" /\ UNCHANGED <<chKind, chKilled,
    chStart, chClosed, chMu, chPc>>
ChildExits == chProc \in {"starting", "ready"} /\ chProc' = "dead" /\ UNCHANGED <<chKind, chKilled,
    chStart, chClosed, chMu, chPc>>

(***************************************************************************)
(* Start                                                                   *)
(***************************************************************************)
StartChild ==
  /\ chStart = "idle" /\ chStart' = "waiting" /\ chProc' = "starting"
  /\ UNCHANGED <<chKind, chKilled, chClosed, chMu, chPc>>

\* waitReady, or the ready line followed by an authenticated describe.
ReadySeen ==
  /\ chStart = "waiting" /\ chProc = "ready"
  /\ chStart' = IF chKind = "process" THEN "ok" ELSE "describe"
  /\ UNCHANGED <<chKind, chProc, chKilled, chClosed, chMu, chPc>>
\* Mistake: Start returns without waiting for the child.
NotReadyUnreaped ==
  /\ chStart = "waiting"
  /\ chKilled' = TRUE /\ chStart' = "failed"
  /\ chClosed' = (chClosed \/ chKind = "process")
  /\ UNCHANGED <<chKind, chProc, chMu, chPc>>

\* The deadline, an exit before readiness or a bad ready line: the child is
\* killed and waited for before Start returns its error.
NotReady ==
  /\ chStart = "waiting"
  /\ chKilled' = TRUE /\ chStart' = "reaping"
  /\ chClosed' = (chClosed \/ chKind = "process")
  /\ UNCHANGED <<chKind, chProc, chMu, chPc>>

ReapFailedStart ==
  /\ chStart = "reaping" /\ chProc = "dead" /\ chStart' = "failed"
  /\ UNCHANGED <<chKind, chProc, chKilled, chClosed, chMu, chPc>>

\* A describe that fails is followed by a Close of the session.
DescribeSession(good) ==
  /\ chStart = "describe"
  /\ good => chProc = "ready"
  /\ chStart' = IF good THEN "ok" ELSE "closing"
  /\ UNCHANGED <<chKind, chProc, chKilled, chClosed, chMu, chPc>>

(***************************************************************************)
(* Close: of a worker, the first caller cancels the context, which kills   *)
(* the child, and waits for it, and a later caller returns at once; of the *)
(* helper, under the session's mutex: ask, then SIGTERM, then SIGKILL.     *)
(***************************************************************************)
CloseProcess(c) ==
  /\ chKind = "process" /\ chStart = "ok" /\ chPc[c] = "idle"
  /\ IF chClosed THEN chPc' = [chPc EXCEPT ![c] = "returned early"] /\ UNCHANGED <<chClosed, chKilled>>
     ELSE chClosed' = TRUE /\ chKilled' = TRUE /\ chPc' = [chPc EXCEPT ![c] = "wait"]
  /\ UNCHANGED <<chKind, chProc, chStart, chMu>>

CloseProcessDone(c) ==
  /\ chKind = "process" /\ chPc[c] = "wait" /\ chProc = "dead"
  /\ chPc' = [chPc EXCEPT ![c] = "returned"]
  /\ UNCHANGED <<chKind, chProc, chKilled, chStart, chClosed, chMu>>

\* Close holds the mutex for all of its stages; so does Kill.
CallClose(c, kill) ==
  /\ chKind = "miniflare" /\ chStart = "ok" /\ chPc[c] = "idle" /\ chMu = ""
  /\ IF chClosed /\ ~kill THEN chPc' = [chPc EXCEPT ![c] = "returned"] /\ UNCHANGED <<chClosed,
       chKilled, chMu>>
     ELSE /\ chClosed' = TRUE /\ chMu' = c
          /\ chKilled' = (chKilled \/ kill)
          /\ chPc' = [chPc EXCEPT ![c] = IF kill THEN "kill" ELSE "polite"]
  /\ UNCHANGED <<chKind, chProc, chStart>>

\* Each stage ends when the child is gone, or with its time.
CloseStage(c) ==
  /\ chKind = "miniflare" /\ chPc[c] \in {"polite", "term", "kill"}
  /\ \/ chProc = "dead" /\ chPc' = [chPc EXCEPT ![c] = "returned"] /\ chMu' = "" /\ UNCHANGED chKilled
     \/ /\ chProc # "dead" /\ chPc[c] # "kill"
        /\ chPc' = [chPc EXCEPT ![c] = IF @ = "polite" THEN "term" ELSE "kill"]
        /\ chKilled' = (chKilled \/ chPc[c] = "term")
        /\ UNCHANGED chMu
  /\ UNCHANGED <<chKind, chProc, chStart, chClosed>>

\* The Close of a start whose describe failed.
StartCloses ==
  /\ chStart = "closing"
  /\ \/ chProc = "dead" /\ chStart' = "failed" /\ UNCHANGED chKilled
     \/ chProc # "dead" /\ chStart' = "closing" /\ chKilled' = TRUE
  /\ chClosed' = TRUE
  /\ UNCHANGED <<chKind, chProc, chMu, chPc>>

ChNext ==
  \/ ChildReady \/ ChildExits \/ StartChild \/ ReadySeen \/ NotReady \/ ReapFailedStart
  \/ \E good \in BOOLEAN : DescribeSession(good)
  \/ StartCloses
  \/ \E c \in ChClosers : CloseProcess(c) \/ CloseProcessDone(c) \/ CloseStage(c)
  \/ \E c \in ChClosers, kill \in BOOLEAN : CallClose(c, kill)
ChSpec == ChInit /\ [][ChNext]_chvars

\* What must go on: the caller's own steps, the timers, and the end of a
\* child that got SIGKILL.  Nothing is assumed of a child that did not.
ChProgress ==
  \/ chKilled /\ ChildExits
  \/ ReadySeen \/ NotReady \/ ReapFailedStart \/ StartCloses
  \/ \E good \in BOOLEAN : DescribeSession(good)
  \/ \E c \in ChClosers : CloseProcessDone(c) \/ CloseStage(c)

(***************************************************************************)
(* Properties                                                              *)
(***************************************************************************)

\* No orphan survives: a Start that failed left no child behind, and neither
\* did a Close that returned, whoever called it.  (process.go only promises
\* this to the caller that closed first.)
NoOrphans ==
  /\ chStart = "failed" => chProc = "dead"
  /\ \A c \in ChClosers : chPc[c] = "returned" => chProc = "dead"

\* Start and Close end whatever the child does: one that never gets ready,
\* or ignores the polite close and SIGTERM, is killed.
CallsReturn ==
  /\ chStart \in {"waiting", "describe", "closing", "reaping"} ~> chStart \in {"ok", "failed"}
  /\ \A c \in ChClosers : chPc[c] # "idle" ~> chPc[c] \in {"returned", "returned early"}

-----------------------------------------------------------------------------
(***************************************************************************)
(* The execution boundary: the registry that validates a request before    *)
(* its backend sees it (execution.go), the native key-value backend        *)
(* (native_kv.go) and the wrapper that binds a resource to the Miniflare   *)
(* session before its first use (ensuring.go).                             *)
(***************************************************************************)

CONSTANTS
  XbKeys,      \* keys of one namespace
  XbNames,     \* resources an action may need bound
  XbCallers,   \* concurrent callers of the wrapper
  XbMaxTime    \* bound on the clock, in seconds

ASSUME XbAssumption == XbMaxTime \in Nat \ {0}

VARIABLES
  xbKv,        \* native backend: key -> [value, expiration], expiration 0 when there is none
  xbNow,
  xbLast,      \* the last request and its answer
  xbPromise,   \* ghost: key -> the value put last and the instant it ends, Endless when never
  xbKnown,     \* e.kv, e.d1, ...: the names recorded as bound
  xbApplied,   \* the session: the names of the graph it applied last
  xbCaller,    \* caller -> where its Execute stands
  xbFailed     \* ghost: some Apply failed

xbvars == <<xbKv, xbNow, xbLast, xbPromise, xbKnown, xbApplied, xbCaller, xbFailed>>

Endless == XbMaxTime + 10
Nothing == [action |-> "", key |-> "", class |-> "", value |-> ""]
XbInit ==
  /\ xbKv = NoRows /\ xbNow = 1 /\ xbLast = Nothing /\ xbPromise = NoRows
  /\ xbKnown = {} /\ xbApplied = {} /\ xbFailed = FALSE
  /\ xbCaller = [c \in XbCallers |-> [pc |-> "idle", name |-> ""]]

\* Describe: the actions of the closed set with their resource kind and the inputs they require and allow.
Action(kind, required, allowed) == [kind |-> kind, required |-> required, allowed |-> required \union allowed]
Describe ==
  [a \in {"kv.get", "kv.put", "kv.delete", "kv.list", "r2.put", "r2.get", "r2.delete", "r2.list",
      "queue.send", "d1.query"} |->
    CASE a = "kv.get" -> Action("entry", {"namespace", "key"}, {"withMetadata"})
      [] a = "kv.put" -> Action("entry", {"namespace", "key", "value"},
           {"expiration", "expirationTtl", "metadata"})
      [] a = "kv.delete" -> Action("entry", {"namespace", "key"}, {})
      [] a = "kv.list" -> Action("entry", {"namespace"}, {"prefix"})
      [] a = "r2.put" -> Action("object", {"bucket", "key", "value"}, {})
      [] a \in {"r2.get", "r2.delete"} -> Action("object", {"bucket", "key"}, {})
      [] a = "r2.list" -> Action("object", {"bucket"}, {})
      [] a = "queue.send" -> Action("queue", {"queue"}, {"body"})
      [] a = "d1.query" -> Action("database", {"database", "sql"}, {"binds"})]

\* Dispatch up to the call of the backend: "" when the request may go on.
\* The inputs of a request are the names it gives; `cancelled` is its context.
CheckRequest(req) ==
  IF req.action \notin DOMAIN Describe THEN "unsupported"
  ELSE LET d == Describe[req.action]
       IN CASE req.kind # d.kind \/ ~req.scoped -> "validation"
            [] req.kind = d.kind /\ req.scoped /\ ~(d.required \subseteq req.inputs /\ req.inputs \subseteq d.allowed) -> "validation"
            [] OTHER -> IF req.cancelled THEN "unavailable" ELSE ""

\* Call: what the backend serves, whatever it declares.
Served == {"kv.get", "kv.put", "kv.delete", "kv.list", "r2.put", "r2.get", "r2.delete", "r2.list",
    "queue.send", "d1.query"}

Expired(rec) == rec.expiration > 0 /\ rec.expiration <= xbNow
Live(key) == key \in DOMAIN xbKv /\ ~Expired(xbKv[key])
ListKeys == {k \in DOMAIN xbKv : ~Expired(xbKv[k])}

\* An absolute expiration wins over a time to live; neither counts unless positive.
Expiration(req) ==
  CASE "expiration" \in req.inputs /\ req.expiration > 0 -> req.expiration
    [] ~("expiration" \in req.inputs /\ req.expiration > 0) /\ "expirationTtl" \in req.inputs /\ req.ttl > 0 -> xbNow + req.ttl
    [] OTHER -> 0

\* One request through the registry and, when it may go on, the backend.
Dispatch(req) ==
  /\ LET refused == CheckRequest(req)
         class == CASE refused # "" -> refused
                    [] refused = "" /\ req.action \notin Served -> "unsupported"
                    [] refused = "" /\ req.action \in {"kv.get", "kv.delete"} /\ ~Live(req.key) -> "absent"
                    [] OTHER -> "ok"
         put == class = "ok" /\ req.action = "kv.put"
         gone == class = "ok" /\ req.action = "kv.delete"
     IN /\ xbLast' = [action |-> req.action, key |-> req.key, class |-> class,
                      value |-> IF class = "ok" /\ req.action = "kv.get" THEN xbKv[req.key].value ELSE ""]
        /\ xbKv' = CASE put -> Put(xbKv, req.key, [value |-> req.value, expiration |-> Expiration(req)])
                     [] gone -> Del(xbKv, req.key)
                     [] OTHER -> xbKv
        /\ xbPromise' = CASE put -> Put(xbPromise, req.key, [value |-> req.value,
                                        until |-> IF Expiration(req) = 0 THEN Endless ELSE Expiration(req)])
                          [] gone -> Del(xbPromise, req.key)
                          [] OTHER -> xbPromise
  /\ UNCHANGED <<xbNow, xbKnown, xbApplied, xbCaller, xbFailed>>

XbTick ==
  /\ xbNow < XbMaxTime /\ xbNow' = xbNow + 1
  /\ xbLast' = Nothing
  /\ UNCHANGED <<xbKv, xbPromise, xbKnown, xbApplied, xbCaller, xbFailed>>

\* ensure, under e.mu: a name not known before is recorded and then the graph
\* of all known names is applied, which may fail.
Ensure(c, name, good) ==
  /\ xbCaller[c].pc = "idle"
  /\ name \in xbKnown => good
  /\ xbKnown' = xbKnown \union {name}
  /\ xbApplied' = IF good /\ name \notin xbKnown THEN xbKnown' ELSE xbApplied
  /\ xbFailed' = (xbFailed \/ ~good)
  /\ xbCaller' = [xbCaller EXCEPT ![c] = IF good THEN [pc |-> "delegate", name |-> name] ELSE @]
  /\ UNCHANGED <<xbKv, xbNow, xbLast, xbPromise>>

\* Inner.Execute, outside the mutex.
Delegate(c) ==
  /\ xbCaller[c].pc = "delegate"
  /\ xbCaller' = [xbCaller EXCEPT ![c] = [pc |-> "idle", name |-> ""]]
  /\ UNCHANGED <<xbKv, xbNow, xbLast, xbPromise, xbKnown, xbApplied, xbFailed>>

(***************************************************************************)
(* Requests                                                                *)
(***************************************************************************)
XbRequests ==
  [action : {"kv.get", "kv.delete", "kv.purge"}, kind : {"entry", "object"}, scoped : BOOLEAN,
   inputs : {{"namespace", "key"}, {"namespace"}}, key : XbKeys, value : {""},
   expiration : {0}, ttl : {0}, cancelled : BOOLEAN]
  \union
  [action : {"kv.put"}, kind : {"entry"}, scoped : {TRUE},
   inputs : {{"namespace", "key", "value"} \union i : i \in SUBSET {"expiration", "expirationTtl"}},
   key : XbKeys, value : {"v", "w"}, expiration : {0, 3}, ttl : {0, 1}, cancelled : {FALSE}]
  \union UNION
  {[action : {a}, kind : {Describe[a].kind}, scoped : {TRUE}, inputs : {Describe[a].required},
    key : {""}, value : {""}, expiration : {0}, ttl : {0}, cancelled : {FALSE}] :
     a \in DOMAIN Describe \ {"kv.put", "kv.get", "kv.delete"}}

XbNext ==
  \/ \E req \in XbRequests : Dispatch(req)
  \/ XbTick
  \/ \E c \in XbCallers, name \in XbNames, good \in BOOLEAN : Ensure(c, name, good)
  \/ \E c \in XbCallers : Delegate(c)
XbSpec == XbInit /\ [][XbNext]_xbvars

(***************************************************************************)
(* Properties                                                              *)
(***************************************************************************)

\* An entry is seen until its time and not after it: a get finds the value
\* put last exactly while it lasts, and a listing shows the same keys.
EntriesLastTheirTime ==
  LET lasting == {k \in DOMAIN xbPromise : xbNow < xbPromise[k].until}
  IN /\ ListKeys = lasting
     /\ xbLast.action = "kv.get" /\ xbLast.class = "ok" =>
          xbLast.key \in lasting /\ xbLast.value = xbPromise[xbLast.key].value
     /\ xbLast.action = "kv.get" /\ xbLast.class = "absent" => xbLast.key \notin lasting

\* What the backend declares it serves: a declared action is never refused
\* as unsupported when it is called, which is what the start-up check
\* against a bundle's declared actions rests on.
DescribedIsServed == xbLast.class = "unsupported" => xbLast.action \notin DOMAIN Describe

\* Unless an Apply has failed, a call that reaches the runtime finds its
\* resource bound, whatever other callers bind meanwhile.
BoundBeforeUse ==
  /\ ~xbFailed => \A c \in XbCallers : xbCaller[c].pc = "delegate" => xbCaller[c].name \in xbApplied
  /\ xbApplied \subseteq xbKnown

-----------------------------------------------------------------------------
(***************************************************************************)
(* The delivery targets of internal/execution/cicd: hosts that publish in  *)
(* place (cfpages), hosts with one directory per deploy                    *)
(* (delivery/netlify, delivery/render), the Worker versions of cfbuilds    *)
(* and the gated pipeline of gcpdeploy.  Each method runs under its        *)
(* object's mutex, so an action is a whole call.  A deploy is a number;    *)
(* a bad path among its files makes writing it fail part of the way.       *)
(***************************************************************************)

CONSTANTS
  DpKinds,      \* {"inplace", "render", "netlify", "cfbuilds", "gcpdeploy"}
  DpMaxDeploys  \* bound on uploads

VARIABLES
  dpKind,
  dpSeq,      \* uploads so far
  dpGood,     \* the uploads that succeeded
  dpOpen,     \* the production listener is up
  dpDir,      \* production directory: [of, whole]; of = 0 when it is empty
  dpLast,     \* render: s.last
  dpHeld,     \* render: what a Redeploy read before it deploys, 0 when none
  dpActive,   \* netlify: prodID, cfbuilds: activeGen
  dpPhase,    \* gcpdeploy: Phase
  dpStaging,  \* gcpdeploy: staging directory and whether its site is up
  dpPrior,    \* gcpdeploy: prior
  dpHistory,  \* ghost: what production has served, in order
  dpApproved  \* ghost: gcpdeploy: the uploads that were approved

dpvars == <<dpKind, dpSeq, dpGood, dpOpen, dpDir, dpLast, dpHeld, dpActive, dpPhase, dpStaging,
    dpPrior, dpHistory, dpApproved>>

Empty == [of |-> 0, whole |-> TRUE]
DpInit ==
  /\ dpKind \in DpKinds
  /\ dpSeq = 0 /\ dpGood = {} /\ dpOpen = FALSE /\ dpDir = Empty /\ dpLast = 0 /\ dpHeld = 0 /\ dpActive = 0
  /\ dpPhase = "staging" /\ dpStaging = [dir |-> Empty, open |-> FALSE] /\ dpPrior = 0
  /\ dpHistory = <<>> /\ dpApproved = {}

Upload == dpSeq < DpMaxDeploys /\ dpSeq' = dpSeq + 1
Written(d, good) == [of |-> d, whole |-> good]
Serves(dir) == dpOpen' = TRUE /\ dpDir' = dir /\ dpHistory' = Append(dpHistory, dir.of)

(***************************************************************************)
(* In place: the old site is closed and its directory emptied first.       *)
(***************************************************************************)

PublishInPlace(good) ==
  /\ dpKind = "inplace" /\ Upload
  /\ dpGood' = IF good THEN dpGood \union {dpSeq'} ELSE dpGood
  /\ IF good THEN Serves(Written(dpSeq', TRUE))
     ELSE dpOpen' = FALSE /\ dpDir' = Written(dpSeq', FALSE) /\ UNCHANGED dpHistory
  /\ UNCHANGED <<dpKind, dpLast, dpHeld, dpActive, dpPhase, dpStaging, dpPrior, dpApproved>>

(***************************************************************************)
(* Render: a deploy that could be written becomes the live one.  Redeploy  *)
(* reads the last files, lets go of the mutex and deploys them.            *)
(***************************************************************************)
RenderDeploy(files, good) ==
  /\ dpGood' = IF good THEN dpGood \union {files} ELSE dpGood
  /\ IF good THEN Serves(Written(files, TRUE)) /\ dpLast' = files
     ELSE UNCHANGED <<dpOpen, dpDir, dpHistory, dpLast>>
  /\ UNCHANGED <<dpKind, dpActive, dpPhase, dpStaging, dpPrior, dpApproved>>

Deploy(good) == dpKind = "render" /\ Upload /\ RenderDeploy(dpSeq', good) /\ UNCHANGED dpHeld
RedeployRead ==
  /\ dpKind = "render" /\ dpHeld = 0 /\ dpLast # 0 /\ dpHeld' = dpLast
  /\ UNCHANGED <<dpKind, dpSeq, dpGood, dpOpen, dpDir, dpLast, dpActive, dpPhase, dpStaging,
       dpPrior, dpHistory, dpApproved>>
RedeployPut == dpKind = "render" /\ dpHeld # 0 /\ Upload /\ RenderDeploy(dpHeld, TRUE) /\ dpHeld' = 0

(***************************************************************************)
(* Netlify and cfbuilds: an upload is a draft; a ready one is published.   *)
(* Only a Worker's activation may not go back to an older build.           *)
(***************************************************************************)
UploadDraft(good) ==
  /\ dpKind = "netlify" /\ Upload
  /\ dpGood' = IF good THEN dpGood \union {dpSeq'} ELSE dpGood
  /\ UNCHANGED <<dpKind, dpOpen, dpDir, dpLast, dpHeld, dpActive, dpPhase, dpStaging, dpPrior,
       dpHistory, dpApproved>>

\* netlify: any ready deploy may be published, an older one too.
Publish(d) ==
  /\ dpKind = "netlify" /\ d \in dpGood
  /\ Len(dpHistory) < DpMaxDeploys
  /\ Serves(Written(d, TRUE)) /\ dpActive' = d
  /\ UNCHANGED <<dpKind, dpSeq, dpGood, dpLast, dpHeld, dpPhase, dpStaging, dpPrior, dpApproved>>

\* cfbuilds: a build is a version of its own; activation is fenced.
Build(good) ==
  /\ dpKind = "cfbuilds" /\ Upload
  /\ dpGood' = IF good THEN dpGood \union {dpSeq'} ELSE dpGood
  /\ UNCHANGED <<dpKind, dpOpen, dpDir, dpLast, dpHeld, dpActive, dpPhase, dpStaging, dpPrior,
       dpHistory, dpApproved>>

Activate(d) ==
  /\ dpKind = "cfbuilds" /\ d \in dpGood /\ d >= dpActive
  /\ Len(dpHistory) < DpMaxDeploys
  /\ Serves(Written(d, TRUE)) /\ dpActive' = d
  /\ UNCHANGED <<dpKind, dpSeq, dpGood, dpLast, dpHeld, dpPhase, dpStaging, dpPrior, dpApproved>>

(***************************************************************************)
(* gcpdeploy: stage, approve or reject, promote, roll back.                *)
(***************************************************************************)

\* A failed Stage has emptied the directory and written some of the files;
\* the phase and the staging site are left as they were.
Stage(good) ==
  /\ dpKind = "gcpdeploy" /\ Upload
  /\ dpGood' = IF good THEN dpGood \union {dpSeq'} ELSE dpGood
  /\ dpStaging' = [dir |-> Written(dpSeq', good), open |-> dpStaging.open \/ good]
  /\ dpPhase' = IF good THEN "pending" ELSE dpPhase
  /\ UNCHANGED <<dpKind, dpOpen, dpDir, dpLast, dpHeld, dpActive, dpPrior, dpHistory, dpApproved>>

Decide(yes) ==
  /\ dpKind = "gcpdeploy" /\ dpPhase = "pending" /\ (yes => dpStaging.open)
  /\ dpPhase' = IF yes THEN "approved" ELSE "rejected"
  /\ dpApproved' = IF yes THEN dpApproved \union {dpStaging.dir.of} ELSE dpApproved
  /\ UNCHANGED <<dpKind, dpSeq, dpGood, dpOpen, dpDir, dpLast, dpHeld, dpActive, dpStaging, dpPrior,
       dpHistory>>

Promote ==
  /\ dpKind = "gcpdeploy" /\ dpPhase = "approved" /\ dpStaging.open
  /\ dpPrior' = IF dpOpen THEN dpDir.of ELSE dpPrior
  /\ Serves(dpStaging.dir) /\ dpPhase' = "production"
  /\ UNCHANGED <<dpKind, dpSeq, dpGood, dpLast, dpHeld, dpActive, dpStaging, dpApproved>>

Rollback ==
  /\ dpKind = "gcpdeploy" /\ dpPrior # 0 /\ Len(dpHistory) < 2 * DpMaxDeploys
  /\ Serves(Written(dpPrior, TRUE)) /\ dpPhase' = "production"
  /\ UNCHANGED <<dpKind, dpSeq, dpGood, dpLast, dpHeld, dpActive, dpStaging, dpPrior, dpApproved>>

CloseSites ==
  /\ dpOpen /\ dpOpen' = FALSE
  /\ dpStaging' = [dpStaging EXCEPT !.open = FALSE]
  /\ UNCHANGED <<dpKind, dpSeq, dpGood, dpDir, dpLast, dpHeld, dpActive, dpPhase, dpPrior,
       dpHistory, dpApproved>>

DpNext ==
  \/ \E good \in BOOLEAN : PublishInPlace(good) \/ Deploy(good) \/ UploadDraft(good) \/ Build(good) \/ Stage(good) \/ Decide(good)
  \/ RedeployRead \/ RedeployPut \/ Promote \/ Rollback \/ CloseSites
  \/ \E d \in 1..DpMaxDeploys : Publish(d) \/ Activate(d)
DpSpec == DpInit /\ [][DpNext]_dpvars

(***************************************************************************)
(* Properties                                                              *)
(***************************************************************************)

\* What a host serves is the whole of one upload that succeeded, never files
\* of two and never the part of one that failed; a host that keeps a
\* directory per deploy goes on serving when an upload fails.
ServedIsWhole ==
  dpKind # "gcpdeploy" /\ dpOpen =>
    /\ dpDir.whole /\ dpDir.of \in dpGood
    /\ dpKind = "render" => dpDir.of = dpLast

\* A Worker's production moves forward: whatever order activations come in,
\* none takes it to an older build than it has served.
ProductionMovesForward ==
  dpKind = "cfbuilds" => \A i, j \in DOMAIN dpHistory : i < j => dpHistory[i] <= dpHistory[j]

\* A rollback, whenever it is asked for, returns production to something it
\* has served before what it serves now.
RollbackReturns ==
  dpKind = "gcpdeploy" /\ dpPrior # 0 => \E i \in DOMAIN dpHistory : i < Len(dpHistory) /\ dpHistory[i] = dpPrior

\* gcpdeploy.go: "one delivery pipeline with an explicit approval gate before
\* promote": what production serves was approved.
PromotedWasApproved == dpKind = "gcpdeploy" => \A i \in DOMAIN dpHistory : dpHistory[i] \in dpApproved

\* Child processes, execution backends and deployments: no process outlives
\* its owner, what a backend describes is what it serves, a deployment is
\* served whole or not at all, production only moves forward, and a rollback
\* returns to what it names.
BackendsHold ==
  /\ NoOrphans /\ EntriesLastTheirTime /\ DescribedIsServed /\ BoundBeforeUse
  /\ ServedIsWhole /\ ProductionMovesForward /\ RollbackReturns
=============================================================================
