--------------------------- MODULE StatesService ----------------------------
(***************************************************************************)
(* Executions of the Step Functions pack: the collections "ex" and         *)
(* "pending", the operations that start, stop, redrive and continue an     *)
(* execution, and the worker that resumes parked ones.  No lock covers a   *)
(* handler: each store call is a step, and a handler keeps in `proc` what  *)
(* it has read.  What the interpreter does between two store calls is one  *)
(* outcome, chosen among those of StatesLanguage.                          *)
(***************************************************************************)
EXTENDS Tables, Naturals, FiniteSets

CONSTANTS Execs,        \* execution ARNs
          Callers,      \* concurrent API requests
          MaxTokens,    \* bound: tokens the seeded stream hands out
          MaxTime,      \* bound: the clock's horizon, in seconds
          WaitFor,      \* Seconds of a Wait state, delay of a retry
          TaskTimeout,  \* TimeoutSeconds of a Task
          Heartbeat,    \* HeartbeatSeconds of a Task
          ExecTimeout   \* TimeoutSeconds of the machine

ASSUME StatesTimes == /\ {MaxTokens, MaxTime} \subseteq Nat
                      /\ {WaitFor, TaskTimeout, Heartbeat, ExecTimeout} \subseteq Nat \ {0}
ASSUME SomeExecution == Execs # {}

VARIABLES ex,       \* the execution records
          pend,     \* the pending records, by token
          tokens,   \* how many tokens were drawn
          proc,     \* the handler each caller, and the worker, is in
          todo,     \* what the worker listed and has not handled yet
          sleep,    \* the instant the worker's timer is set to
          woken,    \* the wake channel, of capacity one
          sfnow,    \* the clock
          collected \* history: tokens deleted because their execution had ended

sfvars == <<ex, pend, tokens, proc, todo, sleep, woken, sfnow, collected>>

Worker == "worker"
Procs == Callers \union {Worker}
Tokens == 1..MaxTokens
NoTime == MaxTime + ExecTimeout + TaskTimeout + Heartbeat + WaitFor + 1  \* an unset time stamp
Terminal == {"SUCCEEDED", "FAILED", "TIMED_OUT", "ABORTED"}
Kinds == {"wait", "activity", "callback"}
NoExec == [status |-> "none", token |-> 0, redrive |-> FALSE, redrives |-> 0]
NoPending == [e |-> CHOOSE e \in Execs : TRUE, kind |-> "wait", until |-> NoTime, dl |-> NoTime,
              tdl |-> NoTime, hdl |-> NoTime, started |-> FALSE]
Idle == [op |-> "none", pc |-> "idle", e |-> CHOOSE e \in Execs : TRUE,
         t |-> 0, rec |-> NoExec, out |-> "none", new |-> NoPending]

Times == 0..NoTime
ExecRecord == [status : Terminal \union {"none", "RUNNING"}, token : 0..MaxTokens,
               redrive : BOOLEAN, redrives : 0..1]
PendingRecord == [e : Execs, kind : Kinds, until : Times, dl : Times, tdl : Times,
                  hdl : Times, started : BOOLEAN]

StatesExecTypeOK ==
  /\ ex \in [Execs -> ExecRecord]
  /\ DOMAIN pend \subseteq Tokens
  /\ \A t \in DOMAIN pend : pend[t] \in PendingRecord
  /\ tokens \in 0..MaxTokens
  /\ \A p \in Procs :
        /\ proc[p].op \in {"none", "start", "stop", "redrive", "finish", "resume", "timeout",
                           "claim", "beat", "list", "sleep"}
        /\ proc[p].pc \in {"idle", "take", "park", "commit", "drop", "put"}
        /\ proc[p].rec \in ExecRecord /\ proc[p].t \in 0..MaxTokens
  /\ \A t \in DOMAIN todo : t \in Tokens /\ todo[t] \in PendingRecord
  /\ sleep \in Times /\ woken \in BOOLEAN /\ sfnow \in 0..MaxTime
  /\ collected \subseteq Tokens

ExecInit ==
  /\ ex = [e \in Execs |-> NoExec]
  /\ pend = [t \in {} |-> 0]
  /\ tokens = 0
  /\ proc = [p \in Procs |-> IF p = Worker THEN [Idle EXCEPT !.op = "list"] ELSE Idle]
  /\ todo = [t \in {} |-> 0]
  /\ sleep = NoTime /\ woken = FALSE /\ sfnow = 0 /\ collected = {}

----------------------------------------------------------------------------
(* What the interpreter may answer.                                        *)

\* A walk ends, or parks the execution in a Wait, in a scheduled retry, in an
\* activity Task or in a callback Task; past the deadline it times out.
WalkOutcomes(dl, fromStart) ==
  IF sfnow >= dl
  THEN {"TIMED_OUT"} \union (IF fromStart THEN {} ELSE {"SUCCEEDED"})
  ELSE {"SUCCEEDED", "FAILED"} \union (IF tokens < MaxTokens THEN Kinds ELSE {})

\* startTaskTimers: when a callback Task parks, or an activity is claimed.
StartTaskTimers(r) ==
  [r EXCEPT !.started = TRUE, !.tdl = sfnow + TaskTimeout, !.hdl = sfnow + Heartbeat]

ParkedRecord(e, kind, dl) ==
  LET bare == [e |-> e, kind |-> kind, dl |-> dl, tdl |-> NoTime, hdl |-> NoTime, started |-> FALSE,
               until |-> IF kind = "wait" THEN sfnow + WaitFor ELSE NoTime]
  IN IF kind = "callback" THEN StartTaskTimers(bare) ELSE bare

Parking == Kinds \union {"again"}
SignalWaits == woken' = TRUE

\* The handler is over: a caller is idle again, the worker takes its next item.
Done(p) == proc' = [proc EXCEPT ![p] = IF p = Worker THEN [Idle EXCEPT !.op = "list", !.pc = "take"]
                                                     ELSE Idle]

\* The handler has its walk's outcome; a walk that parks draws the token and
\* fixes the record's times, before any of it is stored.
Continues(p, op, e, t, rec, out, new) ==
  /\ out \in Parking => tokens < MaxTokens
  /\ tokens' = IF out \in Parking THEN tokens + 1 ELSE tokens
  /\ proc' = [proc EXCEPT ![p] =
       [op |-> op, pc |-> IF out \in Parking THEN "park" ELSE "commit", e |-> e, t |-> t,
        rec |-> IF out \in Parking THEN [rec EXCEPT !.token = tokens'] ELSE rec,
        out |-> out, new |-> new]]

Walks(p, op, e, t, rec, dl, fromStart) ==
  \E out \in WalkOutcomes(dl, fromStart) :
     Continues(p, op, e, t, rec, out, IF out \in Kinds THEN ParkedRecord(e, out, dl) ELSE NoPending)

----------------------------------------------------------------------------
(* The operations.                                                         *)

\* StartExecution of a standard machine: the name is free, the machine walks.
StartExecution(p, e) ==
  /\ proc[p] = Idle /\ ex[e].status = "none"
  /\ Walks(p, "start", e, 0, NoExec, sfnow + ExecTimeout, TRUE)
  /\ UNCHANGED <<ex, pend, todo, sleep, woken, sfnow, collected>>

\* RedriveExecution reads the record and what it can restart from: the state
\* recorded in it, or the pending record its token still names.
RedriveExecution(p, e) ==
  /\ proc[p] = Idle
  /\ ex[e].status \in Terminal \ {"SUCCEEDED"} /\ ex[e].redrives = 0
  /\ ex[e].redrive \/ ex[e].token \in DOMAIN pend
  /\ pend' = IF ex[e].redrive THEN pend ELSE Del(pend, ex[e].token)
  /\ Walks(p, "redrive", e, 0, ex[e], sfnow + ExecTimeout, TRUE)
  /\ UNCHANGED <<ex, todo, sleep, woken, sfnow, collected>>

\* StopExecution reads the record, whatever its status is.
StopExecution(p, e) ==
  /\ proc[p] = Idle /\ ex[e].status # "none"
  /\ proc' = [proc EXCEPT ![p] = [Idle EXCEPT !.op = "stop", !.pc = "take", !.e = e, !.rec = ex[e]]]
  /\ UNCHANGED <<ex, pend, tokens, todo, sleep, woken, sfnow, collected>>

\* ... then deletes the pending record, keeping its state for a redrive.
StopTakes(p) ==
  LET t == proc[p].rec.token IN
  /\ proc[p].op = "stop" /\ proc[p].pc = "take"
  /\ pend' = Del(pend, t)
  /\ proc' = [proc EXCEPT ![p].pc = "commit", ![p].out = "ABORTED",
                          ![p].rec.redrive = @ \/ t \in DOMAIN pend]
  /\ UNCHANGED <<ex, tokens, todo, sleep, woken, sfnow, collected>>

\* pendingExecution: the execution must be running and name this token; a
\* pending record of an execution that has ended is deleted.
PendingExecution(t, e) == ex[e].status = "RUNNING" /\ ex[e].token = t
NotReady(t, e) ==
  IF ex[e].status \in Terminal
  THEN pend' = Del(pend, t) /\ collected' = collected \union {t}
  ELSE UNCHANGED <<pend, collected>>

\* SendTaskSuccess and SendTaskFailure of a token the caller was given, and
\* timeoutTask: finishTask finds the pending record and its execution.
FinishTask(p, t) ==
  LET e == pend[t].e IN
  /\ t \in DOMAIN pend
  /\ IF PendingExecution(t, e)
     THEN /\ proc' = [proc EXCEPT ![p] = [Idle EXCEPT !.op = "finish", !.pc = "take", !.e = e, !.t = t,
                                                      !.rec = ex[e], !.new = pend[t]]]
          /\ UNCHANGED <<pend, collected>>
     ELSE NotReady(t, e) /\ Done(p)
  /\ UNCHANGED <<ex, tokens, sleep, woken, sfnow>>

SendTask(p, t) ==
  /\ proc[p] = Idle
  /\ FinishTask(p, t) /\ pend[t].started
  /\ UNCHANGED todo

\* ... deletes the pending record and goes on: after a result or a caught
\* error with a walk, after an uncaught error with the failure (the record
\* then keeps the token and no state to redrive from), and with a retry by
\* parking again: after a delay, or at once for an activity, which is then
\* offered under a new token.
FinishTakes(p) ==
  LET q == proc[p]
      offered == [q.new EXCEPT !.started = FALSE, !.tdl = NoTime, !.hdl = NoTime]
  IN /\ q.op = "finish" /\ q.pc = "take"
     /\ pend' = Del(pend, q.t)
     /\ \/ Walks(p, "finish", q.e, q.t, q.rec, q.new.dl, FALSE)
        \/ Continues(p, "finish", q.e, q.t, q.rec, "uncaught", NoPending)
        \/ Continues(p, "finish", q.e, q.t, q.rec, "wait", ParkedRecord(q.e, "wait", q.new.dl))
        \/ /\ q.new.kind = "activity"
           /\ Continues(p, "finish", q.e, q.t, q.rec, "again", offered)
     /\ UNCHANGED <<ex, todo, sleep, woken, sfnow, collected>>

\* GetActivityTask hands out a pending activity nobody claimed, and
\* SendTaskHeartbeat reads a claimed task ...
ReadsTask(p, t, op) ==
  /\ proc[p] = Idle /\ t \in DOMAIN pend
  /\ proc' = [proc EXCEPT ![p] = [Idle EXCEPT !.op = op, !.pc = "put", !.t = t, !.new = pend[t]]]
  /\ UNCHANGED <<ex, pend, tokens, todo, sleep, woken, sfnow, collected>>

GetActivityTask(p, t) ==
  ReadsTask(p, t, "claim") /\ pend[t].kind = "activity" /\ ~pend[t].started

SendTaskHeartbeat(p, t) == ReadsTask(p, t, "beat") /\ pend[t].started

\* ... and both write the record they read back, with its timers, and wake the
\* worker: if the task ended meanwhile its pending record is there again.
PutsTimers(p) ==
  LET q == proc[p] IN
  /\ q.pc = "put"
  /\ pend' = Put(pend, q.t, IF q.op = "claim" THEN StartTaskTimers(q.new)
                                             ELSE [q.new EXCEPT !.hdl = sfnow + Heartbeat])
  /\ SignalWaits /\ Done(p)
  /\ UNCHANGED <<ex, tokens, todo, sleep, sfnow, collected>>

----------------------------------------------------------------------------
(* The writes of a handler that walked, in their order: the new pending    *)
(* record, the execution record, and, for the worker, the old pending one. *)

\* Mistake: the pending record is not stored before the execution record.
StorePendingLate(p) ==
  /\ proc[p].pc = "park"
  /\ proc' = [proc EXCEPT ![p].pc = "commit"]
  /\ UNCHANGED <<ex, pend, tokens, todo, sleep, woken, sfnow, collected>>

StorePending(p) ==
  /\ proc[p].pc = "park"
  /\ pend' = Put(pend, proc[p].rec.token, proc[p].new)
  /\ proc' = [proc EXCEPT ![p].pc = "commit"]
  /\ UNCHANGED <<ex, tokens, todo, sleep, woken, sfnow, collected>>

\* The record each handler writes.  A walk that fails names the state it failed
\* in (finishTask does not keep it); a handler that ends the execution drops the
\* token, except after an uncaught task failure.
Committed(q) ==
  LET status == IF q.out \in Parking THEN "RUNNING" ELSE IF q.out = "uncaught" THEN "FAILED" ELSE q.out
      failedAt == q.out = "FAILED" /\ q.op # "finish"
  IN [status |-> status,
      token |-> IF q.out \in Parking \union {"uncaught"} THEN q.rec.token ELSE 0,
      redrive |-> failedAt \/ (q.rec.redrive /\ q.op # "redrive"),
      redrives |-> IF q.op = "redrive" THEN q.rec.redrives + 1 ELSE q.rec.redrives]

CommitExecution(p) ==
  LET q == proc[p] IN
  /\ q.pc = "commit"
  /\ ex' = [ex EXCEPT ![q.e] = Committed(q)]
  /\ IF q.op \in {"resume", "timeout"}
     THEN proc' = [proc EXCEPT ![p].pc = "drop"] /\ UNCHANGED woken
     ELSE Done(p) /\ woken' = (woken \/ proc[p].out \in Kinds)
  /\ UNCHANGED <<pend, tokens, todo, sleep, sfnow, collected>>

DropPending(p) ==
  /\ proc[p].pc = "drop"
  /\ pend' = Del(pend, proc[p].t)
  /\ woken' = (woken \/ proc[p].out \in Kinds)
  /\ Done(p)
  /\ UNCHANGED <<ex, tokens, todo, sleep, sfnow, collected>>

----------------------------------------------------------------------------
(* The worker: waitLoop and runDueWaits.                                   *)

NextAt(r) == MinOf({r.dl, r.tdl, r.hdl, r.until})

\* runDueWaits lists the records once; those that are due are handled, from the
\* values listed, and the earliest of the others is what it will sleep until.
WorkerLists ==
  LET due == {t \in DOMAIN pend : NextAt(pend[t]) <= sfnow} IN
  /\ proc[Worker] = [Idle EXCEPT !.op = "list"]
  /\ todo' = [t \in due |-> pend[t]]
  /\ sleep' = MinOf({NoTime} \union {NextAt(pend[t]) : t \in DOMAIN pend \ due})
  /\ proc' = [proc EXCEPT ![Worker].pc = "take"]
  /\ UNCHANGED <<ex, pend, tokens, woken, sfnow, collected>>

AtNextItem == proc[Worker] = [Idle EXCEPT !.op = "list", !.pc = "take"]

\* timeoutExecution: the execution's deadline comes first, also on a tie.
TimeoutExecution(t) ==
  LET e == todo[t].e IN
  /\ AtNextItem /\ t \in DOMAIN todo /\ todo[t].dl = NextAt(todo[t])
  /\ todo' = Del(todo, t)
  /\ IF PendingExecution(t, e)
     THEN /\ proc' = [proc EXCEPT ![Worker] = [Idle EXCEPT !.op = "timeout", !.pc = "commit", !.e = e,
                                                 !.t = t, !.rec = ex[e], !.out = "TIMED_OUT"]]
          /\ UNCHANGED <<pend, collected>>
     ELSE NotReady(t, e) /\ UNCHANGED proc
  /\ UNCHANGED <<ex, tokens, sleep, woken, sfnow>>

\* timeoutTask: the task's or the heartbeat's deadline comes first; the token
\* may have been used since the list was made.
TimeoutTask(t) ==
  /\ AtNextItem /\ t \in DOMAIN todo
  /\ NextAt(todo[t]) \in {todo[t].tdl, todo[t].hdl} \ {todo[t].dl}
  /\ todo' = Del(todo, t)
  /\ \/ FinishTask(Worker, t)
     \/ t \notin DOMAIN pend /\ UNCHANGED <<ex, pend, tokens, proc, sleep, woken, sfnow, collected>>

\* resumeWait: a Wait is over or a retry is due.
ResumeWait(t) ==
  LET e == todo[t].e IN
  /\ AtNextItem /\ t \in DOMAIN todo
  /\ NextAt(todo[t]) = todo[t].until /\ todo[t].until < todo[t].dl
  /\ todo' = Del(todo, t)
  /\ IF PendingExecution(t, e)
     THEN /\ Walks(Worker, "resume", e, t, [ex[e] EXCEPT !.token = 0], todo[t].dl, FALSE)
          /\ UNCHANGED <<pend, collected>>
     ELSE NotReady(t, e) /\ UNCHANGED <<proc, tokens>>
  /\ UNCHANGED <<ex, sleep, woken, sfnow>>

\* Nothing listed is left: the worker waits for its timer or for a signal.
WorkerSleeps ==
  /\ AtNextItem /\ DOMAIN todo = {}
  /\ proc' = [proc EXCEPT ![Worker] = [Idle EXCEPT !.op = "sleep"]]
  /\ UNCHANGED <<ex, pend, tokens, todo, sleep, woken, sfnow, collected>>

WorkerWakes ==
  /\ proc[Worker].op = "sleep"
  /\ \/ woken /\ woken' = FALSE
     \/ sleep <= sfnow /\ UNCHANGED woken
  /\ proc' = [proc EXCEPT ![Worker] = [Idle EXCEPT !.op = "list"]]
  /\ UNCHANGED <<ex, pend, tokens, todo, sleep, sfnow, collected>>

\* Close waits for the worker; Start makes a new one with a new channel.
WorkerRestarts ==
  /\ proc[Worker].op = "sleep"
  /\ proc' = [proc EXCEPT ![Worker] = [Idle EXCEPT !.op = "list"]]
  /\ woken' = FALSE /\ sleep' = NoTime
  /\ UNCHANGED <<ex, pend, tokens, todo, sfnow, collected>>

ClockTicks ==
  /\ sfnow < MaxTime /\ sfnow' = sfnow + 1
  /\ UNCHANGED <<ex, pend, tokens, proc, todo, sleep, woken, collected>>

----------------------------------------------------------------------------
HandlerSteps(p) ==
  \/ StopTakes(p) \/ FinishTakes(p) \/ PutsTimers(p)
  \/ StorePending(p) \/ CommitExecution(p) \/ DropPending(p)

WorkerSteps ==
  \/ WorkerLists \/ WorkerSleeps \/ WorkerWakes
  \/ \E t \in Tokens : TimeoutExecution(t) \/ TimeoutTask(t) \/ ResumeWait(t)

Requests ==
  \E p \in Callers :
    \/ \E e \in Execs : StartExecution(p, e) \/ StopExecution(p, e) \/ RedriveExecution(p, e)
    \/ \E t \in Tokens : SendTask(p, t) \/ GetActivityTask(p, t) \/ SendTaskHeartbeat(p, t)

ExecNext ==
  \/ Requests \/ WorkerSteps \/ WorkerRestarts \/ ClockTicks
  \/ \E p \in Procs : HandlerSteps(p)

\* The goroutines run, a handler that began goes on and the clock advances;
\* nobody has to send a request.
ExecFairness ==
  /\ WF_sfvars(WorkerSteps) /\ WF_sfvars(ClockTicks)
  /\ \A p \in Procs : WF_sfvars(HandlerSteps(p))

ExecSpec == ExecInit /\ [][ExecNext]_sfvars /\ ExecFairness

----------------------------------------------------------------------------
(* Properties.                                                             *)

\* A running execution can be resumed from the store as it is at any instant
\* (a snapshot may be taken there): the pending record its token names is
\* stored, because it is stored first.  Two windows are excepted: finishTask
\* or StopExecution between its delete and its commit, and a record that was
\* collected while the execution looked ended.
ResumableAtAnyInstant ==
  \A e \in Execs : ex[e].status = "RUNNING" =>
     \/ ex[e].token \in DOMAIN pend \union collected
     \/ \E p \in Procs : /\ proc[p].op \in {"finish", "stop"} /\ proc[p].e = e
                           /\ proc[p].pc \in {"park", "commit"}

\* The timers of a parked execution fire: the worker's list, its sleep until
\* the earliest time stamp and the wake channel of capacity one lose none.  An
\* activity nobody claimed has only the execution's deadline: see below.
Ticking(t) ==
  /\ t \in DOMAIN pend /\ PendingExecution(t, pend[t].e)
  /\ MinOf({pend[t].until, pend[t].tdl, pend[t].dl}) <= MaxTime
TimersFire ==
  \A t \in Tokens :
    (Ticking(t) /\ (pend[t].kind # "activity" \/ pend[t].started)) ~> ~Ticking(t)

\* Every parked execution is ended at its deadline (docs/SUPPORT.md: "enforces
\* configured plus Standard one-year ... execution deadlines").
DeadlinesEnforced == \A t \in Tokens : Ticking(t) ~> ~Ticking(t)

\* An execution that ended without success and that no handler is changing
\* has a state to redrive from (docs/SUPPORT.md: "redriven from the
\* unsuccessful state").
UnsuccessfulIsRedrivable ==
  \A e \in Execs :
    (/\ ex[e].status \in Terminal \ {"SUCCEEDED"}
     /\ \A p \in Procs : proc[p].pc = "idle" \/ proc[p].e # e)
    => ex[e].redrive \/ ex[e].token \in DOMAIN pend

-----------------------------------------------------------------------------
(***************************************************************************)
(* The registry of the Step Functions pack: state machines, published      *)
(* versions, aliases that route to versions, activities and tags.  No lock *)
(* covers an operation: each store call that writes, and each whose answer *)
(* is used after another call, is a step; `rq` keeps what was read.        *)
(***************************************************************************)

CONSTANTS SMNames,      \* names of state machines
          Aliases,      \* names of aliases
          Definitions,  \* definitions that validateDefinition accepts
          RgClients,    \* places for requests under way at one time
          MaxRevision,  \* bound: revision ids drawn
          MaxVersion,   \* bound: version numbers
          RgBudget      \* bound: requests

ASSUME RegistryBound == {MaxRevision, MaxVersion, RgBudget} \union RgClients \subseteq Nat
ASSUME SomeRegistry == Definitions # {} /\ Aliases # {} /\ "activity" \notin SMNames

VARIABLES sm,        \* "sm": by name, the machine's definition and revision
          versions,  \* "ver": by <<name, number>>
          alias,     \* "alias": by <<name, alias>>, the version numbers routed to
          tagged,    \* "tag": the resources that have a tag record
          acts,      \* "act": whether the one activity exists
          revision,  \* the last revision id drawn
          rq,        \* the requests under way
          asked,     \* how many requests there were
          lateVersions, lateAliases, lateTags
                     \* history: rows written on a reading that no longer held

latevars == <<lateVersions, lateAliases, lateTags>>
rgvars == <<sm, versions, alias, tagged, acts, revision, rq, asked, latevars>>

Activity == "activity"
Resources == SMNames \union {Activity}
Numbers == 1..MaxVersion
Machine == [def : Definitions, rev : 1..MaxRevision]
NoMachine == [def |-> CHOOSE d \in Definitions : TRUE, rev |-> 0]
NoRequest == [op |-> "none", pc |-> "idle", s |-> Activity, n |-> 0, a |-> CHOOSE a \in Aliases : TRUE,
              m |-> NoMachine, pub |-> NoMachine, routes |-> {}, todo |-> {}, drop |-> {}, left |-> {},
              stale |-> FALSE]
Request == [op : {"none", "create", "update", "publish", "delete", "unversion", "alias", "realias",
                  "tag", "activity", "forget"},
            pc : {"idle", "put", "again", "tag", "publish", "number", "version", "sm", "ver", "versions",
                  "aliases", "untag", "routed", "unversion", "check", "route", "act", "unact"},
            s : Resources, n : 0..MaxVersion, a : Aliases,
            m : Machine \union {NoMachine}, pub : Machine \union {NoMachine},
            routes : SUBSET Numbers, todo : SUBSET Numbers, drop : SUBSET Aliases,
            left : SUBSET {"tag", "publish"}, stale : BOOLEAN]

RegistryTypeOK ==
  /\ DOMAIN sm \subseteq SMNames /\ \A s \in DOMAIN sm : sm[s] \in Machine
  /\ DOMAIN versions \subseteq SMNames \X Numbers
  /\ \A v \in DOMAIN versions : versions[v] \in Machine
  /\ DOMAIN alias \subseteq SMNames \X Aliases
  /\ \A a \in DOMAIN alias : alias[a] \subseteq Numbers
  /\ tagged \subseteq Resources /\ acts \in BOOLEAN
  /\ revision \in 0..MaxRevision /\ asked \in 0..RgBudget
  /\ rq \in [RgClients -> Request]
  /\ lateVersions \subseteq DOMAIN versions /\ lateAliases \subseteq DOMAIN alias /\ lateTags \subseteq tagged

RegistryInit ==
  /\ sm = NoRows /\ versions = NoRows /\ alias = NoRows
  /\ tagged = {} /\ acts = FALSE /\ revision = 0
  /\ rq = [c \in RgClients |-> NoRequest] /\ asked = 0
  /\ lateVersions = {} /\ lateAliases = {} /\ lateTags = {}

\* A request comes in at the first free place, having made its first reading.
Asks(c, q) ==
  /\ rq[c] = NoRequest /\ \A x \in RgClients : x < c => rq[x] # NoRequest
  /\ asked < RgBudget /\ asked' = asked + 1
  /\ rq' = [rq EXCEPT ![c] = q]
Asked(op, pc, s) == [NoRequest EXCEPT !.op = op, !.pc = pc, !.s = s]

\* A request goes on as q; what the requests of `hit` had read no longer holds.
GoesOn(c, q, hit) ==
  /\ rq' = [x \in RgClients |-> IF x = c THEN q
                                ELSE IF x \in hit THEN [rq[x] EXCEPT !.stale = TRUE] ELSE rq[x]]
  /\ UNCHANGED asked

\* History: the row is late if the request's reading no longer held.
Marked(rows, row, stale) == IF stale THEN rows \union {row} ELSE rows \ {row}

----------------------------------------------------------------------------
(* CreateStateMachine and UpdateStateMachine.                              *)

\* What is left of a request once its machine is stored.
Onward(q) ==
  IF "tag" \in q.left THEN [q EXCEPT !.pc = "tag", !.left = @ \ {"tag"}]
  ELSE IF "publish" \in q.left THEN [q EXCEPT !.pc = "publish", !.left = {}]
  ELSE NoRequest

\* CreateStateMachine: an existing machine that differs is refused, one that is
\* the same is answered; a new one is stored, then its tags, then its version,
\* and, after that, the record of the machine again with the version's name.
CreateStateMachine(c, s, d, left) ==
  /\ s \notin DOMAIN sm /\ revision < MaxRevision /\ revision' = revision + 1
  /\ Asks(c, [Asked("create", "put", s) EXCEPT !.m = [def |-> d, rev |-> revision + 1], !.left = left])
  /\ UNCHANGED <<sm, versions, alias, tagged, acts, latevars>>

\* UpdateStateMachine draws a revision when something changed; if nothing did,
\* it writes back the record it read.
UpdateStateMachine(c, s, d, left) ==
  /\ s \in DOMAIN sm /\ revision < MaxRevision /\ revision' = revision + 1
  /\ Asks(c, [Asked("update", "put", s) EXCEPT !.m = [def |-> d, rev |-> revision + 1], !.left = left])
  /\ UNCHANGED <<sm, versions, alias, tagged, acts, latevars>>
UpdateNothing(c, s, left) ==
  /\ s \in DOMAIN sm
  /\ Asks(c, [Asked("update", "put", s) EXCEPT !.m = sm[s], !.left = left])
  /\ UNCHANGED <<sm, versions, alias, tagged, acts, revision, latevars>>

PutsMachine(c) ==
  LET q == rq[c] IN
  /\ q.pc \in {"put", "again"}
  /\ sm' = Put(sm, q.s, q.m)
  /\ GoesOn(c, IF q.pc = "put" THEN Onward(q) ELSE NoRequest, {})
  /\ UNCHANGED <<versions, alias, tagged, acts, revision, latevars>>

----------------------------------------------------------------------------
(* PublishStateMachineVersion, on its own and as a part of the two above.  *)

NumbersOf(s) == {v[2] : v \in {w \in DOMAIN versions : w[1] = s}}
\* The number above the highest one stored.
NextNumber(s, n) == (\A k \in NumbersOf(s) : k < n) /\ (n = 1 \/ n - 1 \in NumbersOf(s))
IsPublished(s, rev) == \E v \in DOMAIN versions : v[1] = s /\ versions[v].rev = rev

PublishStateMachineVersion(c, s) ==
  /\ s \in DOMAIN sm
  /\ Asks(c, [Asked("publish", "number", s) EXCEPT !.pub = sm[s]])
  /\ UNCHANGED <<sm, versions, alias, tagged, acts, revision, latevars>>

\* The machine is read again; UpdateStateMachine names the revision it wrote.
ReadsMachine(c) ==
  LET q == rq[c] IN
  /\ q.pc = "publish"
  /\ IF q.s \in DOMAIN sm /\ (q.op = "update" => sm[q.s].rev = q.m.rev)
     THEN GoesOn(c, [q EXCEPT !.pc = "number", !.pub = sm[q.s], !.stale = FALSE], {})
     ELSE GoesOn(c, NoRequest, {})
  /\ UNCHANGED <<sm, versions, alias, tagged, acts, revision, latevars>>

AfterPublish(q) == IF q.op = "create" THEN [q EXCEPT !.pc = "again"] ELSE NoRequest

\* The version that has the revision already answers, or a number is drawn.
\* Mistake: the stored versions are not compared with the revision.
DrawsNumberAlways(c) ==
  LET q == rq[c] IN
  /\ q.pc = "number"
  /\ \E n \in Numbers : NextNumber(q.s, n) /\ GoesOn(c, [q EXCEPT !.pc = "version", !.n = n], {})
  /\ UNCHANGED <<sm, versions, alias, tagged, acts, revision, latevars>>
DrawsNumber(c) ==
  LET q == rq[c] IN
  /\ q.pc = "number"
  /\ \/ IsPublished(q.s, q.pub.rev) /\ GoesOn(c, AfterPublish(q), {})
     \/ /\ ~IsPublished(q.s, q.pub.rev)
        /\ \E n \in Numbers : NextNumber(q.s, n) /\ GoesOn(c, [q EXCEPT !.pc = "version", !.n = n], {})
  /\ UNCHANGED <<sm, versions, alias, tagged, acts, revision, latevars>>

\* Requests that listed the versions of s, or found version v.
Numbering(s) == {x \in RgClients : rq[x].pc = "version" /\ rq[x].s = s}
Routing(s, n) == {x \in RgClients : /\ rq[x].pc \in {"check", "route"} /\ rq[x].s = s
                                    /\ n \in rq[x].routes \ rq[x].todo}

PutsVersion(c) ==
  LET q == rq[c] v == <<q.s, q.n>> IN
  /\ q.pc = "version"
  /\ versions' = Put(versions, v, q.pub)
  /\ lateVersions' = Marked(lateVersions, v, q.stale)
  /\ GoesOn(c, AfterPublish(q), Numbering(q.s))
  /\ UNCHANGED <<sm, alias, tagged, acts, revision, lateAliases, lateTags>>

----------------------------------------------------------------------------
(* DeleteStateMachine takes its versions, its aliases and its tags along,  *)
(* and DeleteStateMachineVersion is refused under an alias.                *)

DeleteStateMachine(c, s) ==
  /\ s \in DOMAIN sm /\ Asks(c, Asked("delete", "sm", s))
  /\ UNCHANGED <<sm, versions, alias, tagged, acts, revision, latevars>>

\* Requests that found the resource r and have not written what belongs to it.
Found(r) == {x \in RgClients : rq[x].pc \in {"tag", "number", "version"} /\ rq[x].s = r}

DropsMachine(c) ==
  LET q == rq[c] IN
  /\ q.pc = "sm"
  /\ sm' = DelAll(sm, {q.s})
  /\ GoesOn(c, [q EXCEPT !.pc = "ver"], Found(q.s))
  /\ UNCHANGED <<versions, alias, tagged, acts, revision, latevars>>

ListsVersions(c) ==
  LET q == rq[c] IN
  /\ q.pc = "ver"
  /\ GoesOn(c, [q EXCEPT !.pc = "versions", !.todo = NumbersOf(q.s)], {})
  /\ UNCHANGED <<sm, versions, alias, tagged, acts, revision, latevars>>

DropsVersion(c, n) ==
  LET q == rq[c] v == <<q.s, n>> IN
  /\ q.pc = "versions" /\ n \in q.todo
  /\ versions' = DelAll(versions, {v}) /\ lateVersions' = lateVersions \ {v}
  /\ GoesOn(c, [q EXCEPT !.todo = @ \ {n}], Routing(q.s, n))
  /\ UNCHANGED <<sm, alias, tagged, acts, revision, lateAliases, lateTags>>

ListsAliases(c) ==
  LET q == rq[c] IN
  /\ q.pc = "versions" /\ q.todo = {}
  /\ GoesOn(c, [q EXCEPT !.pc = "aliases", !.drop = {a \in Aliases : <<q.s, a>> \in DOMAIN alias}], {})
  /\ UNCHANGED <<sm, versions, alias, tagged, acts, revision, latevars>>

DropsAlias(c, a) ==
  LET q == rq[c] IN
  /\ q.pc = "aliases" /\ a \in q.drop
  /\ alias' = DelAll(alias, {<<q.s, a>>}) /\ lateAliases' = lateAliases \ {<<q.s, a>>}
  /\ GoesOn(c, [q EXCEPT !.drop = @ \ {a}], {})
  /\ UNCHANGED <<sm, versions, tagged, acts, revision, lateVersions, lateTags>>

DropsTags(c) ==
  LET q == rq[c] IN
  /\ q.pc = "untag" \/ (q.pc = "aliases" /\ q.drop = {})
  /\ tagged' = tagged \ {q.s} /\ lateTags' = lateTags \ {q.s}
  /\ GoesOn(c, NoRequest, {})
  /\ UNCHANGED <<sm, versions, alias, acts, revision, lateVersions, lateAliases>>

DeleteStateMachineVersion(c, s, n) ==
  /\ <<s, n>> \in DOMAIN versions /\ Asks(c, [Asked("unversion", "routed", s) EXCEPT !.n = n])
  /\ UNCHANGED <<sm, versions, alias, tagged, acts, revision, latevars>>

Routed(s, n) == {a \in DOMAIN alias : a[1] = s /\ n \in alias[a]}
\* Mistake: a version is deleted under the aliases that route to it.
ListsRoutesUnread(c) ==
  LET q == rq[c] IN
  /\ q.pc = "routed"
  /\ GoesOn(c, [q EXCEPT !.pc = "unversion", !.stale = FALSE], {})
  /\ UNCHANGED <<sm, versions, alias, tagged, acts, revision, latevars>>
ListsRoutes(c) ==
  LET q == rq[c] IN
  /\ q.pc = "routed"
  /\ GoesOn(c, IF Routed(q.s, q.n) # {} THEN NoRequest ELSE [q EXCEPT !.pc = "unversion", !.stale = FALSE], {})
  /\ UNCHANGED <<sm, versions, alias, tagged, acts, revision, latevars>>

\* If an alias was written since they were listed, it may be left behind.
UnversionsRow(c) ==
  LET q == rq[c] v == <<q.s, q.n>> IN
  /\ q.pc = "unversion"
  /\ versions' = DelAll(versions, {v}) /\ lateVersions' = lateVersions \ {v}
  /\ lateAliases' = IF q.stale THEN lateAliases \union Routed(q.s, q.n) ELSE lateAliases
  /\ GoesOn(c, NoRequest, Routing(q.s, q.n))
  /\ UNCHANGED <<sm, alias, tagged, acts, revision, lateTags>>

----------------------------------------------------------------------------
(* CreateStateMachineAlias and UpdateStateMachineAlias.                    *)

\* validateAliasRoutes looks every version up; CreateStateMachineAlias has found
\* the first one when it comes in.
CreateStateMachineAlias(c, s, a, routes) ==
  /\ Cardinality(routes) \in 1..2
  /\ \E n \in routes :
       /\ <<s, n>> \in DOMAIN versions
       /\ Asks(c, [Asked("alias", "check", s) EXCEPT !.a = a, !.routes = routes, !.todo = routes \ {n}])
  /\ UNCHANGED <<sm, versions, alias, tagged, acts, revision, latevars>>

\* UpdateStateMachineAlias with routes; with a description alone it writes back
\* the routes it read.
UpdateStateMachineAlias(c, s, a, routes) ==
  /\ <<s, a>> \in DOMAIN alias /\ Cardinality(routes) \in 1..2
  /\ Asks(c, [Asked("realias", "check", s) EXCEPT !.a = a, !.routes = routes, !.todo = routes])
  /\ UNCHANGED <<sm, versions, alias, tagged, acts, revision, latevars>>
DescribesAlias(c, s, a) ==
  /\ <<s, a>> \in DOMAIN alias
  /\ Asks(c, [Asked("realias", "route", s) EXCEPT !.a = a, !.routes = alias[<<s, a>>],
                 !.stale = \E n \in alias[<<s, a>>] : <<s, n>> \notin DOMAIN versions])
  /\ UNCHANGED <<sm, versions, alias, tagged, acts, revision, latevars>>

ValidatesRoute(c, n) ==
  LET q == rq[c] left == q.todo \ {n} IN
  /\ q.pc = "check" /\ n \in q.todo
  /\ GoesOn(c, IF <<q.s, n>> \notin DOMAIN versions THEN NoRequest
               ELSE [q EXCEPT !.todo = left, !.pc = IF left = {} /\ q.op = "realias" THEN "route" ELSE @], {})
  /\ UNCHANGED <<sm, versions, alias, tagged, acts, revision, latevars>>

\* CreateStateMachineAlias refuses an alias that exists.
FindsAlias(c) ==
  LET q == rq[c] IN
  /\ q.pc = "check" /\ q.todo = {}
  /\ GoesOn(c, IF <<q.s, q.a>> \in DOMAIN alias THEN NoRequest ELSE [q EXCEPT !.pc = "route"], {})
  /\ UNCHANGED <<sm, versions, alias, tagged, acts, revision, latevars>>

PutsAlias(c) ==
  LET q == rq[c] a == <<q.s, q.a>> IN
  /\ q.pc = "route"
  /\ alias' = Put(alias, a, q.routes)
  /\ lateAliases' = Marked(lateAliases, a, q.stale)
  /\ GoesOn(c, NoRequest, {x \in RgClients : /\ rq[x].pc = "unversion" /\ rq[x].s = q.s
                                             /\ rq[x].n \in q.routes})
  /\ UNCHANGED <<sm, versions, tagged, acts, revision, lateVersions, lateTags>>

----------------------------------------------------------------------------
(* Activities and tags.                                                    *)

CreateActivity(c, left) ==
  /\ ~acts /\ Asks(c, [Asked("activity", "act", Activity) EXCEPT !.left = left])
  /\ UNCHANGED <<sm, versions, alias, tagged, acts, revision, latevars>>
PutsActivity(c) ==
  /\ rq[c].pc = "act"
  /\ acts' = TRUE /\ GoesOn(c, Onward(rq[c]), {})
  /\ UNCHANGED <<sm, versions, alias, tagged, revision, latevars>>

\* DeleteActivity succeeds whether or not there is one.
DeleteActivity(c) ==
  /\ Asks(c, Asked("forget", "unact", Activity))
  /\ UNCHANGED <<sm, versions, alias, tagged, acts, revision, latevars>>
DropsActivity(c) ==
  /\ rq[c].pc = "unact"
  /\ acts' = FALSE /\ GoesOn(c, [rq[c] EXCEPT !.pc = "untag"], Found(Activity))
  /\ UNCHANGED <<sm, versions, alias, tagged, revision, latevars>>

\* TagResource and UntagResource of a resource that exists; both write its tag
\* record, UntagResource an empty one too.
TagResourceExists(r) == r \in DOMAIN sm \/ (r = Activity /\ acts)
TagResource(c, r) ==
  /\ TagResourceExists(r) /\ Asks(c, Asked("tag", "tag", r))
  /\ UNCHANGED <<sm, versions, alias, tagged, acts, revision, latevars>>

PutsTags(c) ==
  LET q == rq[c] IN
  /\ q.pc = "tag"
  /\ tagged' = tagged \union {q.s} /\ lateTags' = Marked(lateTags, q.s, q.stale)
  /\ GoesOn(c, Onward(q), {})
  /\ UNCHANGED <<sm, versions, alias, acts, revision, lateVersions, lateAliases>>

----------------------------------------------------------------------------
Asking(c) ==
  \/ \E s \in SMNames, d \in Definitions, left \in SUBSET {"tag", "publish"} : CreateStateMachine(c, s, d, left)
  \/ \E s \in SMNames, left \in SUBSET {"publish"} :
       UpdateNothing(c, s, left) \/ \E d \in Definitions : UpdateStateMachine(c, s, d, left)
  \/ \E s \in SMNames : PublishStateMachineVersion(c, s) \/ DeleteStateMachine(c, s)
  \/ \E s \in SMNames, n \in Numbers : DeleteStateMachineVersion(c, s, n)
  \/ \E s \in SMNames, a \in Aliases :
       \/ DescribesAlias(c, s, a)
       \/ \E routes \in SUBSET Numbers :
            CreateStateMachineAlias(c, s, a, routes) \/ UpdateStateMachineAlias(c, s, a, routes)
  \/ \E left \in SUBSET {"tag"} : CreateActivity(c, left)
  \/ DeleteActivity(c)
  \/ \E r \in Resources : TagResource(c, r)

Going(c) ==
  \/ PutsMachine(c) \/ ReadsMachine(c) \/ DrawsNumber(c) \/ PutsVersion(c)
  \/ DropsMachine(c) \/ ListsVersions(c) \/ ListsAliases(c) \/ DropsTags(c)
  \/ \E n \in Numbers : DropsVersion(c, n) \/ ValidatesRoute(c, n)
  \/ \E a \in Aliases : DropsAlias(c, a)
  \/ ListsRoutes(c) \/ UnversionsRow(c) \/ FindsAlias(c) \/ PutsAlias(c)
  \/ PutsActivity(c) \/ DropsActivity(c) \/ PutsTags(c)

RegistryNext == \E c \in RgClients : Asking(c) \/ Going(c)

RegistrySpec == RegistryInit /\ [][RegistryNext]_rgvars

----------------------------------------------------------------------------
(* What StartExecution resolves.                                           *)

\* resolveStateMachine of an alias: one of the versions it routes to.
ResolveAlias(a) == {<<a[1], n>> : n \in alias[a]}

\* An alias always resolves: every version it routes to is stored, after any
\* sequence of deletions and updates, unless DeleteStateMachine is about to
\* delete the alias too.  One case is excepted, which no lock prevents: the
\* alias was written while a version of it was deleted, each call having found
\* nothing against it.
AliasGoes(a, q) == q.s = a[1] /\ (q.pc = "versions" \/ (q.pc = "aliases" /\ a[2] \in q.drop))
AliasesResolve ==
  \A a \in DOMAIN alias \ lateAliases :
    ResolveAlias(a) \subseteq DOMAIN versions \/ \E c \in RgClients : AliasGoes(a, rq[c])

\* Publishing is idempotent: a machine has one version per revision.  Excepted
\* is a version written while another was, from a list without it.
VersionPerRevision ==
  \A v, w \in DOMAIN versions \ lateVersions :
    (v[1] = w[1] /\ versions[v].rev = versions[w].rev) => v = w

\* A revision names one definition, in the machine, in its versions and in
\* whatever a request holds, also when requests write back what they read or
\* draw the same number for two versions.
Held(r) ==
  \/ \E s \in DOMAIN sm : r = sm[s]
  \/ \E v \in DOMAIN versions : r = versions[v]
  \/ \E c \in RgClients : r \in {rq[c].m, rq[c].pub}
OneDefinitionPerRevision ==
  \A r1, r2 \in Machine : (Held(r1) /\ Held(r2) /\ r1.rev = r2.rev) => r1 = r2

\* Nothing outlives its owner: versions and tags belong to what exists or to
\* what is being deleted and takes them along.  Excepted is a row written by a
\* call that found the owner before it was deleted.
VersionGoes(v, q) == q.s = v[1] /\ (q.pc = "ver" \/ (q.pc = "versions" /\ v[2] \in q.todo))
TagsGo(r, q) == q.s = r /\ q.pc \in {"ver", "versions", "aliases", "untag"}
NoOrphans ==
  /\ \A v \in DOMAIN versions \ lateVersions :
        v[1] \in DOMAIN sm \/ \E c \in RgClients : VersionGoes(v, rq[c])
  /\ \A r \in tagged \ lateTags : TagResourceExists(r) \/ \E c \in RgClients : TagsGo(r, rq[c])

\* parkTask and its callbacks: every parked execution is, at every instant,
\* one that a token, a timer or a restart can resume.
ExecutionsHold == StatesExecTypeOK /\ ResumableAtAnyInstant

\* publish, alias and delete calls, whose store calls interleave: aliases lead
\* to versions that exist, a revision is published once and keeps its
\* definition, and neither versions nor tags outlive what they belong to.
RegistryHolds ==
  RegistryTypeOK /\ AliasesResolve /\ VersionPerRevision /\ OneDefinitionPerRevision /\ NoOrphans
=============================================================================
