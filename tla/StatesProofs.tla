---------------------------- MODULE StatesProofs ----------------------------
(***************************************************************************)
(* Executions that can be resumed from the store at any instant, and a     *)
(* registry in which nothing dangles, for any numbers of executions,       *)
(* callers, machines and aliases.                                          *)
(***************************************************************************)
EXTENDS StatesService, TLAPS, WellFoundedInduction, FiniteSetTheorems

\* Every set of numbers that is not empty has a least element.
LEMMA LeastElement ==
  ASSUME NEW S \in SUBSET Nat, S # {}
  PROVE  MinOf(S) \in S /\ \A y \in S : MinOf(S) <= y
<1>1. PICK x \in S : \A y \in S : ~(<<y, x>> \in OpToRel(<, Nat))
  <2>1. S \subseteq Nat
    OBVIOUS
  <2> QED
    BY <2>1, WFMin, NatLessThanWellFounded, Zenon
<1>2. \A y \in S : ~(y < x)
  <2>1. \A y \in S : y \in Nat /\ x \in Nat
    OBVIOUS
  <2> QED
    BY <1>1, <2>1, Zenon DEF OpToRel
<1>3. \A y \in S : x <= y
  BY <1>2
<1> QED
  BY <1>1, <1>3 DEF MinOf

-----------------------------------------------------------------------------
(* Types.                                                                  *)

Handler ==
  [op : {"none", "start", "stop", "redrive", "finish", "resume", "timeout", "claim", "beat",
         "list", "sleep"},
   pc : {"idle", "take", "park", "commit", "drop", "put"},
   e : Execs, t : 0..MaxTokens, rec : ExecRecord,
   out : Terminal \union Parking \union {"none", "uncaught"}, new : PendingRecord]

\* What a handler knows at each of its steps.
HandlerOK(h) ==
  /\ h.pc = "park" => h.out \in Parking
  /\ h.pc = "commit" => h.out # "none"
  /\ h.pc \in {"park", "commit"} /\ h.out \in Parking => h.rec.token # 0
  /\ h.pc = "put" => h.t # 0
  /\ h.op = "redrive" => h.rec.redrives = 0

ExecTypes ==
  /\ StatesExecTypeOK
  /\ proc \in [Procs -> Handler] /\ \A p \in Procs : HandlerOK(proc[p])

LEMMA IdleIsHandler == Idle \in Handler /\ HandlerOK(Idle)
<1>1. NoPending \in PendingRecord
  BY SomeExecution, StatesTimes DEF NoPending, PendingRecord, Kinds, Times, NoTime
<1>2. NoExec \in ExecRecord
  BY StatesTimes DEF NoExec, ExecRecord
<1> QED
  BY <1>1, <1>2, SomeExecution, StatesTimes DEF Idle, Handler, HandlerOK

\* The records a walk parks with.
LEMMA ParkedIsPending ==
  ASSUME ExecTypes, NEW e \in Execs, NEW kind \in Kinds, NEW dl \in Times
  PROVE  ParkedRecord(e, kind, dl) \in PendingRecord /\ ParkedRecord(e, kind, dl).e = e
<1>1. sfnow \in 0..MaxTime /\ NoTime \in Times
  BY StatesTimes DEF ExecTypes, StatesExecTypeOK, Times, NoTime
<1>2. {sfnow + WaitFor, sfnow + TaskTimeout, sfnow + Heartbeat} \subseteq Times
  BY <1>1, StatesTimes DEF Times, NoTime
<1> QED
  BY <1>1, <1>2 DEF ParkedRecord, StartTaskTimers, PendingRecord, Kinds

\* Timers that are started, renewed or taken off a pending record.
LEMMA TimersArePending ==
  ASSUME ExecTypes, NEW r \in PendingRecord
  PROVE  /\ StartTaskTimers(r) \in PendingRecord /\ StartTaskTimers(r).e = r.e
         /\ [r EXCEPT !.hdl = sfnow + Heartbeat] \in PendingRecord
         /\ [r EXCEPT !.hdl = sfnow + Heartbeat].e = r.e
         /\ [r EXCEPT !.started = FALSE, !.tdl = NoTime, !.hdl = NoTime] \in PendingRecord
         /\ [r EXCEPT !.started = FALSE, !.tdl = NoTime, !.hdl = NoTime].e = r.e
<1>1. {sfnow + TaskTimeout, sfnow + Heartbeat, NoTime} \subseteq Times
  BY StatesTimes DEF ExecTypes, StatesExecTypeOK, Times, NoTime
<1> QED
  BY <1>1 DEF StartTaskTimers, PendingRecord

\* StopExecution keeps a state to redrive from.
LEMMA RedriveIsRecord ==
  ASSUME NEW r \in ExecRecord, NEW b \in BOOLEAN
  PROVE  /\ [r EXCEPT !.redrive = @ \/ b] \in ExecRecord
         /\ [r EXCEPT !.redrive = @ \/ b].token = r.token
         /\ [r EXCEPT !.redrive = @ \/ b].redrives = r.redrives
<1>1. (r.redrive \/ b) \in BOOLEAN
  BY DEF ExecRecord
<1> QED
  BY <1>1 DEF ExecRecord

\* The arguments a handler goes on with after its walk.
LEMMA ContinuesTypes ==
  ASSUME ExecTypes, NEW p \in Procs, NEW op, NEW e \in Execs, NEW t \in 0..MaxTokens,
         NEW rec \in ExecRecord, NEW out \in Terminal \union Parking \union {"uncaught"},
         NEW new \in PendingRecord,
         op \in {"start", "redrive", "finish", "resume"}, op = "redrive" => rec.redrives = 0,
         Continues(p, op, e, t, rec, out, new)
  PROVE  /\ proc' \in [Procs -> Handler] /\ \A q \in Procs : HandlerOK(proc'[q])
         /\ tokens' \in 0..MaxTokens
<1>1. tokens' \in 0..MaxTokens
  BY StatesTimes DEF Continues, ExecTypes, StatesExecTypeOK
<1>2. DEFINE new_ == IF out \in Parking THEN [rec EXCEPT !.token = tokens'] ELSE rec
<1>3. new_ \in ExecRecord /\ new_.redrives = rec.redrives
  BY <1>1 DEF ExecRecord
<1>4. DEFINE h == [op |-> op, pc |-> IF out \in Parking THEN "park" ELSE "commit", e |-> e, t |-> t,
                   rec |-> new_, out |-> out, new |-> new]
<1>5. proc' = [proc EXCEPT ![p] = h]
  BY DEF Continues
<1>6. h \in Handler /\ HandlerOK(h)
  <2>1. out \in Parking => new_.token # 0
    BY DEF Continues, ExecTypes, StatesExecTypeOK, ExecRecord
  <2> HIDE DEF new_
  <2> QED
    BY <1>3, <2>1 DEF Handler, HandlerOK, Parking, Kinds, Terminal
<1> HIDE DEF h
<1> QED
  BY <1>1, <1>5, <1>6 DEF ExecTypes

\* A handler that walks from a record with a deadline.
LEMMA WalksTypes ==
  ASSUME ExecTypes, NEW p \in Procs, NEW op, NEW e \in Execs, NEW t \in 0..MaxTokens,
         NEW rec \in ExecRecord, NEW dl \in Times, NEW fromStart \in BOOLEAN,
         op \in {"start", "redrive", "finish", "resume"}, op = "redrive" => rec.redrives = 0,
         Walks(p, op, e, t, rec, dl, fromStart)
  PROVE  \E out \in Terminal \union Parking \union {"uncaught"}, new \in PendingRecord :
           /\ Continues(p, op, e, t, rec, out, new)
           /\ out \in Parking => new.e = e
<1>1. PICK out \in WalkOutcomes(dl, fromStart) :
        Continues(p, op, e, t, rec, out, IF out \in Kinds THEN ParkedRecord(e, out, dl) ELSE NoPending)
  BY DEF Walks
<1>2. out \in {"TIMED_OUT", "SUCCEEDED", "FAILED"} \union Kinds
  BY DEF WalkOutcomes
<1>3. DEFINE new == IF out \in Kinds THEN ParkedRecord(e, out, dl) ELSE NoPending
<1>4. new \in PendingRecord /\ (out \in Kinds => new.e = e)
  BY <1>2, ParkedIsPending, IdleIsHandler DEF Idle, Handler
<1>5. out \in Parking => out \in Kinds
  BY <1>2 DEF Parking, Kinds
<1> QED
  BY <1>1, <1>2, <1>4, <1>5 DEF Terminal, Parking, Kinds

\* The instant a pending record falls due.
LEMMA DueInTimes ==
  ASSUME NEW r \in PendingRecord
  PROVE  NextAt(r) \in Times
<1>1. {r.dl, r.tdl, r.hdl, r.until} \subseteq Times /\ Times \subseteq Nat
  BY StatesTimes DEF PendingRecord, Times, NoTime
<1>2. NextAt(r) \in {r.dl, r.tdl, r.hdl, r.until}
  BY <1>1, LeastElement DEF NextAt
<1> QED
  BY <1>1, <1>2

\* A handler between two requests, and the worker between two items.
Quiet(h) ==
  /\ h \in Handler /\ HandlerOK(h)
  /\ h.t = 0 /\ h.rec.token = 0
  /\ h.pc \in {"idle", "take"} /\ h.op \in {"none", "list", "sleep"}

LEMMA IdleIsQuiet ==
  /\ Quiet(Idle) /\ Quiet([Idle EXCEPT !.op = "list"]) /\ Quiet([Idle EXCEPT !.op = "sleep"])
  /\ Quiet([Idle EXCEPT !.op = "list", !.pc = "take"])
BY IdleIsHandler DEF Quiet, Handler, HandlerOK, Idle, NoExec

\* What a handler that is over leaves.
LEMMA DoneIsQuiet ==
  ASSUME NEW p \in Procs, Done(p)
  PROVE  \E h : Quiet(h) /\ proc' = [proc EXCEPT ![p] = h]
BY IdleIsQuiet, Zenon DEF Done

\* A step changes what one process holds.
LEMMA ProcTypes ==
  ASSUME ExecTypes, NEW p \in Procs, NEW h, h \in Handler, HandlerOK(h),
         proc' = [proc EXCEPT ![p] = h]
  PROVE  proc' \in [Procs -> Handler] /\ \A q \in Procs : HandlerOK(proc'[q])
BY DEF ExecTypes

\* The handler that found its pending record, or that collected one.
LEMMA FinishTaskTypes ==
  ASSUME ExecTypes, NEW p \in Procs, NEW t \in Tokens, FinishTask(p, t)
  PROVE  /\ proc' \in [Procs -> Handler] /\ \A q \in Procs : HandlerOK(proc'[q])
         /\ DOMAIN pend' \subseteq Tokens /\ \A k \in DOMAIN pend' : pend'[k] \in PendingRecord
         /\ collected' \subseteq Tokens
<1>1. t \in 0..MaxTokens /\ pend[t] \in PendingRecord /\ pend[t].e \in Execs
  BY StatesTimes DEF FinishTask, ExecTypes, StatesExecTypeOK, Tokens, PendingRecord
<1>2. CASE PendingExecution(t, pend[t].e)
  <2>1. DEFINE h == [Idle EXCEPT !.op = "finish", !.pc = "take", !.e = pend[t].e, !.t = t,
                                 !.rec = ex[pend[t].e], !.new = pend[t]]
  <2>2. proc' = [proc EXCEPT ![p] = h] /\ pend' = pend /\ collected' = collected
    BY <1>2 DEF FinishTask
  <2>3. h \in Handler /\ HandlerOK(h)
    BY <1>1, IdleIsHandler DEF Handler, HandlerOK, ExecTypes, StatesExecTypeOK
  <2> HIDE DEF h
  <2>4. proc' \in [Procs -> Handler] /\ \A q \in Procs : HandlerOK(proc'[q])
    BY <2>2, <2>3, ProcTypes
  <2> QED
    BY <2>2, <2>4 DEF ExecTypes, StatesExecTypeOK
<1>3. CASE ~PendingExecution(t, pend[t].e)
  <2>1. NotReady(t, pend[t].e) /\ Done(p)
    BY <1>3 DEF FinishTask
  <2>2. proc' \in [Procs -> Handler] /\ \A q \in Procs : HandlerOK(proc'[q])
    BY <2>1, DoneIsQuiet, ProcTypes DEF Quiet
  <2> QED
    BY <2>1, <2>2 DEF NotReady, Del, ExecTypes, StatesExecTypeOK
<1> QED
  BY <1>2, <1>3

\* The type invariant, with what each handler keeps, is inductive.
LEMMA ExecTypeStep == ExecTypes /\ [ExecNext]_sfvars => ExecTypes'
<1> SUFFICES ASSUME ExecTypes, [ExecNext]_sfvars PROVE ExecTypes'
    OBVIOUS
<1> DEFINE ProcOK == proc' \in [Procs -> Handler] /\ \A q \in Procs : HandlerOK(proc'[q])
           PendOK == DOMAIN pend' \subseteq Tokens /\ \A t \in DOMAIN pend' : pend'[t] \in PendingRecord
           TodoOK == \A t \in DOMAIN todo' : t \in Tokens /\ todo'[t] \in PendingRecord
           RestOK == /\ ex' \in [Execs -> ExecRecord] /\ tokens' \in 0..MaxTokens
                     /\ sleep' \in Times /\ woken' \in BOOLEAN /\ sfnow' \in 0..MaxTime
                     /\ collected' \subseteq Tokens
<1>0. ASSUME ProcOK, PendOK, TodoOK, RestOK PROVE ExecTypes'
  BY <1>0 DEF ExecTypes, StatesExecTypeOK, Handler
<1>t. /\ proc \in [Procs -> Handler] /\ \A p \in Procs : proc[p] \in Handler /\ HandlerOK(proc[p])
      /\ ex \in [Execs -> ExecRecord] /\ \A e \in Execs : ex[e] \in ExecRecord
      /\ DOMAIN pend \subseteq Tokens /\ \A t \in DOMAIN pend : pend[t] \in PendingRecord
      /\ \A t \in DOMAIN todo : t \in Tokens /\ todo[t] \in PendingRecord
      /\ tokens \in 0..MaxTokens /\ sleep \in Times /\ woken \in BOOLEAN /\ sfnow \in 0..MaxTime
      /\ collected \subseteq Tokens
      /\ 0 \in 0..MaxTokens /\ \A t \in Tokens : t \in 0..MaxTokens /\ t # 0
  BY StatesTimes DEF ExecTypes, StatesExecTypeOK, Tokens
<1> USE <1>t
<1>a. ASSUME UNCHANGED proc PROVE ProcOK
  BY <1>a
<1>b. ASSUME UNCHANGED pend PROVE PendOK
  BY <1>b
<1>c. ASSUME NEW p \in Callers PROVE p \in Procs
  BY DEF Procs
<1>1. ASSUME NEW p \in Callers, NEW e \in Execs, StartExecution(p, e) PROVE ExecTypes'
  <2>1. NoExec \in ExecRecord /\ sfnow + ExecTimeout \in Times
    BY IdleIsHandler, StatesTimes DEF Idle, Handler, Times, NoTime
  <2>2. \E out \in Terminal \union Parking \union {"uncaught"}, new \in PendingRecord :
          Continues(p, "start", e, 0, NoExec, out, new)
    BY <1>1, <1>c, <2>1, WalksTypes, StatesTimes DEF StartExecution
  <2>3. ProcOK /\ tokens' \in 0..MaxTokens
    BY <1>c, <2>1, <2>2, ContinuesTypes, StatesTimes
  <2> QED
    BY <1>0, <1>1, <2>3 DEF StartExecution
<1>2. ASSUME NEW p \in Callers, NEW e \in Execs, StopExecution(p, e) PROVE ExecTypes'
  <2>1. DEFINE h == [Idle EXCEPT !.op = "stop", !.pc = "take", !.e = e, !.rec = ex[e]]
  <2>2. h \in Handler /\ HandlerOK(h) /\ proc' = [proc EXCEPT ![p] = h]
    BY <1>2, IdleIsHandler DEF Handler, HandlerOK, StopExecution
  <2> HIDE DEF h
  <2>3. ProcOK
    BY <1>c, <2>2, ProcTypes
  <2> QED
    BY <1>0, <1>2, <2>3 DEF StopExecution
<1>3. ASSUME NEW p \in Callers, NEW e \in Execs, RedriveExecution(p, e) PROVE ExecTypes'
  <2>1. ex[e] \in ExecRecord /\ sfnow + ExecTimeout \in Times /\ ex[e].redrives = 0
    BY <1>3, StatesTimes DEF Times, NoTime, RedriveExecution
  <2>2. \E out \in Terminal \union Parking \union {"uncaught"}, new \in PendingRecord :
          Continues(p, "redrive", e, 0, ex[e], out, new)
    BY <1>3, <1>c, <2>1, WalksTypes, StatesTimes DEF RedriveExecution
  <2>3. ProcOK /\ tokens' \in 0..MaxTokens
    BY <1>c, <2>1, <2>2, ContinuesTypes, StatesTimes
  <2>4. PendOK
    BY <1>3 DEF RedriveExecution, Del
  <2> QED
    BY <1>0, <1>3, <2>3, <2>4 DEF RedriveExecution
<1>4. ASSUME NEW p \in Callers, NEW t \in Tokens, SendTask(p, t) PROVE ExecTypes'
  <2>1. FinishTask(p, t) /\ UNCHANGED <<ex, tokens, sleep, woken, sfnow, todo>>
    BY <1>4 DEF SendTask, FinishTask
  <2>2. ProcOK /\ PendOK /\ collected' \subseteq Tokens
    BY <1>c, <2>1, FinishTaskTypes
  <2> QED
    BY <1>0, <2>1, <2>2
<1>5. ASSUME NEW p \in Callers, NEW t \in Tokens, NEW op \in {"claim", "beat"}, ReadsTask(p, t, op)
      PROVE ExecTypes'
  <2>1. DEFINE h == [Idle EXCEPT !.op = op, !.pc = "put", !.t = t, !.new = pend[t]]
  <2>2. h \in Handler /\ HandlerOK(h) /\ proc' = [proc EXCEPT ![p] = h]
    BY <1>5, IdleIsHandler DEF Handler, HandlerOK, ReadsTask
  <2> HIDE DEF h
  <2>3. ProcOK
    BY <1>c, <2>2, ProcTypes
  <2> QED
    BY <1>0, <1>5, <2>3 DEF ReadsTask
<1>6. ASSUME NEW p \in Procs, StopTakes(p) PROVE ExecTypes'
  <2>1. DEFINE h == [proc[p] EXCEPT !.pc = "commit", !.out = "ABORTED",
                                    !.rec.redrive = @ \/ proc[p].rec.token \in DOMAIN pend]
  <2>2. proc' = [proc EXCEPT ![p] = h]
    BY <1>6 DEF StopTakes
  <2>3. h \in Handler /\ HandlerOK(h)
    <3>1. [proc[p].rec EXCEPT !.redrive = @ \/ proc[p].rec.token \in DOMAIN pend] \in ExecRecord
      BY RedriveIsRecord DEF Handler
    <3> QED
      BY <1>6, <3>1 DEF Handler, HandlerOK, StopTakes, Terminal, Parking, Kinds
  <2> HIDE DEF h
  <2>4. ProcOK
    BY <2>2, <2>3, ProcTypes
  <2>5. PendOK
    BY <1>6 DEF StopTakes, Del
  <2> QED
    BY <1>0, <1>6, <2>4, <2>5 DEF StopTakes
<1>7. ASSUME NEW p \in Procs, FinishTakes(p) PROVE ExecTypes'
  <2>1. DEFINE q == proc[p]
               offered == [q.new EXCEPT !.started = FALSE, !.tdl = NoTime, !.hdl = NoTime]
  <2>2. /\ q.e \in Execs /\ q.t \in 0..MaxTokens /\ q.rec \in ExecRecord
        /\ q.new \in PendingRecord /\ q.new.dl \in Times
    BY DEF Handler, PendingRecord
  <2>3. offered \in PendingRecord /\ NoPending \in PendingRecord
    BY <2>2, IdleIsHandler, TimersArePending DEF Idle, Handler
  <2>4. ParkedRecord(q.e, "wait", q.new.dl) \in PendingRecord
    BY <2>2, ParkedIsPending DEF Kinds
  <2>5. \/ Walks(p, "finish", q.e, q.t, q.rec, q.new.dl, FALSE)
        \/ Continues(p, "finish", q.e, q.t, q.rec, "uncaught", NoPending)
        \/ Continues(p, "finish", q.e, q.t, q.rec, "wait", ParkedRecord(q.e, "wait", q.new.dl))
        \/ Continues(p, "finish", q.e, q.t, q.rec, "again", offered)
    BY <1>7 DEF FinishTakes
  <2> HIDE DEF q, offered
  <2>6. \E out \in Terminal \union Parking \union {"uncaught"}, new \in PendingRecord :
          Continues(p, "finish", q.e, q.t, q.rec, out, new)
    <3>1. {"wait", "again", "uncaught"} \subseteq Terminal \union Parking \union {"uncaught"}
      BY DEF Parking, Kinds
    <3> QED
      BY <2>2, <2>3, <2>4, <2>5, <3>1, WalksTypes
  <2>7. ProcOK /\ tokens' \in 0..MaxTokens
    BY <2>2, <2>6, ContinuesTypes
  <2>8. PendOK
    BY <1>7 DEF FinishTakes, Del
  <2> QED
    BY <1>0, <1>7, <2>7, <2>8 DEF FinishTakes
<1>8. ASSUME NEW p \in Procs, PutsTimers(p) PROVE ExecTypes'
  <2>1. ProcOK
    BY <1>8, DoneIsQuiet, ProcTypes DEF Quiet, PutsTimers
  <2>2. PICK r : /\ pend' = Put(pend, proc[p].t, r)
                 /\ r \in {StartTaskTimers(proc[p].new), [proc[p].new EXCEPT !.hdl = sfnow + Heartbeat]}
    BY <1>8 DEF PutsTimers
  <2>3. proc[p].t \in Tokens
    BY <1>8, StatesTimes DEF PutsTimers, Handler, HandlerOK, Tokens
  <2>4. r \in PendingRecord
    <3>1. proc[p].new \in PendingRecord
      BY DEF Handler
    <3> QED
      BY <2>2, <3>1, TimersArePending
  <2>5. PendOK
    BY <2>2, <2>3, <2>4 DEF Put
  <2> QED
    BY <1>0, <1>8, <2>1, <2>5 DEF PutsTimers, SignalWaits
<1>9. ASSUME NEW p \in Procs, StorePending(p) PROVE ExecTypes'
  <2>1. ProcOK
    <3>1. [proc[p] EXCEPT !.pc = "commit"] \in Handler /\ HandlerOK([proc[p] EXCEPT !.pc = "commit"])
      BY <1>9 DEF StorePending, Handler, HandlerOK, Parking, Kinds
    <3> QED
      BY <1>9, <3>1, ProcTypes DEF StorePending
  <2>2. proc[p].rec.token \in Tokens /\ proc[p].new \in PendingRecord
    BY <1>9, StatesTimes DEF StorePending, Handler, HandlerOK, ExecRecord, Tokens
  <2>3. PendOK
    BY <1>9, <2>2 DEF StorePending, Put
  <2> QED
    BY <1>0, <1>9, <2>1, <2>3 DEF StorePending
<1>10. ASSUME NEW p \in Procs, CommitExecution(p) PROVE ExecTypes'
  <2>1. ProcOK
    <3>1. [proc[p] EXCEPT !.pc = "drop"] \in Handler /\ HandlerOK([proc[p] EXCEPT !.pc = "drop"])
      BY DEF Handler, HandlerOK
    <3>2. proc' = [proc EXCEPT ![p] = [proc[p] EXCEPT !.pc = "drop"]] \/ Done(p)
      BY <1>10 DEF CommitExecution
    <3> QED
      BY <3>1, <3>2, DoneIsQuiet, ProcTypes DEF Quiet
  <2>2. Committed(proc[p]) \in ExecRecord
    <3>1. /\ proc[p].out \in Terminal \union Parking \union {"uncaught"}
          /\ proc[p].rec \in ExecRecord
          /\ proc[p].op = "redrive" => proc[p].rec.redrives = 0
      BY <1>10 DEF CommitExecution, Handler, HandlerOK
    <3> QED
      BY <3>1, StatesTimes DEF Committed, ExecRecord, Terminal, Parking, Kinds
  <2>3. ex' \in [Execs -> ExecRecord]
    BY <1>10, <2>2 DEF CommitExecution
  <2>4. woken' \in BOOLEAN
    BY <1>10 DEF CommitExecution
  <2> QED
    BY <1>0, <1>10, <2>1, <2>3, <2>4 DEF CommitExecution
<1>11. ASSUME NEW p \in Procs, DropPending(p) PROVE ExecTypes'
  <2>1. ProcOK
    BY <1>11, DoneIsQuiet, ProcTypes DEF Quiet, DropPending
  <2>2. PendOK
    BY <1>11 DEF DropPending, Del
  <2>3. woken' \in BOOLEAN
    BY <1>11 DEF DropPending
  <2> QED
    BY <1>0, <1>11, <2>1, <2>2, <2>3 DEF DropPending
<1>d. Worker \in Procs
  BY DEF Procs
<1>12. ASSUME WorkerLists PROVE ExecTypes'
  <2>1. DEFINE h == [proc[Worker] EXCEPT !.pc = "take"]
  <2>2. h \in Handler /\ HandlerOK(h) /\ proc' = [proc EXCEPT ![Worker] = h]
    BY <1>d, <1>12 DEF Handler, HandlerOK, WorkerLists, Idle
  <2> HIDE DEF h
  <2>3. ProcOK
    BY <1>d, <2>2, ProcTypes
  <2>4. TodoOK
    BY <1>12 DEF WorkerLists
  <2>5. sleep' \in Times
    <3>1. PICK due : sleep' = MinOf({NoTime} \union {NextAt(pend[t]) : t \in DOMAIN pend \ due})
      BY <1>12 DEF WorkerLists
    <3>2. {NoTime} \union {NextAt(pend[t]) : t \in DOMAIN pend \ due} \subseteq Times
      BY DueInTimes, StatesTimes DEF Times, NoTime
    <3>3. Times \subseteq Nat
      BY DEF Times
    <3> QED
      BY <3>1, <3>2, <3>3, LeastElement
  <2> QED
    BY <1>0, <1>12, <2>3, <2>4, <2>5 DEF WorkerLists
<1>13. ASSUME WorkerSleeps \/ WorkerWakes \/ WorkerRestarts PROVE ExecTypes'
  <2>1. ProcOK
    BY <1>d, <1>13, IdleIsQuiet, ProcTypes DEF Quiet, WorkerSleeps, WorkerWakes, WorkerRestarts
  <2>2. NoTime \in Times
    BY StatesTimes DEF Times, NoTime
  <2> QED
    BY <1>0, <1>13, <2>1, <2>2 DEF WorkerSleeps, WorkerWakes, WorkerRestarts
<1>e. ASSUME NEW t \in Tokens, todo' = Del(todo, t) PROVE TodoOK
  BY <1>e DEF Del
<1>14. ASSUME NEW t \in Tokens, TimeoutExecution(t) PROVE ExecTypes'
  <2>1. t \in 0..MaxTokens /\ todo[t].e \in Execs /\ TodoOK
    BY <1>14, <1>e, StatesTimes DEF TimeoutExecution, PendingRecord, Tokens
  <2>2. ProcOK /\ PendOK /\ collected' \subseteq Tokens
    <3>1. CASE PendingExecution(t, todo[t].e)
      <4>1. DEFINE h == [Idle EXCEPT !.op = "timeout", !.pc = "commit", !.e = todo[t].e, !.t = t,
                                     !.rec = ex[todo[t].e], !.out = "TIMED_OUT"]
      <4>2. proc' = [proc EXCEPT ![Worker] = h] /\ UNCHANGED <<pend, collected>>
        BY <1>14, <3>1 DEF TimeoutExecution
      <4>3. h \in Handler /\ HandlerOK(h)
        BY <2>1, IdleIsHandler DEF Handler, HandlerOK, Terminal, Parking, Kinds
      <4> HIDE DEF h
      <4>4. ProcOK
        BY <1>d, <4>2, <4>3, ProcTypes
      <4> QED
        BY <4>2, <4>4
    <3>2. CASE ~PendingExecution(t, todo[t].e)
      BY <1>14, <3>2 DEF TimeoutExecution, NotReady, Del
    <3> QED
      BY <3>1, <3>2
  <2> QED
    BY <1>0, <1>14, <2>1, <2>2 DEF TimeoutExecution
<1>15. ASSUME NEW t \in Tokens, TimeoutTask(t) PROVE ExecTypes'
  <2>1. TodoOK
    BY <1>15, <1>e DEF TimeoutTask
  <2>2. CASE FinishTask(Worker, t)
    <3>1. ProcOK /\ PendOK /\ collected' \subseteq Tokens
      BY <1>d, <2>2, FinishTaskTypes
    <3> QED
      BY <1>0, <2>1, <2>2, <3>1 DEF FinishTask
  <2>3. CASE UNCHANGED <<ex, pend, tokens, proc, sleep, woken, sfnow, collected>>
    BY <1>0, <2>1, <2>3
  <2> QED
    BY <1>15, <2>2, <2>3 DEF TimeoutTask
<1>16. ASSUME NEW t \in Tokens, ResumeWait(t) PROVE ExecTypes'
  <2>1. DEFINE e == todo[t].e
               rec == [ex[e] EXCEPT !.token = 0]
  <2>2. t \in 0..MaxTokens /\ e \in Execs /\ todo[t].dl \in Times /\ TodoOK
    BY <1>16, <1>e, StatesTimes DEF ResumeWait, PendingRecord, Tokens
  <2>3. rec \in ExecRecord
    BY <2>2, StatesTimes DEF ExecRecord
  <2>4. CASE PendingExecution(t, e)
    <3>1. Walks(Worker, "resume", e, t, rec, todo[t].dl, FALSE) /\ UNCHANGED <<pend, collected>>
      BY <1>16, <2>4 DEF ResumeWait
    <3> HIDE DEF e, rec
    <3>2. \E out \in Terminal \union Parking \union {"uncaught"}, new \in PendingRecord :
            Continues(Worker, "resume", e, t, rec, out, new)
      BY <1>d, <2>2, <2>3, <3>1, WalksTypes
    <3>3. ProcOK /\ tokens' \in 0..MaxTokens
      BY <1>d, <2>2, <2>3, <3>2, ContinuesTypes
    <3> QED
      BY <1>0, <1>16, <2>2, <3>1, <3>3 DEF ResumeWait
  <2>5. CASE ~PendingExecution(t, e)
    BY <1>0, <1>16, <2>2, <2>5 DEF ResumeWait, NotReady, Del
  <2> QED
    BY <2>4, <2>5
<1>17. ASSUME ClockTicks PROVE ExecTypes'
  BY <1>0, <1>17, StatesTimes DEF ClockTicks
<1>18. ASSUME UNCHANGED sfvars PROVE ExecTypes'
  BY <1>0, <1>18 DEF sfvars
<1>19. CASE Requests
  BY <1>19, <1>1, <1>2, <1>3, <1>4, <1>5 DEF Requests, GetActivityTask, SendTaskHeartbeat
<1>20. CASE WorkerSteps
  BY <1>20, <1>12, <1>13, <1>14, <1>15, <1>16 DEF WorkerSteps
<1>21. CASE \E p \in Procs : HandlerSteps(p)
  BY <1>21, <1>6, <1>7, <1>8, <1>9, <1>10, <1>11 DEF HandlerSteps
<1> QED
  BY <1>13, <1>17, <1>18, <1>19, <1>20, <1>21 DEF ExecNext

-----------------------------------------------------------------------------
(* Executions.                                                             *)

\* Handlers that have walked and whose new token is drawn, stored or not.
Moves(h) == h.pc \in {"park", "commit"} /\ h.out \in Parking

\* Handlers between their delete and their commit.
Excuses(h, e) == h.op \in {"finish", "stop"} /\ h.pc \in {"park", "commit"} /\ h.e = e

\* Every token was drawn for one execution, its owner: the records that name it
\* and the handlers that hold it agree on which.
TablesOwned(owner) ==
  /\ \A e \in Execs : ex[e].token # 0 => ex[e].token <= tokens /\ owner[ex[e].token] = e
  /\ \A t \in DOMAIN pend : t <= tokens /\ owner[t] = pend[t].e
  /\ \A t \in DOMAIN todo : t <= tokens /\ owner[t] = todo[t].e
HeldRightly(owner, h) ==
  /\ h.rec.token <= tokens /\ h.t <= tokens
  /\ h.rec.token # 0 => owner[h.rec.token] = h.e
  /\ h.t # 0 => owner[h.t] = IF h.pc = "put" THEN h.new.e ELSE h.e
  /\ h.pc = "park" \/ (h.op = "finish" /\ h.pc = "take") => h.new.e = h.e

\* A token that is drawn and not committed yet is named by no record and held
\* by no other handler, so that nobody deletes what is stored under it.
Unshared(p, h) ==
  \A q \in Procs : q # p /\ Moves(proc[q]) =>
    /\ h.rec.token # proc[q].rec.token
    /\ h.pc # "put" => h.t # proc[q].rec.token
FreshTokens ==
  /\ \A p \in Procs : Unshared(p, proc[p])
  /\ \A p \in Procs : Moves(proc[p]) =>
       /\ proc[p].t # proc[p].rec.token
       /\ \A e \in Execs : ex[e].token # proc[p].rec.token
       /\ proc[p].pc = "commit" => proc[p].rec.token \in DOMAIN pend \union collected

\* What the worker is about to delete, no running execution names.
DroppedIsDead ==
  \A p \in Procs : proc[p].pc = "drop" =>
    \A e \in Execs : ex[e].status = "RUNNING" => ex[e].token # proc[p].t

RunningHasToken == \A e \in Execs : ex[e].status = "RUNNING" => ex[e].token # 0

\* ResumableAtAnyInstant, with the excuse named.
Resumable ==
  \A e \in Execs : ex[e].status = "RUNNING" =>
    ex[e].token \in DOMAIN pend \union collected \/ \E p \in Procs : Excuses(proc[p], e)

OwnedInv(owner) ==
  /\ TablesOwned(owner) /\ \A p \in Procs : HeldRightly(owner, proc[p])
  /\ FreshTokens /\ DroppedIsDead /\ RunningHasToken /\ Resumable

\* The inductive invariant: deleting a pending record endangers only the
\* execution that owns its token, and each handler that deletes one either
\* commits that execution next or finds it moved on.
ExecInv == ExecTypes /\ \E owner \in [Tokens -> Execs] : OwnedInv(owner)

\* The pending records that a step deletes: no moving handler stored them, and
\* no running execution but those of X needs them.
LosesOnly(X) ==
  /\ collected \subseteq collected'
  /\ \A t \in DOMAIN pend \ (DOMAIN pend' \union collected') :
       /\ \A e \in Execs : ex[e].status = "RUNNING" /\ ex[e].token = t => e \in X
       /\ \A q \in Procs : Moves(proc[q]) => proc[q].rec.token # t

\* The rows a step leaves or writes have the owners of their tokens.
RowsOwned(owner) ==
  /\ \A t \in DOMAIN pend' : t \in Tokens /\ t <= tokens /\ owner[t] = pend'[t].e
  /\ \A t \in DOMAIN todo' : t \in Tokens /\ t <= tokens /\ owner[t] = todo'[t].e

\* A step of one handler that commits nothing and draws nothing.
LEMMA HandlerStep ==
  ASSUME ExecTypes, NEW owner \in [Tokens -> Execs], OwnedInv(owner),
         NEW p \in Procs, NEW h, proc' = [proc EXCEPT ![p] = h], UNCHANGED <<ex, tokens>>,
         h \in Handler, HeldRightly(owner, h), RowsOwned(owner), Unshared(p, h),
         Moves(h) => /\ Moves(proc[p]) /\ h.rec = proc[p].rec /\ h.t = proc[p].t
                     /\ h.pc = "commit" => h.rec.token \in DOMAIN pend' \union collected',
         h.pc # "drop",
         \A e \in Execs : Excuses(proc[p], e) => Excuses(h, e),
         LosesOnly({e \in Execs : Excuses(h, e)})
  PROVE  OwnedInv(owner)'
<1> USE DEF OwnedInv
<1>1. proc'[p] = h /\ \A q \in Procs : q # p => proc'[q] = proc[q]
  BY DEF ExecTypes
<1>2. TablesOwned(owner)' /\ \A q \in Procs : HeldRightly(owner, proc[q])'
  BY <1>1 DEF TablesOwned, HeldRightly, RowsOwned
<1>3. FreshTokens'
  <2>1. ASSUME NEW q \in Procs PROVE Unshared(q, proc[q])'
    <3>1. ASSUME NEW r \in Procs, r # q, Moves(proc'[r])
          PROVE  /\ proc'[q].rec.token # proc'[r].rec.token
                 /\ proc'[q].pc # "put" => proc'[q].t # proc'[r].rec.token
      <4>1. Moves(proc[r]) /\ proc'[r].rec = proc[r].rec
        BY <1>1, <3>1
      <4>2. CASE q = p
        BY <1>1, <3>1, <4>1, <4>2 DEF Unshared
      <4>3. CASE q # p
        BY <1>1, <3>1, <4>1, <4>3 DEF FreshTokens, Unshared
      <4> QED
        BY <4>2, <4>3
    <3> QED
      BY <3>1 DEF Unshared
  <2>2. ASSUME NEW q \in Procs, Moves(proc'[q])
        PROVE  /\ proc'[q].t # proc'[q].rec.token
               /\ \A e \in Execs : ex'[e].token # proc'[q].rec.token
               /\ proc'[q].pc = "commit" => proc'[q].rec.token \in DOMAIN pend' \union collected'
    <3>1. CASE q = p
      BY <1>1, <2>2, <3>1 DEF FreshTokens
    <3>2. CASE q # p
      BY <1>1, <2>2, <3>2 DEF FreshTokens, LosesOnly
    <3> QED
      BY <3>1, <3>2
  <2> QED
    BY <2>1, <2>2 DEF FreshTokens
<1>4. DroppedIsDead' /\ RunningHasToken'
  BY <1>1 DEF DroppedIsDead, RunningHasToken
<1>5. Resumable'
  <2>1. ASSUME NEW e \in Execs, ex[e].status = "RUNNING", ~(\E q \in Procs : Excuses(proc'[q], e))
        PROVE  ex[e].token \in DOMAIN pend' \union collected'
    <3>1. ~(\E q \in Procs : Excuses(proc[q], e)) /\ ~Excuses(h, e)
      BY <1>1, <2>1
    <3>2. ex[e].token \in DOMAIN pend \union collected
      BY <2>1, <3>1 DEF Resumable
    <3> QED
      BY <2>1, <3>1, <3>2 DEF LosesOnly
  <2> QED
    BY <2>1 DEF Resumable
<1> QED
  BY <1>2, <1>3, <1>4, <1>5

\* A handler that walked and draws a token: the execution owns it.
LEMMA DrawStep ==
  ASSUME ExecTypes, NEW owner \in [Tokens -> Execs], OwnedInv(owner), NEW p \in Procs,
         NEW h, proc' = [proc EXCEPT ![p] = h], UNCHANGED ex, tokens' = tokens + 1,
         h \in Handler, h.pc = "park", h.out \in Parking, h.rec.token = tokens + 1,
         h.t <= tokens, h.t # 0 => owner[h.t] = h.e, h.new.e = h.e,
         RowsOwned(owner),
         \A q \in Procs : q # p /\ Moves(proc[q]) => h.t # proc[q].rec.token,
         \A e \in Execs : Excuses(proc[p], e) => Excuses(h, e),
         LosesOnly({e \in Execs : Excuses(h, e)})
  PROVE  \E owner2 \in [Tokens -> Execs] : OwnedInv(owner2)'
<1> DEFINE n == tokens + 1
<1> USE DEF OwnedInv
<1>1. proc'[p] = h /\ \A q \in Procs : q # p => proc'[q] = proc[q]
  BY DEF ExecTypes
<1>2. /\ tokens \in Nat /\ n \in Tokens /\ h.e \in Execs /\ h.t \in Nat
      /\ \A e \in Execs : ex[e].token \in 0..MaxTokens
      /\ \A q \in Procs : proc[q].t \in 0..MaxTokens /\ proc[q].rec.token \in 0..MaxTokens
  BY StatesTimes DEF ExecTypes, StatesExecTypeOK, Handler, ExecRecord, Tokens
<1>3. PICK owner2 \in [Tokens -> Execs] : owner2 = [owner EXCEPT ![n] = h.e]
  BY <1>2
<1>4. /\ owner2[n] = h.e
      /\ \A t \in 0..MaxTokens : t # 0 /\ t <= tokens => owner2[t] = owner[t] /\ t # n /\ t <= n
      /\ \A t \in Tokens : t <= tokens => owner2[t] = owner[t] /\ t # n /\ t <= n
  BY <1>2, <1>3, StatesTimes DEF Tokens
<1>5. TablesOwned(owner2)'
  <2>1. ASSUME NEW e \in Execs, ex[e].token # 0
        PROVE  ex[e].token <= n /\ owner2[ex[e].token] = e
    BY <1>2, <1>4, <2>1 DEF TablesOwned
  <2>2. ASSUME NEW t \in DOMAIN pend' PROVE t <= n /\ owner2[t] = pend'[t].e
    BY <1>4 DEF RowsOwned
  <2>3. ASSUME NEW t \in DOMAIN todo' PROVE t <= n /\ owner2[t] = todo'[t].e
    BY <1>4 DEF RowsOwned
  <2> QED
    BY <2>1, <2>2, <2>3 DEF TablesOwned
<1>6. \A q \in Procs : HeldRightly(owner2, proc[q])'
  <2>1. ASSUME NEW q \in Procs, q # p PROVE HeldRightly(owner2, proc[q])'
    BY <1>1, <1>2, <1>4, <2>1 DEF HeldRightly
  <2>2. HeldRightly(owner2, proc[p])'
    BY <1>1, <1>2, <1>4 DEF HeldRightly, Handler
  <2> QED
    BY <2>1, <2>2
<1>7. FreshTokens'
  <2>1. ASSUME NEW q \in Procs, NEW r \in Procs, r # q, Moves(proc'[r])
        PROVE  /\ proc'[q].rec.token # proc'[r].rec.token
               /\ proc'[q].pc # "put" => proc'[q].t # proc'[r].rec.token
    <3>1. CASE r = p
      BY <1>1, <1>2, <2>1, <3>1 DEF HeldRightly
    <3>2. CASE q = p
      BY <1>1, <1>2, <2>1, <3>2 DEF HeldRightly
    <3>3. CASE q # p /\ r # p
      BY <1>1, <2>1, <3>3 DEF FreshTokens, Unshared
    <3> QED
      BY <3>1, <3>2, <3>3
  <2>2. ASSUME NEW q \in Procs, Moves(proc'[q])
        PROVE  /\ proc'[q].t # proc'[q].rec.token
               /\ \A e \in Execs : ex'[e].token # proc'[q].rec.token
               /\ proc'[q].pc = "commit" => proc'[q].rec.token \in DOMAIN pend' \union collected'
    <3>1. CASE q = p
      BY <1>1, <1>2, <3>1 DEF TablesOwned
    <3>2. CASE q # p
      BY <1>1, <2>2, <3>2 DEF FreshTokens, LosesOnly
    <3> QED
      BY <3>1, <3>2
  <2> QED
    BY <2>1, <2>2 DEF FreshTokens, Unshared
<1>8. DroppedIsDead' /\ RunningHasToken'
  BY <1>1 DEF DroppedIsDead, RunningHasToken
<1>9. Resumable'
  <2>1. ASSUME NEW e \in Execs, ex[e].status = "RUNNING", ~(\E q \in Procs : Excuses(proc'[q], e))
        PROVE  ex[e].token \in DOMAIN pend' \union collected'
    <3>1. ~(\E q \in Procs : Excuses(proc[q], e)) /\ ~Excuses(h, e)
      BY <1>1, <2>1
    <3>2. ex[e].token \in DOMAIN pend \union collected
      BY <2>1, <3>1 DEF Resumable
    <3> QED
      BY <2>1, <3>1, <3>2 DEF LosesOnly
  <2> QED
    BY <2>1 DEF Resumable
<1> QED
  BY <1>3, <1>5, <1>6, <1>7, <1>8, <1>9

\* A handler that is over, and a worker that goes on to its next item.
LEMMA QuietStep ==
  ASSUME ExecTypes, NEW owner \in [Tokens -> Execs], OwnedInv(owner),
         NEW p \in Procs, NEW h, Quiet(h), proc' = [proc EXCEPT ![p] = h],
         UNCHANGED <<ex, tokens>>, RowsOwned(owner),
         \A e \in Execs : ~Excuses(proc[p], e), LosesOnly({})
  PROVE  OwnedInv(owner)'
<1>1. tokens \in Nat /\ \A q \in Procs : Moves(proc[q]) => proc[q].rec.token # 0
  BY StatesTimes DEF ExecTypes, StatesExecTypeOK, HandlerOK, Moves
<1>2. HeldRightly(owner, h) /\ Unshared(p, h)
  BY <1>1 DEF Quiet, HeldRightly, Unshared
<1>3. h \in Handler /\ ~Moves(h) /\ h.pc # "drop" /\ \A e \in Execs : ~Excuses(h, e)
  BY DEF Quiet, Moves, Excuses
<1>4. {e \in Execs : Excuses(h, e)} = {}
  BY <1>3
<1> QED
  BY <1>2, <1>3, <1>4, HandlerStep

\* What a handler walks from: a record and a token of its execution, which no
\* handler that moves has drawn, with at most its own execution to excuse.
WalkArguments(owner, p, op, e, t, rec) ==
  /\ UNCHANGED ex /\ RowsOwned(owner)
  /\ op = "redrive" => rec.redrives = 0
  /\ t <= tokens /\ (t # 0 => owner[t] = e)
  /\ rec.token <= tokens /\ (rec.token # 0 => owner[rec.token] = e)
  /\ \A q \in Procs : q # p /\ Moves(proc[q]) =>
       t # proc[q].rec.token /\ rec.token # proc[q].rec.token
  /\ \A e1 \in Execs : ~Excuses(proc[p], e1)
  /\ LosesOnly({}) \/ (op = "finish" /\ LosesOnly({e}))

\* A handler that has walked, whether it parks or ends.
LEMMA WalkStep ==
  ASSUME ExecTypes, NEW owner \in [Tokens -> Execs], OwnedInv(owner), NEW p \in Procs,
         NEW op \in {"start", "redrive", "finish", "resume"}, NEW e \in Execs,
         NEW t \in 0..MaxTokens, NEW rec \in ExecRecord,
         NEW out \in Terminal \union Parking \union {"uncaught"}, NEW new \in PendingRecord,
         Continues(p, op, e, t, rec, out, new), out \in Parking => new.e = e,
         WalkArguments(owner, p, op, e, t, rec)
  PROVE  \E owner2 \in [Tokens -> Execs] : OwnedInv(owner2)'
<1> USE DEF WalkArguments
<1>1. proc' \in [Procs -> Handler]
  BY ContinuesTypes
<1>2. PICK h : /\ proc' = [proc EXCEPT ![p] = h]
               /\ h.op = op /\ h.pc = (IF out \in Parking THEN "park" ELSE "commit")
               /\ h.e = e /\ h.t = t /\ h.out = out /\ h.new = new
               /\ h.rec = IF out \in Parking THEN [rec EXCEPT !.token = tokens'] ELSE rec
  <2>1. DEFINE h == [op |-> op, pc |-> IF out \in Parking THEN "park" ELSE "commit", e |-> e, t |-> t,
                     rec |-> IF out \in Parking THEN [rec EXCEPT !.token = tokens'] ELSE rec,
                     out |-> out, new |-> new]
  <2>2. proc' = [proc EXCEPT ![p] = h]
    BY DEF Continues
  <2>3. /\ h.op = op /\ h.pc = (IF out \in Parking THEN "park" ELSE "commit")
        /\ h.e = e /\ h.t = t /\ h.out = out /\ h.new = new
        /\ h.rec = IF out \in Parking THEN [rec EXCEPT !.token = tokens'] ELSE rec
    OBVIOUS
  <2> HIDE DEF h
  <2> QED
    BY <2>2, <2>3
<1>3. h \in Handler
  BY <1>1, <1>2 DEF ExecTypes
<1>4. LosesOnly({e1 \in Execs : Excuses(h, e1)})
  BY <1>2 DEF Excuses, LosesOnly
<1>5. CASE out \in Parking
  <2>1. tokens' = tokens + 1 /\ h.rec.token = tokens + 1
    BY <1>2, <1>5 DEF Continues, ExecRecord
  <2>2. /\ h.pc = "park" /\ h.out \in Parking /\ h.new.e = h.e
        /\ h.t <= tokens /\ (h.t # 0 => owner[h.t] = h.e)
        /\ \A q \in Procs : q # p /\ Moves(proc[q]) => h.t # proc[q].rec.token
    BY <1>2, <1>5
  <2>3. \A e1 \in Execs : Excuses(proc[p], e1) => Excuses(h, e1)
    OBVIOUS
  <2> HIDE DEF Parking
  <2> QED
    BY <1>2, <1>3, <1>4, <2>1, <2>2, <2>3, DrawStep
<1>6. CASE out \notin Parking
  <2>1. tokens' = tokens /\ h.rec = rec
    BY <1>2, <1>6 DEF Continues
  <2>2. HeldRightly(owner, h) /\ Unshared(p, h) /\ ~Moves(h)
    BY <1>2, <1>6, <2>1 DEF HeldRightly, Unshared, Moves
  <2>3. h.pc # "drop"
    BY <1>2
  <2>4. OwnedInv(owner)'
    BY <1>2, <1>3, <1>4, <2>1, <2>2, <2>3, HandlerStep
  <2> QED
    BY <2>4
<1> QED
  BY <1>5, <1>6

\* A handler that commits: it names its new token, or leaves an ended record.
LEMMA CommitStep ==
  ASSUME ExecTypes, NEW owner \in [Tokens -> Execs], OwnedInv(owner), NEW p \in Procs,
         CommitExecution(p)
  PROVE  OwnedInv(owner)'
<1> USE DEF OwnedInv
<1> DEFINE c == Committed(proc[p])
<1>1. PICK h : /\ proc' = [proc EXCEPT ![p] = h]
               /\ h.pc # "put" /\ ~Moves(h)
               /\ \/ Quiet(h)
                  \/ h.pc = "drop" /\ h.op # "finish" /\ h.t = proc[p].t /\ h.rec = proc[p].rec /\ h.e = proc[p].e
  <2>1. CASE proc[p].op \in {"resume", "timeout"}
    <3>1. DEFINE h == [proc[p] EXCEPT !.pc = "drop"]
    <3>2. proc' = [proc EXCEPT ![p] = h]
      BY <2>1 DEF CommitExecution
    <3>3. /\ h.pc = "drop" /\ h.op # "finish" /\ h.t = proc[p].t /\ h.rec = proc[p].rec
          /\ h.e = proc[p].e
      BY <2>1 DEF ExecTypes, Handler
    <3> HIDE DEF h
    <3> QED
      BY <3>2, <3>3 DEF Moves
  <2>2. CASE proc[p].op \notin {"resume", "timeout"}
    BY <2>2, DoneIsQuiet DEF CommitExecution, Quiet, Moves
  <2> QED
    BY <2>1, <2>2
<1>2. proc'[p] = h /\ \A q \in Procs : q # p => proc'[q] = proc[q]
  BY <1>1 DEF ExecTypes
<1>3. /\ tokens \in Nat /\ UNCHANGED <<pend, tokens, todo, collected>>
      /\ proc[p].pc = "commit" /\ proc[p].e \in Execs
      /\ ex' = [ex EXCEPT ![proc[p].e] = c]
      /\ \A q \in Procs : Moves(proc[q]) => proc[q].rec.token # 0
  BY StatesTimes DEF CommitExecution, ExecTypes, StatesExecTypeOK, Handler, HandlerOK, Moves
<1>4. /\ c.token \in {0, proc[p].rec.token}
      /\ c.status = "RUNNING" => Moves(proc[p]) /\ c.token = proc[p].rec.token
  BY <1>3 DEF Committed, Moves, ExecTypes, Handler, Terminal
<1>5. ex'[proc[p].e] = c /\ \A e \in Execs : e # proc[p].e => ex'[e] = ex[e]
  BY <1>3 DEF ExecTypes, StatesExecTypeOK
<1> HIDE DEF c
<1>6. TablesOwned(owner)' /\ \A q \in Procs : HeldRightly(owner, proc[q])'
  <2>1. TablesOwned(owner)'
    BY <1>3, <1>4, <1>5 DEF TablesOwned, HeldRightly
  <2>2. HeldRightly(owner, h)
    BY <1>1, <1>3 DEF HeldRightly, Quiet
  <2>3. \A q \in Procs : HeldRightly(owner, proc[q])'
    BY <1>2, <1>3, <2>2 DEF HeldRightly
  <2> QED
    BY <2>1, <2>3
<1>7. FreshTokens'
  <2>1. ASSUME NEW q \in Procs, NEW r \in Procs, r # q, Moves(proc'[r])
        PROVE  /\ proc'[q].rec.token # proc'[r].rec.token
               /\ proc'[q].pc # "put" => proc'[q].t # proc'[r].rec.token
    <3>1. r # p /\ proc'[r] = proc[r]
      BY <1>1, <1>2, <2>1
    <3>2. CASE q = p
      BY <1>1, <1>2, <1>3, <2>1, <3>1, <3>2 DEF FreshTokens, Unshared, Quiet
    <3>3. CASE q # p
      BY <1>2, <2>1, <3>1, <3>3 DEF FreshTokens, Unshared
    <3> QED
      BY <3>2, <3>3
  <2>2. ASSUME NEW q \in Procs, Moves(proc'[q])
        PROVE  /\ proc'[q].t # proc'[q].rec.token
               /\ \A e \in Execs : ex'[e].token # proc'[q].rec.token
               /\ proc'[q].pc = "commit" => proc'[q].rec.token \in DOMAIN pend' \union collected'
    <3>1. q # p /\ proc'[q] = proc[q]
      BY <1>1, <1>2, <2>2
    <3>2. c.token # proc[q].rec.token
      BY <1>3, <1>4, <2>2, <3>1 DEF FreshTokens, Unshared
    <3> QED
      BY <1>3, <1>5, <2>2, <3>1, <3>2 DEF FreshTokens
  <2> QED
    BY <2>1, <2>2 DEF FreshTokens, Unshared
<1>8. DroppedIsDead'
  <2>1. ASSUME NEW q \in Procs, proc'[q].pc = "drop", NEW e \in Execs, ex'[e].status = "RUNNING"
        PROVE  ex'[e].token # proc'[q].t
    <3>1. CASE q = p
      <4>1. proc'[q].t = proc[p].t
        BY <1>1, <1>2, <2>1, <3>1 DEF Quiet
      <4>2. CASE e = proc[p].e
        BY <1>4, <1>5, <2>1, <4>1, <4>2 DEF FreshTokens
      <4>3. CASE e # proc[p].e
        BY <1>3, <1>5, <2>1, <4>1, <4>3 DEF RunningHasToken, TablesOwned, HeldRightly
      <4> QED
        BY <4>2, <4>3
    <3>2. CASE q # p
      <4>1. proc'[q] = proc[q]
        BY <1>2, <3>2
      <4>2. CASE e = proc[p].e
        BY <1>4, <1>5, <2>1, <3>2, <4>1, <4>2 DEF FreshTokens, Unshared
      <4>3. CASE e # proc[p].e
        BY <1>5, <2>1, <4>1, <4>3 DEF DroppedIsDead
      <4> QED
        BY <4>2, <4>3
    <3> QED
      BY <3>1, <3>2
  <2> QED
    BY <2>1 DEF DroppedIsDead
<1>9. RunningHasToken'
  BY <1>3, <1>4, <1>5 DEF RunningHasToken
<1>10. Resumable'
  <2>1. ASSUME NEW e \in Execs, ex'[e].status = "RUNNING", ~(\E q \in Procs : Excuses(proc'[q], e))
        PROVE  ex'[e].token \in DOMAIN pend' \union collected'
    <3>1. CASE e = proc[p].e
      BY <1>3, <1>4, <1>5, <2>1, <3>1 DEF FreshTokens
    <3>2. CASE e # proc[p].e
      <4>1. ~(\E q \in Procs : Excuses(proc[q], e))
        BY <1>2, <2>1, <3>2 DEF Excuses
      <4> QED
        BY <1>3, <1>5, <2>1, <3>2, <4>1 DEF Resumable
    <3> QED
      BY <3>1, <3>2
  <2> QED
    BY <2>1 DEF Resumable
<1> QED
  BY <1>6, <1>7, <1>8, <1>9, <1>10

\* A token that a handler finds running in a record: it is that execution's,
\* and no handler that moves has drawn it.
LEMMA RunningToken ==
  ASSUME ExecTypes, NEW owner \in [Tokens -> Execs], OwnedInv(owner), NEW e \in Execs
  PROVE  /\ ex[e] \in ExecRecord /\ ex[e].token <= tokens
         /\ ex[e].token # 0 => owner[ex[e].token] = e
         /\ \A q \in Procs : Moves(proc[q]) => ex[e].token # proc[q].rec.token /\ proc[q].rec.token # 0
BY StatesTimes DEF ExecTypes, StatesExecTypeOK, ExecRecord, OwnedInv, TablesOwned, FreshTokens,
   HandlerOK, Moves

\* NotReady deletes a record, but collects it.
LEMMA NotReadyLoses ==
  ASSUME NEW t \in Tokens, NEW e, NEW owner, NotReady(t, e), TablesOwned(owner),
         DOMAIN pend \subseteq Tokens, DOMAIN todo \subseteq Tokens,
         todo' = todo \/ todo' = Del(todo, t)
  PROVE  RowsOwned(owner) /\ LosesOnly({})
BY DEF NotReady, Del, TablesOwned, RowsOwned, LosesOnly

\* Rows that stay the same keep their owners.
LEMMA SameRows ==
  ASSUME NEW owner, TablesOwned(owner), DOMAIN pend \subseteq Tokens, DOMAIN todo \subseteq Tokens,
         NEW t, pend' = pend \/ pend' = Del(pend, t), NEW k, todo' = todo \/ todo' = Del(todo, k)
  PROVE  RowsOwned(owner)
BY DEF Del, TablesOwned, RowsOwned

\* A handler that walks: from a record it owns, to the end or to a new token.
LEMMA WalkedStep ==
  ASSUME ExecTypes, NEW owner \in [Tokens -> Execs], OwnedInv(owner), NEW p \in Procs,
         NEW op \in {"start", "redrive", "finish", "resume"}, NEW e \in Execs,
         NEW t \in 0..MaxTokens, NEW rec \in ExecRecord, NEW dl \in Times, NEW fromStart \in BOOLEAN,
         Walks(p, op, e, t, rec, dl, fromStart), WalkArguments(owner, p, op, e, t, rec)
  PROVE  \E owner2 \in [Tokens -> Execs] : OwnedInv(owner2)'
<1>1. PICK out \in Terminal \union Parking \union {"uncaught"}, new \in PendingRecord :
        Continues(p, op, e, t, rec, out, new) /\ (out \in Parking => new.e = e)
  BY WalksTypes DEF WalkArguments
<1> QED
  BY <1>1, WalkStep

\* RedriveExecution deletes what an ended execution named.
LEMMA RedriveStep ==
  ASSUME ExecTypes, NEW owner \in [Tokens -> Execs], OwnedInv(owner),
         NEW p \in Procs, NEW e \in Execs, RedriveExecution(p, e)
  PROVE  \E owner2 \in [Tokens -> Execs] : OwnedInv(owner2)'
<1>1. PICK rec \in ExecRecord : rec = ex[e]
  BY RunningToken
<1>2. PICK dl \in Times : dl = sfnow + ExecTimeout
  BY StatesTimes DEF Times, NoTime, ExecTypes, StatesExecTypeOK
<1>3. /\ Walks(p, "redrive", e, 0, rec, dl, TRUE)
      /\ rec.redrives = 0 /\ UNCHANGED <<ex, todo, collected>> /\ ex[e].status # "RUNNING"
      /\ pend' = pend \/ pend' = Del(pend, rec.token)
  BY <1>1, <1>2 DEF RedriveExecution, Terminal
<1>4. /\ DOMAIN pend \subseteq Tokens /\ DOMAIN todo \subseteq Tokens /\ TablesOwned(owner)
      /\ tokens \in Nat /\ 0 \in 0..MaxTokens /\ \A t \in Tokens : t # 0
  BY StatesTimes DEF ExecTypes, StatesExecTypeOK, OwnedInv, Tokens
<1>5. \A e1 \in Execs : ~Excuses(proc[p], e1)
  BY DEF RedriveExecution, Idle, Excuses
<1>6. RowsOwned(owner)
  BY <1>3, <1>4, SameRows
<1>7. /\ rec.token <= tokens /\ (rec.token # 0 => owner[rec.token] = e)
      /\ \A q \in Procs : Moves(proc[q]) => 0 # proc[q].rec.token /\ rec.token # proc[q].rec.token
  BY <1>1, RunningToken
<1>8. LosesOnly({})
  <2>1. ASSUME NEW t \in DOMAIN pend \ DOMAIN pend'
        PROVE  /\ \A e1 \in Execs : ex[e1].status = "RUNNING" => ex[e1].token # t
               /\ \A q \in Procs : Moves(proc[q]) => proc[q].rec.token # t
    <3>1. t = rec.token /\ t # 0
      BY <1>3, <1>4, <2>1 DEF Del
    <3> QED
      BY <1>1, <1>3, <1>7, <3>1, RunningToken
  <2> QED
    BY <1>3, <2>1 DEF LosesOnly
<1>9. WalkArguments(owner, p, "redrive", e, 0, rec)
  BY <1>3, <1>4, <1>5, <1>6, <1>7, <1>8 DEF WalkArguments
<1> QED
  BY <1>3, <1>4, <1>9, WalkedStep

\* What finishTask does before its delete.
LEMMA FinishTaskStep ==
  ASSUME ExecTypes, NEW owner \in [Tokens -> Execs], OwnedInv(owner), NEW p \in Procs,
         NEW t \in Tokens, FinishTask(p, t), \A e \in Execs : ~Excuses(proc[p], e),
         todo' = todo \/ todo' = Del(todo, t)
  PROVE  OwnedInv(owner)'
<1>1. /\ DOMAIN pend \subseteq Tokens /\ DOMAIN todo \subseteq Tokens /\ TablesOwned(owner)
      /\ t \in DOMAIN pend /\ pend[t] \in PendingRecord /\ pend[t].e \in Execs
      /\ UNCHANGED <<ex, tokens>>
      /\ t <= tokens /\ owner[t] = pend[t].e
  BY DEF ExecTypes, StatesExecTypeOK, OwnedInv, TablesOwned, FinishTask, PendingRecord
<1>2. CASE PendingExecution(t, pend[t].e)
  <2>1. DEFINE h == [Idle EXCEPT !.op = "finish", !.pc = "take", !.e = pend[t].e, !.t = t,
                                 !.rec = ex[pend[t].e], !.new = pend[t]]
  <2>2. proc' = [proc EXCEPT ![p] = h] /\ pend' = pend /\ collected' = collected
    BY <1>2 DEF FinishTask
  <2>3. /\ h.op = "finish" /\ h.pc = "take" /\ h.e = pend[t].e /\ h.t = t
        /\ h.rec = ex[pend[t].e] /\ h.new = pend[t]
    BY DEF Idle
  <2>4. h \in Handler
    BY <1>1, <2>2, FinishTaskTypes DEF ExecTypes
  <2> HIDE DEF h
  <2>5. RowsOwned(owner) /\ LosesOnly({e \in Execs : Excuses(h, e)})
    BY <1>1, <2>2, SameRows DEF LosesOnly
  <2>6. HeldRightly(owner, h)
    BY <1>1, <2>3, RunningToken DEF HeldRightly
  <2>7. Unshared(p, h)
    BY <1>1, <1>2, <2>3, RunningToken DEF Unshared, PendingExecution
  <2> QED
    BY <1>1, <2>2, <2>3, <2>4, <2>5, <2>6, <2>7, HandlerStep DEF Moves
<1>3. CASE ~PendingExecution(t, pend[t].e)
  <2>1. NotReady(t, pend[t].e) /\ Done(p)
    BY <1>3 DEF FinishTask
  <2>2. RowsOwned(owner) /\ LosesOnly({})
    BY <1>1, <2>1, NotReadyLoses
  <2> QED
    BY <1>1, <2>1, <2>2, DoneIsQuiet, QuietStep
<1> QED
  BY <1>2, <1>3

\* StopExecution's delete: the execution it ends next owned the token.
LEMMA StopTakesStep ==
  ASSUME ExecTypes, ExecTypes', NEW owner \in [Tokens -> Execs], OwnedInv(owner),
         NEW p \in Procs, StopTakes(p)
  PROVE  OwnedInv(owner)'
<1>1. PICK g \in Handler : g = proc[p]
  BY DEF ExecTypes
<1>2. DEFINE h == [g EXCEPT !.pc = "commit", !.out = "ABORTED",
                            !.rec.redrive = @ \/ g.rec.token \in DOMAIN pend]
<1>3. /\ proc' = [proc EXCEPT ![p] = h] /\ UNCHANGED <<ex, tokens, todo, collected>>
      /\ g.op = "stop" /\ g.pc = "take" /\ pend' = Del(pend, g.rec.token)
  BY <1>1 DEF StopTakes
<1>4. h \in Handler
  BY <1>3 DEF ExecTypes
<1>5. /\ h.op = "stop" /\ h.pc = "commit" /\ h.out = "ABORTED" /\ h.e = g.e /\ h.t = g.t
      /\ h.rec.token = g.rec.token
  BY <1>3 DEF Handler, ExecRecord
<1> HIDE DEF h
<1>6. /\ DOMAIN pend \subseteq Tokens /\ DOMAIN todo \subseteq Tokens /\ TablesOwned(owner)
      /\ HeldRightly(owner, g) /\ Unshared(p, g) /\ \A t \in Tokens : t # 0
  BY <1>1 DEF ExecTypes, StatesExecTypeOK, OwnedInv, FreshTokens, Tokens
<1>7. RowsOwned(owner)
  BY <1>3, <1>6, SameRows
<1>8. HeldRightly(owner, h) /\ Unshared(p, h) /\ ~Moves(h) /\ \A e \in Execs : ~Excuses(proc[p], e)
  BY <1>1, <1>3, <1>5, <1>6 DEF HeldRightly, Unshared, Moves, Excuses, Parking, Kinds
<1>9. LosesOnly({e \in Execs : Excuses(h, e)})
  <2>1. ASSUME NEW t \in DOMAIN pend \ DOMAIN pend'
        PROVE  /\ \A e \in Execs : ex[e].status = "RUNNING" /\ ex[e].token = t => Excuses(h, e)
               /\ \A q \in Procs : Moves(proc[q]) => proc[q].rec.token # t
    <3>1. t = g.rec.token /\ t # 0
      BY <1>3, <1>6, <2>1 DEF Del
    <3>2. \A e \in Execs : ex[e].token = t => e = g.e
      BY <1>6, <3>1 DEF TablesOwned, HeldRightly
    <3>3. ~Moves(proc[p])
      BY <1>1, <1>3 DEF Moves
    <3> QED
      BY <1>5, <1>6, <3>1, <3>2, <3>3 DEF Excuses, Unshared
  <2> QED
    BY <1>3, <2>1 DEF LosesOnly
<1> QED
  BY <1>3, <1>4, <1>5, <1>7, <1>8, <1>9, HandlerStep

\* finishTask's delete, and the walk or the failure it goes on with.
LEMMA FinishTakesStep ==
  ASSUME ExecTypes, NEW owner \in [Tokens -> Execs], OwnedInv(owner),
         NEW p \in Procs, FinishTakes(p)
  PROVE  \E owner2 \in [Tokens -> Execs] : OwnedInv(owner2)'
<1>1. PICK g \in Handler : g = proc[p]
  BY DEF ExecTypes
<1>2. PICK new \in PendingRecord : new = g.new
  BY DEF Handler
<1>3. PICK offered \in PendingRecord :
        offered = [new EXCEPT !.started = FALSE, !.tdl = NoTime, !.hdl = NoTime] /\ offered.e = new.e
  BY TimersArePending
<1>4. /\ g.e \in Execs /\ g.t \in 0..MaxTokens /\ g.rec \in ExecRecord /\ new.dl \in Times
      /\ FALSE \in BOOLEAN
  BY DEF Handler, PendingRecord
<1>5. PICK parked \in PendingRecord : parked = ParkedRecord(g.e, "wait", new.dl) /\ parked.e = g.e
  BY <1>4, ParkedIsPending DEF Kinds
<1>6. /\ g.op = "finish" /\ g.pc = "take" /\ UNCHANGED <<ex, todo, collected>>
      /\ pend' = Del(pend, g.t)
  BY <1>1 DEF FinishTakes
<1>7. \/ Walks(p, "finish", g.e, g.t, g.rec, new.dl, FALSE)
      \/ Continues(p, "finish", g.e, g.t, g.rec, "uncaught", NoPending)
      \/ Continues(p, "finish", g.e, g.t, g.rec, "wait", parked)
      \/ Continues(p, "finish", g.e, g.t, g.rec, "again", offered)
  BY <1>1, <1>2, <1>3, <1>5 DEF FinishTakes
<1>8. /\ DOMAIN pend \subseteq Tokens /\ DOMAIN todo \subseteq Tokens /\ TablesOwned(owner)
      /\ HeldRightly(owner, g) /\ Unshared(p, g) /\ \A t \in Tokens : t # 0
      /\ \A e \in Execs : ~Excuses(proc[p], e)
  BY <1>1, <1>6 DEF ExecTypes, StatesExecTypeOK, OwnedInv, FreshTokens, Tokens, Excuses
<1>9. RowsOwned(owner)
  BY <1>6, <1>8, SameRows
<1>10. /\ g.t <= tokens /\ (g.t # 0 => owner[g.t] = g.e)
       /\ g.rec.token <= tokens /\ (g.rec.token # 0 => owner[g.rec.token] = g.e)
       /\ \A q \in Procs : q # p /\ Moves(proc[q]) =>
            g.t # proc[q].rec.token /\ g.rec.token # proc[q].rec.token
       /\ new.e = g.e
  BY <1>2, <1>6, <1>8 DEF HeldRightly, Unshared
<1>11. LosesOnly({g.e})
  <2>1. ASSUME NEW t \in DOMAIN pend \ DOMAIN pend'
        PROVE  /\ \A e \in Execs : ex[e].status = "RUNNING" /\ ex[e].token = t => e = g.e
               /\ \A q \in Procs : Moves(proc[q]) => proc[q].rec.token # t
    <3>1. t = g.t /\ t # 0
      BY <1>6, <1>8, <2>1 DEF Del
    <3>2. \A e \in Execs : ex[e].token = t => e = g.e
      BY <1>8, <1>10, <3>1 DEF TablesOwned
    <3>3. ~Moves(proc[p])
      BY <1>1, <1>6 DEF Moves
    <3> QED
      BY <1>10, <3>1, <3>2, <3>3
  <2> QED
    BY <1>6, <2>1 DEF LosesOnly
<1>a. WalkArguments(owner, p, "finish", g.e, g.t, g.rec)
  BY <1>6, <1>8, <1>9, <1>10, <1>11 DEF WalkArguments
<1>12. CASE Walks(p, "finish", g.e, g.t, g.rec, new.dl, FALSE)
  BY <1>4, <1>a, <1>12, WalkedStep
<1>13. CASE Continues(p, "finish", g.e, g.t, g.rec, "uncaught", NoPending)
  <2>1. NoPending \in PendingRecord /\ "uncaught" \notin Parking
    BY IdleIsHandler DEF Idle, Handler, Parking, Kinds
  <2> QED
    BY <1>4, <1>a, <1>13, <2>1, WalkStep
<1>14. CASE Continues(p, "finish", g.e, g.t, g.rec, "wait", parked)
  <2>1. "wait" \in Parking
    BY DEF Parking, Kinds
  <2> QED
    BY <1>4, <1>5, <1>a, <1>14, <2>1, WalkStep
<1>15. CASE Continues(p, "finish", g.e, g.t, g.rec, "again", offered)
  <2>1. "again" \in Parking
    BY DEF Parking, Kinds
  <2> QED
    BY <1>3, <1>4, <1>10, <1>a, <1>15, <2>1, WalkStep
<1> QED
  BY <1>7, <1>12, <1>13, <1>14, <1>15

\* A claim or a heartbeat writes back the record it read.
LEMMA PutsTimersStep ==
  ASSUME ExecTypes, NEW owner \in [Tokens -> Execs], OwnedInv(owner),
         NEW p \in Procs, PutsTimers(p)
  PROVE  OwnedInv(owner)'
<1>1. PICK g \in Handler : g = proc[p] /\ HandlerOK(g)
  BY DEF ExecTypes
<1>2. PICK new \in PendingRecord : new = g.new
  BY DEF Handler
<1>3. PICK r : /\ pend' = Put(pend, g.t, r)
               /\ r \in {StartTaskTimers(new), [new EXCEPT !.hdl = sfnow + Heartbeat]}
  BY <1>1, <1>2 DEF PutsTimers
<1>4. r.e = new.e
  BY <1>3, TimersArePending
<1>5. /\ g.pc = "put" /\ UNCHANGED <<ex, tokens, todo, collected>> /\ Done(p)
      /\ g.t \in Tokens
  BY <1>1, StatesTimes DEF PutsTimers, Handler, HandlerOK, Tokens
<1>6. /\ DOMAIN pend \subseteq Tokens /\ DOMAIN todo \subseteq Tokens /\ TablesOwned(owner)
      /\ HeldRightly(owner, g) /\ g.t # 0
  BY <1>1, <1>5 DEF ExecTypes, StatesExecTypeOK, OwnedInv, Tokens
<1>7. RowsOwned(owner)
  BY <1>2, <1>3, <1>4, <1>5, <1>6 DEF RowsOwned, TablesOwned, HeldRightly, Put
<1>8. LosesOnly({})
  BY <1>3, <1>5 DEF LosesOnly, Put
<1>9. \A e \in Execs : ~Excuses(proc[p], e)
  BY <1>1, <1>5 DEF Excuses
<1> QED
  BY <1>5, <1>7, <1>8, <1>9, DoneIsQuiet, QuietStep

\* The new pending record is stored before the execution names it.
LEMMA StorePendingStep ==
  ASSUME ExecTypes, NEW owner \in [Tokens -> Execs], OwnedInv(owner),
         NEW p \in Procs, StorePending(p)
  PROVE  OwnedInv(owner)'
<1>1. PICK g \in Handler : g = proc[p] /\ HandlerOK(g)
  BY DEF ExecTypes
<1>2. DEFINE h == [g EXCEPT !.pc = "commit"]
<1>3. /\ proc' = [proc EXCEPT ![p] = h] /\ UNCHANGED <<ex, tokens, todo, collected>>
      /\ g.pc = "park" /\ g.out \in Parking /\ pend' = Put(pend, g.rec.token, g.new)
      /\ g.rec.token \in Tokens
  BY <1>1, StatesTimes DEF StorePending, HandlerOK, Handler, ExecRecord, Tokens
<1>4. /\ h \in Handler /\ h.op = g.op /\ h.pc = "commit" /\ h.out = g.out /\ h.e = g.e
      /\ h.t = g.t /\ h.rec = g.rec /\ h.new = g.new
  BY DEF Handler
<1> HIDE DEF h
<1>5. /\ DOMAIN pend \subseteq Tokens /\ DOMAIN todo \subseteq Tokens /\ TablesOwned(owner)
      /\ HeldRightly(owner, g) /\ Unshared(p, g) /\ \A t \in Tokens : t # 0
  BY <1>1 DEF ExecTypes, StatesExecTypeOK, OwnedInv, FreshTokens, Tokens
<1>6. RowsOwned(owner)
  BY <1>3, <1>5 DEF RowsOwned, TablesOwned, HeldRightly, Put
<1>7. HeldRightly(owner, h) /\ Unshared(p, h) /\ Moves(proc[p])
  BY <1>1, <1>3, <1>4, <1>5 DEF HeldRightly, Unshared, Moves
<1>8. h.rec.token \in DOMAIN pend' /\ LosesOnly({e \in Execs : Excuses(h, e)})
  BY <1>3, <1>4 DEF LosesOnly, Put
<1>9. \A e \in Execs : Excuses(proc[p], e) => Excuses(h, e)
  BY <1>1, <1>4 DEF Excuses
<1> QED
  BY <1>1, <1>3, <1>4, <1>6, <1>7, <1>8, <1>9, HandlerStep

\* The worker deletes the record it handled, which no execution names.
LEMMA DropPendingStep ==
  ASSUME ExecTypes, NEW owner \in [Tokens -> Execs], OwnedInv(owner),
         NEW p \in Procs, DropPending(p)
  PROVE  OwnedInv(owner)'
<1>1. /\ proc[p].pc = "drop" /\ pend' = Del(pend, proc[p].t) /\ Done(p)
      /\ UNCHANGED <<ex, tokens, todo, collected>>
  BY DEF DropPending
<1>2. /\ DOMAIN pend \subseteq Tokens /\ DOMAIN todo \subseteq Tokens /\ TablesOwned(owner)
      /\ Unshared(p, proc[p]) /\ DroppedIsDead
  BY DEF ExecTypes, StatesExecTypeOK, OwnedInv, FreshTokens
<1>3. RowsOwned(owner)
  BY <1>1, <1>2, SameRows
<1>4. LosesOnly({}) /\ \A e \in Execs : ~Excuses(proc[p], e)
  BY <1>1, <1>2 DEF LosesOnly, Del, Unshared, DroppedIsDead, Moves, Excuses
<1> QED
  BY <1>1, <1>3, <1>4, DoneIsQuiet, QuietStep

\* The worker's next item, when its record is not ready: it stays where it is.
LEMMA WorkerStays ==
  ASSUME ExecTypes, NEW owner \in [Tokens -> Execs], OwnedInv(owner), AtNextItem,
         UNCHANGED <<ex, proc, tokens>>, RowsOwned(owner), LosesOnly({})
  PROVE  OwnedInv(owner)'
<1>1. PICK h : h = [Idle EXCEPT !.op = "list", !.pc = "take"] /\ Quiet(h)
  BY IdleIsQuiet
<1>2. Worker \in Procs /\ proc[Worker] = h /\ proc' = [proc EXCEPT ![Worker] = h]
  BY <1>1 DEF AtNextItem, Procs, ExecTypes
<1>3. \A e \in Execs : ~Excuses(proc[Worker], e)
  BY <1>1, <1>2 DEF Quiet, Excuses
<1> QED
  BY <1>1, <1>2, <1>3, QuietStep

\* timeoutExecution of a record listed earlier.
LEMMA TimeoutExecutionStep ==
  ASSUME ExecTypes, ExecTypes', NEW owner \in [Tokens -> Execs], OwnedInv(owner),
         NEW t \in Tokens, TimeoutExecution(t)
  PROVE  OwnedInv(owner)'
<1>1. /\ DOMAIN pend \subseteq Tokens /\ DOMAIN todo \subseteq Tokens /\ TablesOwned(owner)
      /\ t \in DOMAIN todo /\ todo[t].e \in Execs /\ t <= tokens /\ owner[t] = todo[t].e
      /\ UNCHANGED <<ex, tokens>> /\ todo' = Del(todo, t) /\ AtNextItem /\ Worker \in Procs
  BY DEF ExecTypes, StatesExecTypeOK, OwnedInv, TablesOwned, TimeoutExecution, PendingRecord, Procs
<1>2. CASE PendingExecution(t, todo[t].e)
  <2>1. DEFINE h == [Idle EXCEPT !.op = "timeout", !.pc = "commit", !.e = todo[t].e, !.t = t,
                                 !.rec = ex[todo[t].e], !.out = "TIMED_OUT"]
  <2>2. proc' = [proc EXCEPT ![Worker] = h] /\ UNCHANGED <<pend, collected>>
    BY <1>2 DEF TimeoutExecution
  <2>3. /\ h.op = "timeout" /\ h.pc = "commit" /\ h.e = todo[t].e /\ h.t = t
        /\ h.rec = ex[todo[t].e] /\ h.out = "TIMED_OUT"
    BY DEF Idle
  <2>4. h \in Handler
    BY <1>1, <2>2 DEF ExecTypes
  <2> HIDE DEF h
  <2>5. RowsOwned(owner) /\ LosesOnly({e \in Execs : Excuses(h, e)})
    BY <1>1, <2>2, SameRows DEF LosesOnly
  <2>6. HeldRightly(owner, h)
    BY <1>1, <2>3, RunningToken DEF HeldRightly
  <2>7. Unshared(Worker, h) /\ ~Moves(h)
    BY <1>1, <1>2, <2>3, RunningToken DEF Unshared, PendingExecution, Moves, Parking, Kinds
  <2>8. \A e \in Execs : ~Excuses(proc[Worker], e)
    BY <1>1 DEF AtNextItem, Idle, Excuses
  <2> QED
    BY <1>1, <2>2, <2>3, <2>4, <2>5, <2>6, <2>7, <2>8, HandlerStep
<1>3. CASE ~PendingExecution(t, todo[t].e)
  <2>1. NotReady(t, todo[t].e) /\ UNCHANGED proc
    BY <1>3 DEF TimeoutExecution
  <2>2. RowsOwned(owner) /\ LosesOnly({})
    BY <1>1, <2>1, NotReadyLoses
  <2> QED
    BY <1>1, <2>1, <2>2, WorkerStays
<1> QED
  BY <1>2, <1>3

\* resumeWait of a record listed earlier.
LEMMA ResumeWaitStep ==
  ASSUME ExecTypes, NEW owner \in [Tokens -> Execs], OwnedInv(owner),
         NEW t \in Tokens, ResumeWait(t)
  PROVE  \E owner2 \in [Tokens -> Execs] : OwnedInv(owner2)'
<1>1. PICK e \in Execs, dl \in Times : e = todo[t].e /\ dl = todo[t].dl
  BY DEF ExecTypes, StatesExecTypeOK, ResumeWait, PendingRecord
<1>2. /\ DOMAIN pend \subseteq Tokens /\ DOMAIN todo \subseteq Tokens /\ TablesOwned(owner)
      /\ t \in DOMAIN todo /\ t <= tokens /\ owner[t] = e /\ t \in 0..MaxTokens /\ 0 \in 0..MaxTokens
      /\ UNCHANGED ex /\ todo' = Del(todo, t) /\ AtNextItem /\ Worker \in Procs
      /\ tokens \in Nat /\ FALSE \in BOOLEAN
  BY <1>1, StatesTimes
     DEF ExecTypes, StatesExecTypeOK, OwnedInv, TablesOwned, ResumeWait, Procs, Tokens
<1>3. CASE PendingExecution(t, e)
  <2>1. PICK old \in ExecRecord : old = ex[e]
    BY RunningToken
  <2>a. [old EXCEPT !.token = 0] \in ExecRecord /\ [old EXCEPT !.token = 0].token = 0
    BY <1>2 DEF ExecRecord
  <2>2. PICK rec \in ExecRecord : rec = [old EXCEPT !.token = 0] /\ rec.token = 0
    BY <2>a
  <2>3. Walks(Worker, "resume", e, t, rec, dl, FALSE) /\ UNCHANGED <<pend, collected>>
    BY <1>1, <1>3, <2>1, <2>2 DEF ResumeWait
  <2>4. RowsOwned(owner) /\ LosesOnly({})
    BY <1>2, <2>3, SameRows DEF LosesOnly
  <2>5. \A q \in Procs : Moves(proc[q]) => t # proc[q].rec.token /\ 0 # proc[q].rec.token
    BY <1>3, RunningToken DEF PendingExecution
  <2>6. \A e1 \in Execs : ~Excuses(proc[Worker], e1)
    BY <1>2 DEF AtNextItem, Idle, Excuses
  <2>7. WalkArguments(owner, Worker, "resume", e, t, rec)
    BY <1>2, <2>2, <2>4, <2>5, <2>6 DEF WalkArguments
  <2> QED
    BY <1>2, <2>3, <2>7, WalkedStep
<1>4. CASE ~PendingExecution(t, e)
  <2>1. NotReady(t, e) /\ UNCHANGED <<proc, tokens>>
    BY <1>1, <1>4 DEF ResumeWait
  <2>2. RowsOwned(owner) /\ LosesOnly({})
    BY <1>2, <2>1, NotReadyLoses
  <2>3. OwnedInv(owner)'
    BY <1>2, <2>1, <2>2, WorkerStays
  <2> QED
    BY <2>3
<1> QED
  BY <1>3, <1>4

\* Every action of the executions preserves the invariant.
LEMMA ExecStep == ExecInv /\ [ExecNext]_sfvars => ExecInv'
<1> SUFFICES ASSUME ExecInv, [ExecNext]_sfvars PROVE ExecInv'
    OBVIOUS
<1>1. PICK owner \in [Tokens -> Execs] : OwnedInv(owner)
  BY DEF ExecInv
<1>2. ExecTypes /\ ExecTypes'
  BY ExecTypeStep DEF ExecInv
<1> DEFINE Goal == \E o \in [Tokens -> Execs] : OwnedInv(o)'
<1>3. SUFFICES Goal
  BY <1>2 DEF ExecInv
<1> USE <1>1
<1>a. ASSUME OwnedInv(owner)' PROVE Goal
  BY <1>a
<1> HIDE DEF Goal
<1>t. /\ proc \in [Procs -> Handler] /\ \A p \in Procs : proc[p] \in Handler /\ HandlerOK(proc[p])
      /\ DOMAIN pend \subseteq Tokens /\ \A t \in DOMAIN pend : pend[t] \in PendingRecord
      /\ DOMAIN todo \subseteq Tokens /\ \A t \in DOMAIN todo : todo[t] \in PendingRecord
      /\ tokens \in Nat /\ 0 \in 0..MaxTokens /\ \A t \in Tokens : t \in 0..MaxTokens /\ t # 0
      /\ TablesOwned(owner) /\ FreshTokens
      /\ \A p \in Procs : HeldRightly(owner, proc[p]) /\ Unshared(p, proc[p])
      /\ \A p \in Procs : Moves(proc[p]) => proc[p].rec.token # 0
  BY <1>2, StatesTimes DEF ExecTypes, StatesExecTypeOK, Tokens, OwnedInv, FreshTokens, HandlerOK, Moves
<1> USE <1>2, <1>t
<1>c. ASSUME NEW p \in Callers PROVE p \in Procs
  BY DEF Procs
<1>d. Worker \in Procs
  BY DEF Procs
<1>e. ASSUME NEW p \in Procs, proc[p].pc \notin {"park", "commit"}
      PROVE  \A e \in Execs : ~Excuses(proc[p], e)
  BY <1>e DEF Excuses
<1>f. Idle.pc = "idle" /\ NoExec \in ExecRecord /\ NoExec.token = 0 /\ NoExec.redrives = 0
  BY IdleIsHandler DEF Idle, Handler, NoExec
<1>4. ASSUME NEW p \in Callers, NEW e \in Execs, StartExecution(p, e) PROVE Goal
  <2>1. PICK dl \in Times : dl = sfnow + ExecTimeout
    BY StatesTimes DEF Times, NoTime, ExecTypes, StatesExecTypeOK
  <2>2. /\ Walks(p, "start", e, 0, NoExec, dl, TRUE)
        /\ proc[p].pc = "idle" /\ UNCHANGED <<ex, pend, todo, collected>>
    BY <1>4, <1>f, <2>1 DEF StartExecution
  <2>3. RowsOwned(owner) /\ LosesOnly({})
    BY <2>2, SameRows DEF LosesOnly
  <2>4. WalkArguments(owner, p, "start", e, 0, NoExec)
    BY <1>e, <1>f, <1>c, <2>2, <2>3 DEF WalkArguments
  <2>5. \E owner2 \in [Tokens -> Execs] : OwnedInv(owner2)'
    BY <1>c, <1>f, <2>2, <2>4, WalkedStep
  <2> QED
    BY <2>5 DEF Goal
<1>5. ASSUME NEW p \in Callers, NEW e \in Execs, RedriveExecution(p, e) PROVE Goal
  BY <1>c, <1>5, RedriveStep DEF Goal
<1>6. ASSUME NEW p \in Callers, NEW e \in Execs, StopExecution(p, e) PROVE Goal
  <2>1. DEFINE h == [Idle EXCEPT !.op = "stop", !.pc = "take", !.e = e, !.rec = ex[e]]
  <2>2. /\ proc' = [proc EXCEPT ![p] = h] /\ UNCHANGED <<ex, tokens, pend, todo, collected>>
        /\ proc[p].pc = "idle"
    BY <1>6, <1>f DEF StopExecution
  <2>3. h.op = "stop" /\ h.pc = "take" /\ h.e = e /\ h.rec = ex[e] /\ h.t = 0
    BY DEF Idle
  <2>4. h \in Handler
    BY <1>c, <2>2 DEF ExecTypes
  <2> HIDE DEF h
  <2>5. RowsOwned(owner) /\ LosesOnly({e1 \in Execs : Excuses(h, e1)})
    BY <2>2, SameRows DEF LosesOnly
  <2>6. HeldRightly(owner, h) /\ Unshared(p, h) /\ ~Moves(h)
    BY <2>3, RunningToken DEF HeldRightly, Unshared, Moves
  <2>7. OwnedInv(owner)'
    BY <1>c, <1>e, <2>2, <2>3, <2>4, <2>5, <2>6, HandlerStep
  <2> QED
    BY <1>a, <2>7
<1>7. ASSUME NEW p \in Callers, NEW t \in Tokens, SendTask(p, t) PROVE Goal
  <2>1. FinishTask(p, t) /\ todo' = todo /\ proc[p].pc = "idle"
    BY <1>7, <1>f DEF SendTask
  <2> QED
    BY <1>a, <1>c, <1>e, <2>1, FinishTaskStep
<1>8. ASSUME NEW p \in Callers, NEW t \in Tokens, NEW op \in {"claim", "beat"}, ReadsTask(p, t, op)
      PROVE Goal
  <2>1. DEFINE h == [Idle EXCEPT !.op = op, !.pc = "put", !.t = t, !.new = pend[t]]
  <2>2. /\ proc' = [proc EXCEPT ![p] = h] /\ UNCHANGED <<ex, tokens, pend, todo, collected>>
        /\ proc[p].pc = "idle" /\ t \in DOMAIN pend
    BY <1>8, <1>f DEF ReadsTask
  <2>3. h.op = op /\ h.pc = "put" /\ h.t = t /\ h.new = pend[t] /\ h.rec = NoExec
    BY DEF Idle
  <2>4. h \in Handler
    BY <1>c, <2>2 DEF ExecTypes
  <2> HIDE DEF h
  <2>5. RowsOwned(owner) /\ LosesOnly({e1 \in Execs : Excuses(h, e1)})
    BY <2>2, SameRows DEF LosesOnly
  <2>6. HeldRightly(owner, h) /\ Unshared(p, h) /\ ~Moves(h)
    BY <1>f, <2>2, <2>3 DEF HeldRightly, Unshared, Moves, TablesOwned
  <2>7. OwnedInv(owner)'
    BY <1>c, <1>e, <2>2, <2>3, <2>4, <2>5, <2>6, HandlerStep
  <2> QED
    BY <1>a, <2>7
<1>9. ASSUME NEW p \in Procs, HandlerSteps(p) PROVE Goal
  BY <1>a, <1>9, StopTakesStep, FinishTakesStep, PutsTimersStep, StorePendingStep, CommitStep,
     DropPendingStep DEF HandlerSteps, Goal
<1>10. ASSUME WorkerLists PROVE Goal
  <2>1. PICK g \in Handler : g = proc[Worker] /\ g = [Idle EXCEPT !.op = "list"]
    BY <1>d, <1>10 DEF WorkerLists
  <2>2. DEFINE h == [g EXCEPT !.pc = "take"]
  <2>3. proc' = [proc EXCEPT ![Worker] = h] /\ UNCHANGED <<ex, tokens, pend, collected>>
    BY <1>10, <2>1 DEF WorkerLists
  <2>4. h = [Idle EXCEPT !.op = "list", !.pc = "take"]
    BY <2>1 DEF Idle
  <2> HIDE DEF h
  <2>5. Quiet(h) /\ \A e \in Execs : ~Excuses(proc[Worker], e)
    BY <1>f, <2>1, <2>4, IdleIsQuiet DEF Excuses, Idle
  <2>6. RowsOwned(owner) /\ LosesOnly({})
    BY <1>10, <2>3 DEF WorkerLists, RowsOwned, LosesOnly, TablesOwned
  <2>7. OwnedInv(owner)'
    BY <1>d, <2>3, <2>5, <2>6, QuietStep
  <2> QED
    BY <1>a, <2>7
<1>11. ASSUME WorkerSleeps \/ WorkerWakes \/ WorkerRestarts PROVE Goal
  <2>1. PICK h : Quiet(h) /\ proc' = [proc EXCEPT ![Worker] = h]
    BY <1>11, IdleIsQuiet DEF WorkerSleeps, WorkerWakes, WorkerRestarts
  <2>2. UNCHANGED <<ex, tokens, pend, todo, collected>>
    BY <1>11 DEF WorkerSleeps, WorkerWakes, WorkerRestarts
  <2>3. RowsOwned(owner) /\ LosesOnly({})
    BY <2>2, SameRows DEF LosesOnly
  <2>4. \A e \in Execs : ~Excuses(proc[Worker], e)
    BY <1>11 DEF WorkerSleeps, WorkerWakes, WorkerRestarts, AtNextItem, Idle, Excuses
  <2>5. OwnedInv(owner)'
    BY <1>d, <2>1, <2>2, <2>3, <2>4, QuietStep
  <2> QED
    BY <1>a, <2>5
<1>12. ASSUME NEW t \in Tokens, TimeoutExecution(t) \/ ResumeWait(t) PROVE Goal
  BY <1>a, <1>12, TimeoutExecutionStep, ResumeWaitStep DEF Goal
<1>13. ASSUME NEW t \in Tokens, TimeoutTask(t) PROVE Goal
  <2>1. AtNextItem /\ todo' = Del(todo, t)
    BY <1>13 DEF TimeoutTask
  <2>2. CASE FinishTask(Worker, t)
    <3>1. \A e \in Execs : ~Excuses(proc[Worker], e)
      BY <2>1 DEF AtNextItem, Idle, Excuses
    <3> QED
      BY <1>a, <1>d, <2>1, <2>2, <3>1, FinishTaskStep
  <2>3. CASE UNCHANGED <<ex, pend, tokens, proc, sleep, woken, sfnow, collected>>
    <3>1. RowsOwned(owner) /\ LosesOnly({})
      BY <2>1, <2>3, SameRows DEF LosesOnly
    <3> QED
      BY <1>a, <2>1, <2>3, <3>1, WorkerStays
  <2> QED
    BY <1>13, <2>2, <2>3 DEF TimeoutTask
<1>14. ASSUME UNCHANGED <<ex, pend, tokens, proc, todo, collected>> PROVE Goal
  BY <1>a, <1>1, <1>14
     DEF OwnedInv, TablesOwned, HeldRightly, FreshTokens, Unshared, DroppedIsDead, RunningHasToken, Resumable
<1>15. CASE Requests
  BY <1>15, <1>4, <1>5, <1>6, <1>7, <1>8 DEF Requests, GetActivityTask, SendTaskHeartbeat
<1>16. CASE WorkerSteps
  BY <1>16, <1>10, <1>11, <1>12, <1>13 DEF WorkerSteps
<1> QED
  BY <1>9, <1>11, <1>14, <1>15, <1>16 DEF ExecNext, ClockTicks, sfvars

LEMMA ExecStart == ExecInit => ExecInv
<1> SUFFICES ASSUME ExecInit PROVE ExecInv
  OBVIOUS
<1>1. ExecTypes
  <2>1. proc \in [Procs -> Handler] /\ \A p \in Procs : HandlerOK(proc[p])
    BY IdleIsQuiet DEF ExecInit, Quiet
  <2>2. NoExec \in ExecRecord /\ NoTime \in Times
    BY IdleIsHandler, StatesTimes DEF Idle, Handler, Times, NoTime
  <2>3. \A p \in Procs : proc[p] \in Handler
    BY <2>1
  <2>4. /\ ex \in [Execs -> ExecRecord] /\ DOMAIN pend = {} /\ DOMAIN todo = {}
        /\ tokens \in 0..MaxTokens /\ sleep \in Times /\ woken \in BOOLEAN
        /\ sfnow \in 0..MaxTime /\ collected \subseteq Tokens
    <3>1. 0 \in 0..MaxTokens /\ 0 \in 0..MaxTime
      BY StatesTimes
    <3>2. ex \in [Execs -> ExecRecord]
      BY <2>2 DEF ExecInit
    <3> QED
      BY <2>2, <3>1, <3>2 DEF ExecInit
  <2>5. \A p \in Procs : proc[p].rec \in ExecRecord /\ proc[p].t \in 0..MaxTokens
    BY <2>3 DEF Handler
  <2>6. \A p \in Procs :
          /\ proc[p].op \in {"none", "start", "stop", "redrive", "finish", "resume", "timeout",
                             "claim", "beat", "list", "sleep"}
          /\ proc[p].pc \in {"idle", "take", "park", "commit", "drop", "put"}
    BY <2>3 DEF Handler
  <2> QED
    BY <2>1, <2>4, <2>5, <2>6 DEF ExecTypes, StatesExecTypeOK
<1>2. PICK e0 \in Execs : TRUE
  BY SomeExecution
<1>3. PICK owner \in [Tokens -> Execs] : owner = [t \in Tokens |-> e0]
  OBVIOUS
<1>4. \A p \in Procs : Quiet(proc[p])
  BY IdleIsQuiet DEF ExecInit
<1>5. OwnedInv(owner)
  BY <1>4 DEF ExecInit, NoExec, OwnedInv, TablesOwned, HeldRightly, FreshTokens, Unshared, Moves,
     DroppedIsDead, RunningHasToken, Resumable, Quiet
<1> QED
  BY <1>1, <1>3, <1>5 DEF ExecInv

\* At any instant an execution that runs can be resumed from what is stored: the
\* pending record its token names is there, stored before the execution names
\* it and deleted only by the handler that ends or continues the execution,
\* whatever the callers, the worker and the clock interleave (parkTask,
\* finishTask, resumeWait, timeoutExecution and StopExecution take no lock).
THEOREM ExecutionsAreResumable == ExecSpec => []ExecutionsHold
<1>1. ExecInv => ExecutionsHold
  BY DEF ExecInv, ExecTypes, OwnedInv, Resumable, Excuses, ExecutionsHold, ResumableAtAnyInstant
<1> QED
  BY <1>1, ExecStart, ExecStep, PTL DEF ExecSpec

-----------------------------------------------------------------------------
(* The registry.                                                           *)

\* What a request is at each of its steps.
RequestFits(q) ==
  /\ q.pc \in {"put", "again", "publish", "number", "version", "sm", "ver", "versions", "aliases",
               "routed", "unversion", "check", "route"} => q.s \in SMNames
  /\ "publish" \in q.left => q.s \in SMNames
  /\ q.pc \in {"put", "again"} \/ q.op = "create" => q.m \in Machine
  /\ q.pc \in {"number", "version"} => q.pub \in Machine
  /\ q.pc \in {"version", "routed", "unversion"} => q.n \in Numbers
  /\ q.pc = "route" => q.todo = {}
  /\ q.pc \in {"act", "unact"} => q.s = Activity

\* What a request has read still holds, unless it is marked.
ReadsHold(q) ==
  \/ q.stale
  \/ /\ q.pc \in {"number", "version"} => q.s \in DOMAIN sm
     /\ q.pc = "tag" => TagResourceExists(q.s)
     /\ q.pc = "version" => <<q.s, q.n>> \notin DOMAIN versions /\ ~IsPublished(q.s, q.pub.rev)
     /\ q.pc \in {"check", "route"} => \A n \in q.routes \ q.todo : <<q.s, n>> \in DOMAIN versions
     /\ q.pc = "unversion" => Routed(q.s, q.n) = {}

\* No record has a revision that was not drawn.
RevisionsDrawn == \A r \in Machine : Held(r) => r.rev <= revision

RegistryInv ==
  /\ RegistryHolds /\ RevisionsDrawn
  /\ \A c \in RgClients : RequestFits(rq[c]) /\ ReadsHold(rq[c])

\* The same request, but for its mark.
Kept(q, p) ==
  /\ p.op = q.op /\ p.pc = q.pc /\ p.s = q.s /\ p.n = q.n /\ p.a = q.a /\ p.m = q.m /\ p.pub = q.pub
  /\ p.routes = q.routes /\ p.todo = q.todo /\ p.drop = q.drop /\ p.left = q.left
  /\ q.stale => p.stale

LEMMA NoRequestFits ==
  /\ NoRequest \in Request /\ RequestFits(NoRequest) /\ ReadsHold(NoRequest) /\ ReadsHold(NoRequest)'
  /\ NoRequest.pc = "idle" /\ NoRequest.m = NoMachine /\ NoRequest.pub = NoMachine
  /\ NoMachine \notin Machine
<1>1. PICK a \in Aliases : a = CHOOSE x \in Aliases : TRUE
  BY SomeRegistry
<1>2. NoMachine.rev = 0 /\ NoMachine \notin Machine
  BY DEF NoMachine, Machine
<1>3. NoRequest \in Request /\ NoRequest.pc = "idle" /\ NoRequest.stale = FALSE /\ NoRequest.op = "none"
      /\ NoRequest.m = NoMachine /\ NoRequest.pub = NoMachine /\ NoRequest.left = {}
  BY <1>1, RegistryBound DEF NoRequest, Request, Resources
<1> QED
  BY <1>2, <1>3 DEF RequestFits, ReadsHold

LEMMA KeptFits ==
  ASSUME NEW q, NEW p, Kept(q, p), RequestFits(q)
  PROVE  RequestFits(p)
BY DEF Kept, RequestFits

\* The requests after a step of c that goes on as p.
LEMMA OthersKept ==
  ASSUME RegistryTypeOK, NEW c \in RgClients, NEW p \in Request, NEW hit, GoesOn(c, p, hit)
  PROVE  /\ rq' \in [RgClients -> Request] /\ rq'[c] = p /\ asked' = asked
         /\ \A x \in RgClients : x # c => /\ rq[x] \in Request /\ rq'[x] \in Request
                                          /\ Kept(rq[x], rq'[x]) /\ (x \in hit => rq'[x].stale)
<1>1. \A x \in RgClients : rq[x] \in Request
  BY DEF RegistryTypeOK
<1>2. ASSUME NEW x \in RgClients, x # c
      PROVE  /\ rq'[x] \in Request /\ Kept(rq[x], rq'[x]) /\ (x \in hit => rq'[x].stale)
  <2>1. PICK q \in Request : q = rq[x]
    BY <1>1
  <2>2. PICK m : m = [q EXCEPT !.stale = TRUE]
    OBVIOUS
  <2>3. m \in Request /\ Kept(q, m) /\ m.stale
    BY <2>1, <2>2 DEF Request, Kept
  <2>4. rq'[x] = IF x \in hit THEN m ELSE q
    BY <1>2, <2>1, <2>2 DEF GoesOn
  <2> QED
    BY <2>1, <2>3, <2>4 DEF Kept
<1>3. rq' = [x \in RgClients |-> rq'[x]] /\ rq'[c] = p /\ asked' = asked
  BY DEF GoesOn
<1> QED
  BY <1>1, <1>2, <1>3

\* The requests after one that comes in as p.
LEMMA AskedKept ==
  ASSUME RegistryTypeOK, NEW c \in RgClients, NEW p \in Request, Asks(c, p)
  PROVE  /\ rq' \in [RgClients -> Request] /\ rq'[c] = p /\ asked' \in 0..RgBudget
         /\ \A x \in RgClients : x # c => /\ rq[x] \in Request /\ rq'[x] \in Request
                                          /\ Kept(rq[x], rq'[x])
         /\ rq[c] = NoRequest
BY RegistryBound DEF Asks, RegistryTypeOK, Kept

\* What others hold and take along is as it was.
LEMMA OthersGo ==
  ASSUME NEW q, NEW p, Kept(q, p)
  PROVE  /\ \A a : AliasGoes(a, p) <=> AliasGoes(a, q)
         /\ \A v : VersionGoes(v, p) <=> VersionGoes(v, q)
         /\ \A r : TagsGo(r, p) <=> TagsGo(r, q)
BY DEF Kept, AliasGoes, VersionGoes, TagsGo

\* A step that stores no record but what was held keeps revisions apart.
LEMMA RevisionStep ==
  ASSUME RegistryInv, NEW f,
         \A r \in Machine : Held(r)' => Held(r) \/ r = f,
         f \in Machine => revision < f.rev /\ f.rev <= revision',
         revision' \in Nat, revision <= revision'
  PROVE  OneDefinitionPerRevision' /\ RevisionsDrawn'
<1>1. \A r \in Machine : r.rev \in Nat
  BY DEF Machine
<1>2. revision \in Nat /\ \A r \in Machine : Held(r) => r.rev <= revision
  BY DEF RegistryInv, RevisionsDrawn, RegistryHolds, RegistryTypeOK
<1>3. \A r1, r2 \in Machine : (Held(r1) /\ Held(r2) /\ r1.rev = r2.rev) => r1 = r2
  BY DEF RegistryInv, RegistryHolds, OneDefinitionPerRevision
<1>4. RevisionsDrawn'
  BY <1>1, <1>2 DEF RevisionsDrawn
<1>5. ASSUME NEW r1 \in Machine, NEW r2 \in Machine, Held(r1)', Held(r2)', r1.rev = r2.rev
      PROVE  r1 = r2
  BY <1>1, <1>2, <1>3, <1>5
<1>6. OneDefinitionPerRevision'
  BY <1>5 DEF OneDefinitionPerRevision
<1> QED
  BY <1>4, <1>6

\* What is held after a step that changes neither machines nor versions.
LEMMA HeldStep ==
  ASSUME RegistryTypeOK, NEW c \in RgClients, NEW p, rq'[c] = p,
         \A x \in RgClients : x # c => Kept(rq[x], rq'[x]),
         \A s \in DOMAIN sm' : Held(sm'[s]), \A v \in DOMAIN versions' : Held(versions'[v]),
         NEW f, \A r \in Machine : r \in {p.m, p.pub} => Held(r) \/ r = f
  PROVE  \A r \in Machine : Held(r)' => Held(r) \/ r = f
<1>1. ASSUME NEW r \in Machine, Held(r)' PROVE Held(r) \/ r = f
  <2>1. CASE \E s \in DOMAIN sm' : r = sm'[s]
    BY <2>1
  <2>2. CASE \E v \in DOMAIN versions' : r = versions'[v]
    BY <2>2
  <2>3. CASE \E x \in RgClients : r \in {rq'[x].m, rq'[x].pub}
    <3>1. PICK x \in RgClients : r \in {rq'[x].m, rq'[x].pub}
      BY <2>3
    <3>2. CASE x = c
      BY <3>1, <3>2
    <3>3. CASE x # c
      <4>1. r \in {rq[x].m, rq[x].pub}
        BY <3>1, <3>3 DEF Kept
      <4> QED
        BY <4>1 DEF Held
    <3> QED
      BY <3>2, <3>3
  <2> QED
    BY <1>1, <2>1, <2>2, <2>3 DEF Held
<1> QED
  BY <1>1

\* A step that stores nothing: one request comes in, or goes on, as p.
LEMMA ReadingStep ==
  ASSUME RegistryInv, NEW c \in RgClients, NEW p \in Request, NEW f,
         RequestFits(p), ReadsHold(p),
         rq' \in [RgClients -> Request], rq'[c] = p, asked' \in 0..RgBudget,
         \A x \in RgClients : x # c => Kept(rq[x], rq'[x]),
         UNCHANGED <<sm, versions, alias, tagged, acts, latevars>>,
         \A r \in Machine : r \in {p.m, p.pub} => Held(r) \/ r = f,
         f \in Machine => revision < f.rev /\ f.rev <= revision',
         revision' \in 0..MaxRevision, revision <= revision',
         \A a \in DOMAIN alias : AliasGoes(a, rq[c]) => AliasGoes(a, p),
         \A v \in DOMAIN versions : VersionGoes(v, rq[c]) => VersionGoes(v, p),
         \A r : TagsGo(r, rq[c]) => TagsGo(r, p)
  PROVE  RegistryInv'
<1>1. /\ RegistryTypeOK /\ AliasesResolve /\ VersionPerRevision /\ NoOrphans
      /\ \A x \in RgClients : RequestFits(rq[x]) /\ ReadsHold(rq[x])
  BY DEF RegistryInv, RegistryHolds
<1>2. RegistryTypeOK'
  BY <1>1 DEF RegistryTypeOK, latevars
<1>3. \A q : /\ ReadsHold(q)' <=> ReadsHold(q)
             /\ \A r : TagResourceExists(r)' <=> TagResourceExists(r)
  BY DEF ReadsHold, TagResourceExists, IsPublished, Routed
<1>4. \A x \in RgClients : RequestFits(rq[x])' /\ ReadsHold(rq[x])'
  <2>1. ASSUME NEW x \in RgClients, x # c PROVE RequestFits(rq[x])' /\ ReadsHold(rq[x])'
    <3>1. PICK q : q = rq'[x]
      OBVIOUS
    <3>2. RequestFits(q)
      BY <1>1, <2>1, <3>1, KeptFits
    <3>3. ReadsHold(q)
      BY <1>1, <2>1, <3>1 DEF Kept, ReadsHold
    <3> QED
      BY <1>3, <3>1, <3>2, <3>3 DEF RequestFits, ReadsHold, TagResourceExists, IsPublished, Routed
  <2>2. RequestFits(rq[c])' /\ ReadsHold(rq[c])'
    BY <1>3 DEF RequestFits, ReadsHold, TagResourceExists, IsPublished, Routed
  <2> QED
    BY <2>1, <2>2
<1>5. /\ \A a \in DOMAIN alias : \A x \in RgClients : AliasGoes(a, rq[x]) => AliasGoes(a, rq'[x])
      /\ \A v \in DOMAIN versions : \A x \in RgClients : VersionGoes(v, rq[x]) => VersionGoes(v, rq'[x])
      /\ \A r : \A x \in RgClients : TagsGo(r, rq[x]) => TagsGo(r, rq'[x])
  <2>1. ASSUME NEW x \in RgClients, x # c
        PROVE  /\ \A a : AliasGoes(a, rq'[x]) <=> AliasGoes(a, rq[x])
               /\ \A v : VersionGoes(v, rq'[x]) <=> VersionGoes(v, rq[x])
               /\ \A r : TagsGo(r, rq'[x]) <=> TagsGo(r, rq[x])
    BY <2>1, OthersGo
  <2> QED
    BY <2>1
<1>6. AliasesResolve'
  <2>1. \A a : ResolveAlias(a)' = ResolveAlias(a)
    BY DEF ResolveAlias
  <2>2. ASSUME NEW a \in DOMAIN alias \ lateAliases
        PROVE  ResolveAlias(a) \subseteq DOMAIN versions \/ \E x \in RgClients : AliasGoes(a, rq'[x])
    BY <1>1, <1>5, <2>2 DEF AliasesResolve
  <2> QED
    BY <2>1, <2>2 DEF AliasesResolve, latevars, AliasGoes
<1>7. VersionPerRevision'
  BY <1>1 DEF VersionPerRevision, latevars
<1>8. NoOrphans'
  <2>1. ASSUME NEW v \in DOMAIN versions \ lateVersions
        PROVE  v[1] \in DOMAIN sm \/ \E x \in RgClients : VersionGoes(v, rq'[x])
    BY <1>1, <1>5, <2>1 DEF NoOrphans
  <2>2. ASSUME NEW r \in tagged \ lateTags
        PROVE  TagResourceExists(r) \/ \E x \in RgClients : TagsGo(r, rq'[x])
    BY <1>1, <1>5, <2>2 DEF NoOrphans
  <2> QED
    BY <1>3, <2>1, <2>2 DEF NoOrphans, latevars, VersionGoes, TagsGo
<1>9. \A r \in Machine : Held(r)' => Held(r) \/ r = f
  <2>1. /\ \A s \in DOMAIN sm' : Held(sm'[s])
        /\ \A v \in DOMAIN versions' : Held(versions'[v])
    BY DEF Held
  <2> QED
    BY <1>1, <2>1, HeldStep
<1>10. OneDefinitionPerRevision' /\ RevisionsDrawn'
  BY <1>9, RevisionStep, RegistryBound
<1> QED
  BY <1>2, <1>4, <1>6, <1>7, <1>8, <1>10 DEF RegistryInv, RegistryHolds

\* A request comes in; it holds what is stored, or a record with a new revision.
LEMMA AskingStep ==
  ASSUME RegistryInv, NEW c \in RgClients, NEW p \in Request, NEW f, Asks(c, p),
         RequestFits(p), ReadsHold(p),
         UNCHANGED <<sm, versions, alias, tagged, acts, latevars>>,
         \A r \in Machine : r \in {p.m, p.pub} => Held(r) \/ r = f,
         f \in Machine => revision < f.rev /\ f.rev <= revision',
         revision' \in 0..MaxRevision, revision <= revision'
  PROVE  RegistryInv'
<1>1. RegistryTypeOK
  BY DEF RegistryInv, RegistryHolds
<1>2. /\ rq' \in [RgClients -> Request] /\ rq'[c] = p /\ asked' \in 0..RgBudget
      /\ \A x \in RgClients : x # c => Kept(rq[x], rq'[x])
      /\ rq[c] = NoRequest
  BY <1>1, AskedKept
<1>3. rq[c].pc = "idle"
  BY <1>2, NoRequestFits
<1>4. /\ \A a : ~AliasGoes(a, rq[c]) /\ \A v : ~VersionGoes(v, rq[c]) /\ \A r : ~TagsGo(r, rq[c])
  BY <1>3 DEF AliasGoes, VersionGoes, TagsGo
<1> QED
  BY <1>2, <1>4, ReadingStep

\* A request comes in: its first reading holds.
LEMMA AskingKeeps ==
  ASSUME RegistryInv, NEW c \in RgClients, Asking(c)
  PROVE  RegistryInv'
<1>1. /\ \A s \in DOMAIN sm : s \in SMNames /\ sm[s] \in Machine /\ Held(sm[s])
      /\ revision \in 0..MaxRevision /\ MaxRevision \in Nat /\ 0 \in 0..MaxVersion
      /\ \A v \in DOMAIN versions : v \in SMNames \X Numbers
      /\ \A a \in DOMAIN alias : alias[a] \subseteq Numbers
      /\ NoMachine \notin Machine /\ SMNames \subseteq Resources /\ Activity \in Resources
  BY NoRequestFits, RegistryBound DEF RegistryInv, RegistryHolds, RegistryTypeOK, Held, Resources
<1>a. PICK anyAlias \in Aliases : anyAlias = CHOOSE a \in Aliases : TRUE
  BY SomeRegistry
<1>2. ASSUME NEW s \in SMNames, NEW d \in Definitions, NEW left \in SUBSET {"tag", "publish"},
             NEW op \in {"create", "update"}, revision < MaxRevision, revision' = revision + 1,
             Asks(c, [Asked(op, "put", s) EXCEPT !.m = [def |-> d, rev |-> revision + 1], !.left = left]),
             UNCHANGED <<sm, versions, alias, tagged, acts, latevars>>
      PROVE  RegistryInv'
  <2>1. PICK f : f = [def |-> d, rev |-> revision + 1]
    OBVIOUS
  <2>2. f \in Machine /\ revision < f.rev /\ f.rev <= revision'
        /\ revision' \in 0..MaxRevision /\ revision <= revision'
    BY <1>1, <1>2, <2>1 DEF Machine
  <2>3. PICK p : p = [Asked(op, "put", s) EXCEPT !.m = f, !.left = left]
    OBVIOUS
  <2>4. /\ p \in Request /\ p.op = op /\ p.pc = "put" /\ p.s = s /\ p.m = f /\ p.pub = NoMachine
        /\ p.left = left /\ p.stale = FALSE
    BY <1>1, <1>a, <1>2, <2>2, <2>3 DEF Asked, NoRequest, Request
  <2>5. RequestFits(p) /\ ReadsHold(p)
    BY <1>2, <2>2, <2>4 DEF RequestFits, ReadsHold
  <2>6. Asks(c, p)
    BY <1>2, <2>1, <2>3
  <2> QED
    BY <1>1, <1>2, <2>2, <2>4, <2>5, <2>6, AskingStep
<1>3. ASSUME NEW p \in Request, Asks(c, p), RequestFits(p), ReadsHold(p),
             \A r \in Machine : r \in {p.m, p.pub} => Held(r),
             UNCHANGED <<sm, versions, alias, tagged, acts, revision, latevars>>
      PROVE  RegistryInv'
  BY <1>1, <1>3, AskingStep
<1>4. ASSUME NEW s \in SMNames, NEW left \in SUBSET {"publish"}, UpdateNothing(c, s, left)
      PROVE  RegistryInv'
  <2>1. PICK p : p = [Asked("update", "put", s) EXCEPT !.m = sm[s], !.left = left]
    OBVIOUS
  <2>2. s \in DOMAIN sm /\ Asks(c, p) /\ UNCHANGED <<sm, versions, alias, tagged, acts, revision, latevars>>
    BY <1>4, <2>1 DEF UpdateNothing
  <2>3. /\ p \in Request /\ p.op = "update" /\ p.pc = "put" /\ p.s = s /\ p.m = sm[s]
        /\ p.pub = NoMachine /\ p.left = left /\ p.stale = FALSE
    BY <1>1, <1>a, <1>4, <2>1, <2>2 DEF Asked, NoRequest, Request
  <2>4. RequestFits(p) /\ ReadsHold(p)
    BY <1>1, <1>4, <2>2, <2>3 DEF RequestFits, ReadsHold
  <2> QED
    BY <1>1, <1>3, <2>2, <2>3, <2>4
<1>5. ASSUME NEW s \in SMNames, PublishStateMachineVersion(c, s) PROVE RegistryInv'
  <2>1. PICK p : p = [Asked("publish", "number", s) EXCEPT !.pub = sm[s]]
    OBVIOUS
  <2>2. s \in DOMAIN sm /\ Asks(c, p) /\ UNCHANGED <<sm, versions, alias, tagged, acts, revision, latevars>>
    BY <1>5, <2>1 DEF PublishStateMachineVersion
  <2>3. /\ p \in Request /\ p.op = "publish" /\ p.pc = "number" /\ p.s = s /\ p.m = NoMachine
        /\ p.pub = sm[s] /\ p.left = {} /\ p.stale = FALSE
    BY <1>1, <1>a, <1>5, <2>1, <2>2 DEF Asked, NoRequest, Request
  <2>4. RequestFits(p) /\ ReadsHold(p)
    BY <1>1, <1>5, <2>2, <2>3 DEF RequestFits, ReadsHold
  <2> QED
    BY <1>1, <1>3, <2>2, <2>3, <2>4
<1>6. ASSUME NEW op \in {"delete", "forget", "tag"}, NEW pc \in {"sm", "unact", "tag"}, NEW s \in Resources,
             Asks(c, Asked(op, pc, s)), pc = "sm" => s \in SMNames, pc = "unact" => s = Activity,
             pc = "tag" => TagResourceExists(s),
             UNCHANGED <<sm, versions, alias, tagged, acts, revision, latevars>>
      PROVE  RegistryInv'
  <2>1. PICK p : p = Asked(op, pc, s)
    OBVIOUS
  <2>2. /\ p \in Request /\ p.op = op /\ p.pc = pc /\ p.s = s /\ p.m = NoMachine
        /\ p.pub = NoMachine /\ p.left = {} /\ p.stale = FALSE
    BY <1>1, <1>a, <1>6, <2>1 DEF Asked, NoRequest, Request
  <2>3. RequestFits(p) /\ ReadsHold(p)
    BY <1>6, <2>2 DEF RequestFits, ReadsHold
  <2> QED
    BY <1>1, <1>3, <1>6, <2>1, <2>2, <2>3
<1>7. ASSUME NEW s \in SMNames, NEW n \in Numbers, DeleteStateMachineVersion(c, s, n) PROVE RegistryInv'
  <2>1. PICK p : p = [Asked("unversion", "routed", s) EXCEPT !.n = n]
    OBVIOUS
  <2>2. Asks(c, p) /\ UNCHANGED <<sm, versions, alias, tagged, acts, revision, latevars>>
    BY <1>7, <2>1 DEF DeleteStateMachineVersion
  <2>3. /\ p \in Request /\ p.op = "unversion" /\ p.pc = "routed" /\ p.s = s /\ p.m = NoMachine
        /\ p.pub = NoMachine /\ p.left = {} /\ p.stale = FALSE /\ p.n = n
    <3>1. n \in 0..MaxVersion
      BY RegistryBound DEF Numbers
    <3> QED
      BY <1>1, <1>a, <1>7, <2>1, <2>2, <3>1 DEF Asked, NoRequest, Request
  <2>4. RequestFits(p) /\ ReadsHold(p)
    BY <1>7, <2>3 DEF RequestFits, ReadsHold
  <2> QED
    BY <1>1, <1>3, <2>2, <2>3, <2>4
<1>8. ASSUME NEW p \in Request, Asks(c, p), p.op # "create", p.pc \in {"check", "route"}, p.s \in SMNames,
             p.m = NoMachine, p.pub = NoMachine, p.left = {}, p.pc = "route" => p.todo = {},
             p.stale \/ \A n \in p.routes \ p.todo : <<p.s, n>> \in DOMAIN versions,
             UNCHANGED <<sm, versions, alias, tagged, acts, revision, latevars>>
      PROVE  RegistryInv'
  <2>1. RequestFits(p) /\ ReadsHold(p)
    BY <1>8 DEF RequestFits, ReadsHold
  <2> QED
    BY <1>1, <1>3, <1>8, <2>1
<1>9. ASSUME NEW s \in SMNames, NEW a \in Aliases, DescribesAlias(c, s, a) PROVE RegistryInv'
  <2>1. PICK stale \in BOOLEAN : stale = \E n \in alias[<<s, a>>] : <<s, n>> \notin DOMAIN versions
    OBVIOUS
  <2>2. PICK routes \in SUBSET Numbers : routes = alias[<<s, a>>]
    BY <1>1, <1>9 DEF DescribesAlias
  <2>3. PICK p : p = [Asked("realias", "route", s) EXCEPT !.a = a, !.routes = routes, !.stale = stale]
    OBVIOUS
  <2>4. /\ p \in Request /\ p.op = "realias" /\ p.pc = "route" /\ p.s = s /\ p.m = NoMachine
        /\ p.pub = NoMachine /\ p.left = {} /\ p.stale = stale /\ p.routes = routes /\ p.todo = {}
    BY <1>1, <1>a, <1>9, <2>3 DEF Asked, NoRequest, Request
  <2>5. stale \/ \A n \in routes : <<s, n>> \in DOMAIN versions
    BY <2>1, <2>2
  <2>6. Asks(c, p) /\ UNCHANGED <<sm, versions, alias, tagged, acts, revision, latevars>>
    BY <1>9, <2>1, <2>2, <2>3 DEF DescribesAlias
  <2> QED
    BY <1>8, <2>4, <2>5, <2>6
<1>10. ASSUME NEW s \in SMNames, NEW a \in Aliases, NEW routes \in SUBSET Numbers,
              CreateStateMachineAlias(c, s, a, routes)
       PROVE  RegistryInv'
  <2>1. PICK n \in routes :
          /\ <<s, n>> \in DOMAIN versions
          /\ Asks(c, [Asked("alias", "check", s) EXCEPT !.a = a, !.routes = routes, !.todo = routes \ {n}])
    BY <1>10 DEF CreateStateMachineAlias
  <2>2. PICK rest \in SUBSET Numbers : rest = routes \ {n}
    OBVIOUS
  <2>3. PICK p : p = [Asked("alias", "check", s) EXCEPT !.a = a, !.routes = routes, !.todo = rest]
    OBVIOUS
  <2>4. /\ p \in Request /\ p.op = "alias" /\ p.pc = "check" /\ p.s = s /\ p.m = NoMachine
        /\ p.pub = NoMachine /\ p.left = {} /\ p.stale = FALSE /\ p.routes = routes /\ p.todo = rest
    BY <1>1, <1>a, <1>10, <2>3 DEF Asked, NoRequest, Request
  <2>5. \A k \in routes \ rest : <<s, k>> \in DOMAIN versions
    BY <2>1, <2>2
  <2>6. Asks(c, p) /\ UNCHANGED <<sm, versions, alias, tagged, acts, revision, latevars>>
    BY <1>10, <2>1, <2>2, <2>3 DEF CreateStateMachineAlias
  <2> QED
    BY <1>8, <2>4, <2>5, <2>6
<1>11. ASSUME NEW s \in SMNames, NEW a \in Aliases, NEW routes \in SUBSET Numbers,
              UpdateStateMachineAlias(c, s, a, routes)
       PROVE  RegistryInv'
  <2>1. PICK p : p = [Asked("realias", "check", s) EXCEPT !.a = a, !.routes = routes, !.todo = routes]
    OBVIOUS
  <2>2. /\ p \in Request /\ p.op = "realias" /\ p.pc = "check" /\ p.s = s /\ p.m = NoMachine
        /\ p.pub = NoMachine /\ p.left = {} /\ p.stale = FALSE /\ p.routes = routes /\ p.todo = routes
    BY <1>1, <1>a, <1>11, <2>1 DEF Asked, NoRequest, Request
  <2>3. Asks(c, p) /\ UNCHANGED <<sm, versions, alias, tagged, acts, revision, latevars>>
    BY <1>11, <2>1 DEF UpdateStateMachineAlias
  <2> QED
    BY <1>8, <2>2, <2>3
<1>12. ASSUME NEW left \in SUBSET {"tag"}, CreateActivity(c, left) PROVE RegistryInv'
  <2>1. PICK p : p = [Asked("activity", "act", Activity) EXCEPT !.left = left]
    OBVIOUS
  <2>2. Asks(c, p) /\ UNCHANGED <<sm, versions, alias, tagged, acts, revision, latevars>>
    BY <1>12, <2>1 DEF CreateActivity
  <2>3. /\ p \in Request /\ p.op = "activity" /\ p.pc = "act" /\ p.s = Activity /\ p.m = NoMachine
        /\ p.pub = NoMachine /\ p.left = left /\ p.stale = FALSE
    BY <1>1, <1>a, <1>12, <2>1, <2>2 DEF Asked, NoRequest, Request
  <2>4. RequestFits(p) /\ ReadsHold(p)
    BY <1>12, <2>3 DEF RequestFits, ReadsHold
  <2> QED
    BY <1>1, <1>3, <2>2, <2>3, <2>4
<1>13. ASSUME NEW s \in SMNames, NEW d \in Definitions, NEW left \in SUBSET {"tag", "publish"},
              CreateStateMachine(c, s, d, left)
       PROVE  RegistryInv'
  BY <1>2, <1>13 DEF CreateStateMachine
<1>14. ASSUME NEW s \in SMNames, NEW d \in Definitions, NEW left \in SUBSET {"publish"},
              UpdateStateMachine(c, s, d, left)
       PROVE  RegistryInv'
  <2>1. left \in SUBSET {"tag", "publish"}
    OBVIOUS
  <2> QED
    BY <1>2, <1>14, <2>1 DEF UpdateStateMachine
<1>15. ASSUME NEW s \in SMNames, DeleteStateMachine(c, s) PROVE RegistryInv'
  BY <1>1, <1>6, <1>15 DEF DeleteStateMachine
<1>16. ASSUME DeleteActivity(c) PROVE RegistryInv'
  BY <1>1, <1>6, <1>16 DEF DeleteActivity
<1>17. ASSUME NEW r \in Resources, TagResource(c, r) PROVE RegistryInv'
  BY <1>6, <1>17 DEF TagResource
<1> QED
  BY <1>4, <1>5, <1>7, <1>9, <1>10, <1>11, <1>12, <1>13, <1>14, <1>15, <1>16, <1>17 DEF Asking

LEMMA OnwardFits ==
  ASSUME NEW q \in Request, RequestFits(q), q.pc \in {"put", "tag", "act"}, q.pc = "act" => q.s = Activity
  PROVE  /\ Onward(q) \in Request /\ RequestFits(Onward(q))
         /\ Onward(q).m \in {q.m, NoMachine} /\ Onward(q).pub \in {q.pub, NoMachine}
         /\ Onward(q).pc \in {"tag", "publish", "idle"}
         /\ Onward(q).pc = "tag" => Onward(q).s = q.s
<1>1. CASE "tag" \in q.left
  <2>1. PICK p : p = [q EXCEPT !.pc = "tag", !.left = @ \ {"tag"}]
    OBVIOUS
  <2>2. /\ p \in Request /\ p.op = q.op /\ p.pc = "tag" /\ p.s = q.s /\ p.m = q.m /\ p.pub = q.pub
        /\ p.left = q.left \ {"tag"} /\ p.n = q.n
    BY <2>1 DEF Request
  <2>3. Onward(q) = p
    BY <1>1, <2>1 DEF Onward
  <2> QED
    BY <2>2, <2>3 DEF RequestFits
<1>2. CASE "tag" \notin q.left /\ "publish" \in q.left
  <2>1. PICK p : p = [q EXCEPT !.pc = "publish", !.left = {}]
    OBVIOUS
  <2>2. /\ p \in Request /\ p.op = q.op /\ p.pc = "publish" /\ p.s = q.s /\ p.m = q.m /\ p.pub = q.pub
        /\ p.left = {} /\ p.n = q.n
    BY <2>1 DEF Request
  <2>3. Onward(q) = p
    BY <1>2, <2>1 DEF Onward
  <2> QED
    BY <1>2, <2>2, <2>3 DEF RequestFits
<1>3. CASE "tag" \notin q.left /\ "publish" \notin q.left
  BY <1>3, NoRequestFits DEF Onward
<1> QED
  BY <1>1, <1>2, <1>3

LEMMA AfterPublishFits ==
  ASSUME NEW q \in Request, RequestFits(q), q.pc \in {"number", "version"}
  PROVE  /\ AfterPublish(q) \in Request /\ RequestFits(AfterPublish(q))
         /\ AfterPublish(q).m \in {q.m, NoMachine} /\ AfterPublish(q).pub \in {q.pub, NoMachine}
         /\ AfterPublish(q).pc \in {"again", "idle"}
<1>1. CASE q.op = "create"
  <2>1. PICK p : p = [q EXCEPT !.pc = "again"]
    OBVIOUS
  <2>2. /\ p \in Request /\ p.op = q.op /\ p.pc = "again" /\ p.s = q.s /\ p.m = q.m /\ p.pub = q.pub
        /\ p.left = q.left /\ p.n = q.n
    BY <2>1 DEF Request
  <2>3. AfterPublish(q) = p
    BY <1>1, <2>1 DEF AfterPublish
  <2> QED
    BY <1>1, <2>2, <2>3 DEF RequestFits
<1>2. CASE q.op # "create"
  BY <1>2, NoRequestFits DEF AfterPublish
<1> QED
  BY <1>1, <1>2

\* What a request holds is held.
LEMMA OwnIsHeld ==
  ASSUME NEW c \in RgClients, NEW p, p.m \in {rq[c].m, NoMachine}, p.pub \in {rq[c].pub, NoMachine}
  PROVE  \A r \in Machine : r \in {p.m, p.pub} => Held(r)
BY NoRequestFits DEF Held

\* A request goes on without storing anything.
LEMMA GoingStep ==
  ASSUME RegistryInv, NEW c \in RgClients, NEW p \in Request, GoesOn(c, p, {}),
         RequestFits(p), ReadsHold(p),
         UNCHANGED <<sm, versions, alias, tagged, acts, revision, latevars>>,
         \A r \in Machine : r \in {p.m, p.pub} => Held(r),
         \A a \in DOMAIN alias : AliasGoes(a, rq[c]) => AliasGoes(a, p),
         \A v \in DOMAIN versions : VersionGoes(v, rq[c]) => VersionGoes(v, p),
         \A r : TagsGo(r, rq[c]) => TagsGo(r, p)
  PROVE  RegistryInv'
<1>1. RegistryTypeOK /\ revision \in 0..MaxRevision /\ asked \in 0..RgBudget /\ MaxRevision \in Nat
  BY RegistryBound DEF RegistryInv, RegistryHolds, RegistryTypeOK
<1>2. /\ rq' \in [RgClients -> Request] /\ rq'[c] = p /\ asked' = asked
      /\ \A x \in RgClients : x # c => Kept(rq[x], rq'[x])
  BY <1>1, OthersKept
<1>3. NoMachine \notin Machine
  BY NoRequestFits
<1>4. PICK f : f = NoMachine
  OBVIOUS
<1>5. revision' \in 0..MaxRevision /\ revision <= revision' /\ asked' \in 0..RgBudget
  BY <1>1, <1>2
<1> QED
  BY <1>2, <1>3, <1>4, <1>5, ReadingStep

\* A request that takes nothing along goes on, or gives up.
LEMMA QuietlyGoing ==
  ASSUME RegistryInv, NEW c \in RgClients, NEW p \in Request, GoesOn(c, p, {}),
         RequestFits(p), ReadsHold(p), rq[c].pc \notin {"ver", "versions", "aliases", "untag"},
         UNCHANGED <<sm, versions, alias, tagged, acts, revision, latevars>>,
         \A r \in Machine : r \in {p.m, p.pub} => Held(r)
  PROVE  RegistryInv'
<1>1. /\ \A a : ~AliasGoes(a, rq[c]) /\ \A v : ~VersionGoes(v, rq[c]) /\ \A r : ~TagsGo(r, rq[c])
  BY DEF AliasGoes, VersionGoes, TagsGo
<1> QED
  BY <1>1, GoingStep

LEMMA ReadsMachineStep ==
  ASSUME RegistryInv, NEW c \in RgClients, ReadsMachine(c) PROVE RegistryInv'
<1>1. PICK q \in Request : q = rq[c] /\ RequestFits(q) /\ q.pc = "publish"
  BY DEF ReadsMachine, RegistryInv, RegistryHolds, RegistryTypeOK
<1>2. UNCHANGED <<sm, versions, alias, tagged, acts, revision, latevars>>
  BY DEF ReadsMachine
<1>3. CASE GoesOn(c, NoRequest, {})
  <2>1. \A r \in Machine : r \in {NoRequest.m, NoRequest.pub} => Held(r)
    BY NoRequestFits
  <2> QED
    BY <1>1, <1>2, <1>3, <2>1, NoRequestFits, QuietlyGoing
<1>4. CASE q.s \in DOMAIN sm /\ GoesOn(c, [q EXCEPT !.pc = "number", !.pub = sm[q.s], !.stale = FALSE], {})
  <2>1. PICK p : p = [q EXCEPT !.pc = "number", !.pub = sm[q.s], !.stale = FALSE]
    OBVIOUS
  <2>2. sm[q.s] \in Machine /\ Held(sm[q.s])
    BY <1>4 DEF RegistryInv, RegistryHolds, RegistryTypeOK, Held
  <2>3. /\ p \in Request /\ p.op = q.op /\ p.pc = "number" /\ p.s = q.s /\ p.m = q.m /\ p.pub = sm[q.s]
        /\ p.left = q.left /\ p.n = q.n /\ p.stale = FALSE
    BY <1>1, <2>1, <2>2 DEF Request
  <2>4. RequestFits(p) /\ ReadsHold(p)
    BY <1>1, <1>4, <2>2, <2>3 DEF RequestFits, ReadsHold
  <2>5. \A r \in Machine : r \in {p.m, p.pub} => Held(r)
    BY <1>1, <2>2, <2>3 DEF Held
  <2> QED
    BY <1>1, <1>2, <1>4, <2>1, <2>3, <2>4, <2>5, QuietlyGoing
<1> QED
  BY <1>1, <1>3, <1>4 DEF ReadsMachine

LEMMA DrawsNumberStep ==
  ASSUME RegistryInv, NEW c \in RgClients, DrawsNumber(c) PROVE RegistryInv'
<1>1. PICK q \in Request : q = rq[c] /\ RequestFits(q) /\ ReadsHold(q) /\ q.pc = "number"
  BY DEF DrawsNumber, RegistryInv, RegistryHolds, RegistryTypeOK
<1>2. UNCHANGED <<sm, versions, alias, tagged, acts, revision, latevars>>
  BY DEF DrawsNumber
<1>3. CASE GoesOn(c, AfterPublish(q), {})
  <2>1. PICK p \in Request : p = AfterPublish(q)
    BY <1>1, AfterPublishFits
  <2>2. /\ RequestFits(p) /\ p.m \in {q.m, NoMachine} /\ p.pub \in {q.pub, NoMachine}
        /\ p.pc \in {"again", "idle"}
    BY <1>1, <2>1, AfterPublishFits
  <2>3. ReadsHold(p)
    BY <2>2 DEF ReadsHold
  <2>4. \A r \in Machine : r \in {p.m, p.pub} => Held(r)
    BY <1>1, <2>2, OwnIsHeld
  <2> QED
    BY <1>1, <1>2, <1>3, <2>1, <2>2, <2>3, <2>4, QuietlyGoing
<1>4. ASSUME NEW n \in Numbers, ~IsPublished(q.s, q.pub.rev), NextNumber(q.s, n),
             GoesOn(c, [q EXCEPT !.pc = "version", !.n = n], {})
      PROVE  RegistryInv'
  <2>1. PICK p : p = [q EXCEPT !.pc = "version", !.n = n]
    OBVIOUS
  <2>2. /\ p \in Request /\ p.op = q.op /\ p.pc = "version" /\ p.s = q.s /\ p.m = q.m /\ p.pub = q.pub
        /\ p.left = q.left /\ p.n = n /\ p.stale = q.stale
    <3>1. n \in 0..MaxVersion
      BY RegistryBound DEF Numbers
    <3> QED
      BY <1>1, <1>4, <2>1, <3>1 DEF Request
  <2>3. <<q.s, n>> \notin DOMAIN versions
    <3>1. SUFFICES ASSUME <<q.s, n>> \in DOMAIN versions PROVE FALSE
      OBVIOUS
    <3>2. n \in NumbersOf(q.s)
      BY <3>1 DEF NumbersOf
    <3> QED
      BY <1>4, <3>2, RegistryBound DEF NextNumber, Numbers
  <2>4. RequestFits(p) /\ ReadsHold(p)
    BY <1>1, <1>4, <2>2, <2>3 DEF RequestFits, ReadsHold
  <2>5. \A r \in Machine : r \in {p.m, p.pub} => Held(r)
    BY <1>1, <2>2, OwnIsHeld
  <2> QED
    BY <1>1, <1>2, <1>4, <2>1, <2>2, <2>4, <2>5, QuietlyGoing
<1> QED
  BY <1>1, <1>3, <1>4 DEF DrawsNumber

LEMMA ListsVersionsStep ==
  ASSUME RegistryInv, NEW c \in RgClients, ListsVersions(c) PROVE RegistryInv'
<1>1. PICK q \in Request : q = rq[c] /\ RequestFits(q) /\ q.pc = "ver"
  BY DEF ListsVersions, RegistryInv, RegistryHolds, RegistryTypeOK
<1>2. PICK p : p = [q EXCEPT !.pc = "versions", !.todo = NumbersOf(q.s)]
  OBVIOUS
<1>3. GoesOn(c, p, {}) /\ UNCHANGED <<sm, versions, alias, tagged, acts, revision, latevars>>
  BY <1>1, <1>2 DEF ListsVersions
<1>4. /\ NumbersOf(q.s) \subseteq Numbers
      /\ \A v \in DOMAIN versions : v[1] = q.s => v[2] \in NumbersOf(q.s)
  BY DEF NumbersOf, RegistryInv, RegistryHolds, RegistryTypeOK
<1>5. /\ p \in Request /\ p.op = q.op /\ p.pc = "versions" /\ p.s = q.s /\ p.m = q.m /\ p.pub = q.pub
      /\ p.left = q.left /\ p.todo = NumbersOf(q.s)
  BY <1>1, <1>2, <1>4 DEF Request
<1>6. RequestFits(p) /\ ReadsHold(p)
  BY <1>1, <1>5 DEF RequestFits, ReadsHold
<1>7. \A r \in Machine : r \in {p.m, p.pub} => Held(r)
  BY <1>1, <1>5, OwnIsHeld
<1>8. /\ \A a : ~AliasGoes(a, rq[c])
      /\ \A v \in DOMAIN versions : VersionGoes(v, rq[c]) => VersionGoes(v, p)
      /\ \A r : TagsGo(r, rq[c]) => TagsGo(r, p)
  BY <1>1, <1>4, <1>5 DEF AliasGoes, VersionGoes, TagsGo
<1> QED
  BY <1>3, <1>5, <1>6, <1>7, <1>8, GoingStep

LEMMA ListsAliasesStep ==
  ASSUME RegistryInv, NEW c \in RgClients, ListsAliases(c) PROVE RegistryInv'
<1>1. PICK q \in Request : q = rq[c] /\ RequestFits(q) /\ q.pc = "versions" /\ q.todo = {}
  BY DEF ListsAliases, RegistryInv, RegistryHolds, RegistryTypeOK
<1>2. PICK drop \in SUBSET Aliases : drop = {a \in Aliases : <<q.s, a>> \in DOMAIN alias}
  OBVIOUS
<1>3. PICK p : p = [q EXCEPT !.pc = "aliases", !.drop = drop]
  OBVIOUS
<1>4. GoesOn(c, p, {}) /\ UNCHANGED <<sm, versions, alias, tagged, acts, revision, latevars>>
  BY <1>1, <1>2, <1>3 DEF ListsAliases
<1>5. /\ p \in Request /\ p.op = q.op /\ p.pc = "aliases" /\ p.s = q.s /\ p.m = q.m /\ p.pub = q.pub
      /\ p.left = q.left /\ p.drop = drop
  BY <1>1, <1>3 DEF Request
<1>6. RequestFits(p) /\ ReadsHold(p)
  BY <1>1, <1>5 DEF RequestFits, ReadsHold
<1>7. \A r \in Machine : r \in {p.m, p.pub} => Held(r)
  BY <1>1, <1>5, OwnIsHeld
<1>8. \A a \in DOMAIN alias : a[1] = q.s => a[2] \in drop
  BY <1>2 DEF RegistryInv, RegistryHolds, RegistryTypeOK
<1>9. /\ \A a \in DOMAIN alias : AliasGoes(a, rq[c]) => AliasGoes(a, p)
      /\ \A v : ~VersionGoes(v, rq[c])
      /\ \A r : TagsGo(r, rq[c]) => TagsGo(r, p)
  BY <1>1, <1>5, <1>8 DEF AliasGoes, VersionGoes, TagsGo
<1> QED
  BY <1>4, <1>5, <1>6, <1>7, <1>9, GoingStep

LEMMA ListsRoutesStep ==
  ASSUME RegistryInv, NEW c \in RgClients, ListsRoutes(c) PROVE RegistryInv'
<1>1. PICK q \in Request : q = rq[c] /\ RequestFits(q) /\ q.pc = "routed"
  BY DEF ListsRoutes, RegistryInv, RegistryHolds, RegistryTypeOK
<1>2. UNCHANGED <<sm, versions, alias, tagged, acts, revision, latevars>>
  BY DEF ListsRoutes
<1>3. CASE GoesOn(c, NoRequest, {})
  <2>1. \A r \in Machine : r \in {NoRequest.m, NoRequest.pub} => Held(r)
    BY NoRequestFits
  <2> QED
    BY <1>1, <1>2, <1>3, <2>1, NoRequestFits, QuietlyGoing
<1>4. CASE Routed(q.s, q.n) = {} /\ GoesOn(c, [q EXCEPT !.pc = "unversion", !.stale = FALSE], {})
  <2>1. PICK p : p = [q EXCEPT !.pc = "unversion", !.stale = FALSE]
    OBVIOUS
  <2>2. /\ p \in Request /\ p.op = q.op /\ p.pc = "unversion" /\ p.s = q.s /\ p.m = q.m /\ p.pub = q.pub
        /\ p.left = q.left /\ p.n = q.n /\ p.stale = FALSE
    BY <1>1, <2>1 DEF Request
  <2>3. RequestFits(p) /\ ReadsHold(p)
    BY <1>1, <1>4, <2>2 DEF RequestFits, ReadsHold
  <2>4. \A r \in Machine : r \in {p.m, p.pub} => Held(r)
    BY <1>1, <2>2, OwnIsHeld
  <2> QED
    BY <1>1, <1>2, <1>4, <2>1, <2>2, <2>3, <2>4, QuietlyGoing
<1> QED
  BY <1>1, <1>3, <1>4 DEF ListsRoutes

LEMMA ValidatesRouteStep ==
  ASSUME RegistryInv, NEW c \in RgClients, NEW n \in Numbers, ValidatesRoute(c, n) PROVE RegistryInv'
<1>1. PICK q \in Request : q = rq[c] /\ RequestFits(q) /\ ReadsHold(q) /\ q.pc = "check" /\ n \in q.todo
  BY DEF ValidatesRoute, RegistryInv, RegistryHolds, RegistryTypeOK
<1>2. UNCHANGED <<sm, versions, alias, tagged, acts, revision, latevars>>
  BY DEF ValidatesRoute
<1>3. CASE GoesOn(c, NoRequest, {})
  <2>1. \A r \in Machine : r \in {NoRequest.m, NoRequest.pub} => Held(r)
    BY NoRequestFits
  <2> QED
    BY <1>1, <1>2, <1>3, <2>1, NoRequestFits, QuietlyGoing
<1>4. PICK left \in SUBSET Numbers : left = q.todo \ {n}
  BY <1>1 DEF Request
<1>5. PICK pc \in {"check", "route"} : pc = IF left = {} /\ q.op = "realias" THEN "route" ELSE q.pc
  BY <1>1
<1>6. CASE <<q.s, n>> \in DOMAIN versions /\ GoesOn(c, [q EXCEPT !.todo = left, !.pc = pc], {})
  <2>1. PICK p : p = [q EXCEPT !.todo = left, !.pc = pc]
    OBVIOUS
  <2>2. /\ p \in Request /\ p.op = q.op /\ p.pc = pc /\ p.s = q.s /\ p.m = q.m /\ p.pub = q.pub
        /\ p.left = q.left /\ p.todo = left /\ p.routes = q.routes /\ p.stale = q.stale
    BY <1>1, <2>1 DEF Request
  <2>3. RequestFits(p) /\ ReadsHold(p)
    BY <1>1, <1>4, <1>5, <1>6, <2>2 DEF RequestFits, ReadsHold
  <2>4. \A r \in Machine : r \in {p.m, p.pub} => Held(r)
    BY <1>1, <2>2, OwnIsHeld
  <2> QED
    BY <1>1, <1>2, <1>6, <2>1, <2>2, <2>3, <2>4, QuietlyGoing
<1>7. GoesOn(c, IF <<q.s, n>> \notin DOMAIN versions THEN NoRequest ELSE [q EXCEPT !.todo = left, !.pc = pc], {})
  BY <1>1, <1>4, <1>5 DEF ValidatesRoute
<1> QED
  BY <1>3, <1>6, <1>7

LEMMA FindsAliasStep ==
  ASSUME RegistryInv, NEW c \in RgClients, FindsAlias(c) PROVE RegistryInv'
<1>1. PICK q \in Request : q = rq[c] /\ RequestFits(q) /\ ReadsHold(q) /\ q.pc = "check" /\ q.todo = {}
  BY DEF FindsAlias, RegistryInv, RegistryHolds, RegistryTypeOK
<1>2. UNCHANGED <<sm, versions, alias, tagged, acts, revision, latevars>>
  BY DEF FindsAlias
<1>3. CASE GoesOn(c, NoRequest, {})
  <2>1. \A r \in Machine : r \in {NoRequest.m, NoRequest.pub} => Held(r)
    BY NoRequestFits
  <2> QED
    BY <1>1, <1>2, <1>3, <2>1, NoRequestFits, QuietlyGoing
<1>4. CASE GoesOn(c, [q EXCEPT !.pc = "route"], {})
  <2>1. PICK p : p = [q EXCEPT !.pc = "route"]
    OBVIOUS
  <2>2. /\ p \in Request /\ p.op = q.op /\ p.pc = "route" /\ p.s = q.s /\ p.m = q.m /\ p.pub = q.pub
        /\ p.left = q.left /\ p.todo = q.todo /\ p.routes = q.routes /\ p.stale = q.stale
    BY <1>1, <2>1 DEF Request
  <2>3. RequestFits(p) /\ ReadsHold(p)
    BY <1>1, <2>2 DEF RequestFits, ReadsHold
  <2>4. \A r \in Machine : r \in {p.m, p.pub} => Held(r)
    BY <1>1, <2>2, OwnIsHeld
  <2> QED
    BY <1>1, <1>2, <1>4, <2>1, <2>2, <2>3, <2>4, QuietlyGoing
<1> QED
  BY <1>1, <1>3, <1>4 DEF FindsAlias

\* What is taken along stays so, if c does not give it up.
LEMMA GoAlong ==
  ASSUME RegistryTypeOK, NEW c \in RgClients, NEW p \in Request, NEW hit, GoesOn(c, p, hit)
  PROVE  /\ \A a : (\E x \in RgClients : AliasGoes(a, rq[x])) /\ (AliasGoes(a, rq[c]) => AliasGoes(a, p))
                   => \E x \in RgClients : AliasGoes(a, rq'[x])
         /\ \A v : (\E x \in RgClients : VersionGoes(v, rq[x])) /\ (VersionGoes(v, rq[c]) => VersionGoes(v, p))
                   => \E x \in RgClients : VersionGoes(v, rq'[x])
         /\ \A r : (\E x \in RgClients : TagsGo(r, rq[x])) /\ (TagsGo(r, rq[c]) => TagsGo(r, p))
                   => \E x \in RgClients : TagsGo(r, rq'[x])
<1>1. rq'[c] = p /\ \A x \in RgClients : x # c => Kept(rq[x], rq'[x])
  BY OthersKept
<1>2. ASSUME NEW x \in RgClients, x # c
      PROVE  /\ \A a : AliasGoes(a, rq'[x]) <=> AliasGoes(a, rq[x])
             /\ \A v : VersionGoes(v, rq'[x]) <=> VersionGoes(v, rq[x])
             /\ \A r : TagsGo(r, rq'[x]) <=> TagsGo(r, rq[x])
  BY <1>1, <1>2, OthersGo
<1> QED
  BY <1>1, <1>2

\* A request goes on as p and stores something that was held, or drops it.
LEMMA WritingStep ==
  ASSUME RegistryInv, NEW c \in RgClients, NEW p \in Request, NEW hit, GoesOn(c, p, hit),
         RequestFits(p), ReadsHold(p)',
         p.m \in {rq[c].m, NoMachine}, p.pub \in {rq[c].pub, NoMachine}, UNCHANGED revision,
         DOMAIN sm' \subseteq SMNames, \A s \in DOMAIN sm' : sm'[s] \in Machine /\ Held(sm'[s]),
         DOMAIN versions' \subseteq SMNames \X Numbers,
         \A v \in DOMAIN versions' : versions'[v] \in Machine /\ Held(versions'[v]),
         DOMAIN alias' \subseteq SMNames \X Aliases, \A a \in DOMAIN alias' : alias'[a] \subseteq Numbers,
         tagged' \subseteq Resources, acts' \in BOOLEAN,
         lateVersions' \subseteq DOMAIN versions', lateAliases' \subseteq DOMAIN alias', lateTags' \subseteq tagged',
         \A x \in RgClients : x # c => ReadsHold(rq[x])',
         AliasesResolve', VersionPerRevision', NoOrphans'
  PROVE  RegistryInv'
<1>1. /\ RegistryTypeOK /\ revision \in 0..MaxRevision /\ asked \in 0..RgBudget
      /\ \A x \in RgClients : RequestFits(rq[x])
  BY DEF RegistryInv, RegistryHolds, RegistryTypeOK
<1>2. /\ rq' \in [RgClients -> Request] /\ rq'[c] = p /\ asked' = asked
      /\ \A x \in RgClients : x # c => Kept(rq[x], rq'[x])
  BY <1>1, OthersKept
<1>3. RegistryTypeOK'
  BY <1>1, <1>2 DEF RegistryTypeOK
<1>4. \A x \in RgClients : RequestFits(rq[x])'
  <2>1. ASSUME NEW x \in RgClients PROVE RequestFits(rq'[x])
    <3>1. CASE x = c
      BY <1>2, <3>1
    <3>2. CASE x # c
      BY <1>1, <1>2, <3>2, KeptFits
    <3> QED
      BY <3>1, <3>2
  <2> QED
    BY <2>1 DEF RequestFits
<1>5. \A x \in RgClients : ReadsHold(rq[x])'
  <2>1. ReadsHold(rq[c])'
    BY <1>2 DEF ReadsHold, TagResourceExists, IsPublished, Routed
  <2> QED
    BY <2>1
<1>6. PICK f : f = NoMachine
  OBVIOUS
<1>7. \A r \in Machine : Held(r)' => Held(r) \/ r = f
  <2>1. \A r \in Machine : r \in {p.m, p.pub} => Held(r)
    BY OwnIsHeld
  <2> QED
    BY <1>1, <1>2, <2>1, HeldStep
<1>8. OneDefinitionPerRevision' /\ RevisionsDrawn'
  <2>1. f \notin Machine /\ revision' \in Nat /\ revision <= revision'
    BY <1>1, <1>6, NoRequestFits, RegistryBound
  <2> QED
    BY <1>7, <2>1, RevisionStep
<1> QED
  BY <1>3, <1>4, <1>5, <1>8 DEF RegistryInv, RegistryHolds

\* What holds before every step of a request that stores or drops something.
LEMMA BeforeWrite ==
  ASSUME RegistryInv, NEW c \in RgClients
  PROVE  /\ RegistryTypeOK /\ rq[c] \in Request /\ RequestFits(rq[c]) /\ ReadsHold(rq[c])
         /\ \A x \in RgClients : rq[x] \in Request /\ RequestFits(rq[x]) /\ ReadsHold(rq[x])
         /\ DOMAIN sm \subseteq SMNames /\ \A s \in DOMAIN sm : sm[s] \in Machine /\ Held(sm[s])
         /\ DOMAIN versions \subseteq SMNames \X Numbers
         /\ \A v \in DOMAIN versions : versions[v] \in Machine /\ Held(versions[v])
         /\ DOMAIN alias \subseteq SMNames \X Aliases /\ \A a \in DOMAIN alias : alias[a] \subseteq Numbers
         /\ tagged \subseteq Resources /\ acts \in BOOLEAN
         /\ lateVersions \subseteq DOMAIN versions /\ lateAliases \subseteq DOMAIN alias
         /\ lateTags \subseteq tagged
         /\ AliasesResolve /\ VersionPerRevision /\ NoOrphans
BY DEF RegistryInv, RegistryHolds, RegistryTypeOK, Held

LEMMA PutsMachineStep ==
  ASSUME RegistryInv, NEW c \in RgClients, PutsMachine(c) PROVE RegistryInv'
<1>1. PICK q \in Request : q = rq[c] /\ RequestFits(q) /\ q.pc \in {"put", "again"}
  BY BeforeWrite DEF PutsMachine
<1>2. /\ sm' = Put(sm, q.s, q.m) /\ UNCHANGED <<versions, alias, tagged, acts, revision, latevars>>
      /\ GoesOn(c, IF q.pc = "put" THEN Onward(q) ELSE NoRequest, {})
  BY <1>1 DEF PutsMachine
<1>3. q.s \in SMNames /\ q.m \in Machine /\ Held(q.m)
  BY <1>1 DEF RequestFits, Held
<1>4. /\ DOMAIN sm' = DOMAIN sm \union {q.s} /\ sm'[q.s] = q.m
      /\ \A x \in DOMAIN sm : x # q.s => sm'[x] = sm[x]
  BY <1>2 DEF Put
<1>5. PICK p \in Request :
        /\ GoesOn(c, p, {}) /\ RequestFits(p) /\ p.pc \in {"tag", "publish", "idle"}
        /\ p.pc = "tag" => p.s = q.s
        /\ p.m \in {q.m, NoMachine} /\ p.pub \in {q.pub, NoMachine}
  <2>1. CASE q.pc = "put"
    BY <1>1, <1>2, <2>1, OnwardFits
  <2>2. CASE q.pc # "put"
    BY <1>2, <2>2, NoRequestFits
  <2> QED
    BY <2>1, <2>2
<1>6. ReadsHold(p)'
  BY <1>4, <1>5 DEF ReadsHold, TagResourceExists
<1>7. \A s \in DOMAIN sm' : sm'[s] \in Machine /\ Held(sm'[s])
  BY <1>3, <1>4, BeforeWrite
<1>8. \A x \in RgClients : x # c => ReadsHold(rq[x])'
  <2>1. ASSUME NEW x \in RgClients, x # c PROVE ReadsHold(rq[x])'
    <3>1. Kept(rq[x], rq'[x]) /\ ReadsHold(rq[x])
      BY <1>5, <2>1, BeforeWrite, OthersKept
    <3> QED
      BY <1>2, <1>4, <3>1 DEF ReadsHold, Kept, TagResourceExists, IsPublished, Routed
  <2> QED
    BY <2>1
<1>9. /\ \A a : ~AliasGoes(a, rq[c]) /\ \A v : ~VersionGoes(v, rq[c]) /\ \A r : ~TagsGo(r, rq[c])
  BY <1>1 DEF AliasGoes, VersionGoes, TagsGo
<1>10. AliasesResolve'
  <2>1. ASSUME NEW a \in DOMAIN alias \ lateAliases
        PROVE  ResolveAlias(a) \subseteq DOMAIN versions \/ \E x \in RgClients : AliasGoes(a, rq'[x])
    BY <1>5, <1>9, <2>1, BeforeWrite, GoAlong DEF AliasesResolve
  <2> QED
    BY <1>2, <2>1 DEF AliasesResolve, ResolveAlias, latevars, AliasGoes
<1>11. VersionPerRevision'
  BY <1>2, BeforeWrite DEF VersionPerRevision, latevars
<1>12. NoOrphans'
  <2>1. ASSUME NEW v \in DOMAIN versions \ lateVersions
        PROVE  v[1] \in DOMAIN sm' \/ \E x \in RgClients : VersionGoes(v, rq'[x])
    BY <1>4, <1>5, <1>9, <2>1, BeforeWrite, GoAlong DEF NoOrphans
  <2>2. ASSUME NEW r \in tagged \ lateTags
        PROVE  TagResourceExists(r)' \/ \E x \in RgClients : TagsGo(r, rq'[x])
    <3>1. TagResourceExists(r) => TagResourceExists(r)'
      BY <1>2, <1>4 DEF TagResourceExists
    <3> QED
      BY <1>5, <1>9, <2>2, <3>1, BeforeWrite, GoAlong DEF NoOrphans
  <2> QED
    BY <1>2, <2>1, <2>2 DEF NoOrphans, latevars, VersionGoes, TagsGo
<1> QED
  BY <1>1, <1>2, <1>4, <1>3, <1>5, <1>6, <1>7, <1>8, <1>10, <1>11, <1>12, BeforeWrite, WritingStep DEF latevars

LEMMA PutsVersionStep ==
  ASSUME RegistryInv, NEW c \in RgClients, PutsVersion(c) PROVE RegistryInv'
<1>1. PICK q \in Request : q = rq[c] /\ RequestFits(q) /\ ReadsHold(q) /\ q.pc = "version"
  BY BeforeWrite DEF PutsVersion
<1>2. PICK w : w = <<q.s, q.n>>
  OBVIOUS
<1>3. /\ versions' = Put(versions, w, q.pub) /\ lateVersions' = Marked(lateVersions, w, q.stale)
      /\ GoesOn(c, AfterPublish(q), Numbering(q.s))
      /\ UNCHANGED <<sm, alias, tagged, acts, revision, lateAliases, lateTags>>
  BY <1>1, <1>2 DEF PutsVersion
<1>4. /\ w \in SMNames \X Numbers /\ w[1] = q.s /\ q.pub \in Machine /\ Held(q.pub)
  BY <1>1, <1>2 DEF RequestFits, Held
<1>5. /\ DOMAIN versions' = DOMAIN versions \union {w} /\ versions'[w] = q.pub
      /\ \A v \in DOMAIN versions : v # w => versions'[v] = versions[v]
  BY <1>3 DEF Put
<1>6. /\ ~q.stale => /\ q.s \in DOMAIN sm /\ w \notin DOMAIN versions
                     /\ \A v \in DOMAIN versions : v[1] = q.s => versions[v].rev # q.pub.rev
      /\ w \notin lateVersions' => ~q.stale
      /\ lateVersions' \subseteq DOMAIN versions'
      /\ \A v \in DOMAIN versions' \ lateVersions' : v # w => v \in DOMAIN versions \ lateVersions
  BY <1>1, <1>2, <1>3, <1>5, BeforeWrite DEF ReadsHold, IsPublished, Marked
<1>7. PICK p \in Request :
        /\ GoesOn(c, p, Numbering(q.s)) /\ RequestFits(p) /\ p.pc \in {"again", "idle"}
        /\ p.m \in {q.m, NoMachine} /\ p.pub \in {q.pub, NoMachine}
  BY <1>1, <1>3, AfterPublishFits
<1>8. ReadsHold(p)'
  BY <1>7 DEF ReadsHold
<1>9. \A v \in DOMAIN versions' : v \in SMNames \X Numbers /\ versions'[v] \in Machine /\ Held(versions'[v])
  BY <1>4, <1>5, BeforeWrite
<1>10. \A x \in RgClients : x # c => ReadsHold(rq[x])'
  <2>1. ASSUME NEW x \in RgClients, x # c PROVE ReadsHold(rq[x])'
    <3>1. PICK o \in Request : o = rq[x] /\ Kept(o, rq'[x]) /\ ReadsHold(o)
                               /\ (x \in Numbering(q.s) => rq'[x].stale)
      BY <1>7, <2>1, BeforeWrite, OthersKept
    <3>2. CASE o.stale \/ x \in Numbering(q.s)
      BY <3>1, <3>2 DEF Kept, ReadsHold
    <3>3. CASE ~o.stale /\ x \notin Numbering(q.s)
      <4>1. o.pc = "version" => o.s # q.s
        BY <2>1, <3>1, <3>3 DEF Numbering
      <4>2. o.pc = "version" => <<o.s, o.n>> \notin DOMAIN versions' /\ ~IsPublished(o.s, o.pub.rev)'
        <5>1. SUFFICES ASSUME o.pc = "version"
                       PROVE  <<o.s, o.n>> \notin DOMAIN versions' /\ ~IsPublished(o.s, o.pub.rev)'
          OBVIOUS
        <5>2. <<o.s, o.n>> \notin DOMAIN versions /\ ~IsPublished(o.s, o.pub.rev)
          BY <3>1, <3>3, <5>1 DEF ReadsHold
        <5>3. <<o.s, o.n>> \notin DOMAIN versions'
          BY <1>2, <1>5, <4>1, <5>1, <5>2
        <5>4. ASSUME NEW v \in DOMAIN versions', v[1] = o.s PROVE versions'[v].rev # o.pub.rev
          BY <1>4, <1>5, <4>1, <5>1, <5>2, <5>4 DEF IsPublished
        <5> QED
          BY <5>3, <5>4 DEF IsPublished
      <4>3. /\ o.pc \in {"number", "version"} => o.s \in DOMAIN sm'
            /\ o.pc = "tag" => TagResourceExists(o.s)'
            /\ o.pc \in {"check", "route"} => \A n \in o.routes \ o.todo : <<o.s, n>> \in DOMAIN versions'
            /\ o.pc = "unversion" => Routed(o.s, o.n)' = {}
        BY <1>3, <1>5, <3>1, <3>3 DEF ReadsHold, TagResourceExists, Routed
      <4> QED
        BY <3>1, <4>2, <4>3 DEF ReadsHold, Kept, TagResourceExists, IsPublished, Routed
    <3> QED
      BY <3>2, <3>3
  <2> QED
    BY <2>1
<1>11. /\ \A a : ~AliasGoes(a, rq[c]) /\ \A v : ~VersionGoes(v, rq[c]) /\ \A r : ~TagsGo(r, rq[c])
  BY <1>1 DEF AliasGoes, VersionGoes, TagsGo
<1>12. AliasesResolve'
  <2>1. ASSUME NEW a \in DOMAIN alias \ lateAliases
        PROVE  ResolveAlias(a) \subseteq DOMAIN versions' \/ \E x \in RgClients : AliasGoes(a, rq'[x])
    BY <1>5, <1>7, <1>11, <2>1, BeforeWrite, GoAlong DEF AliasesResolve
  <2> QED
    BY <1>3, <2>1 DEF AliasesResolve, ResolveAlias, AliasGoes
<1>13. VersionPerRevision'
  <2>1. ASSUME NEW v \in DOMAIN versions' \ lateVersions', NEW u \in DOMAIN versions' \ lateVersions',
               v[1] = u[1], versions'[v].rev = versions'[u].rev
        PROVE  v = u
    <3>1. CASE v = w
      BY <1>4, <1>5, <1>6, <2>1, <3>1
    <3>2. CASE v # w /\ u = w
      BY <1>4, <1>5, <1>6, <2>1, <3>2
    <3>3. CASE v # w /\ u # w
      BY <1>5, <1>6, <2>1, <3>3, BeforeWrite DEF VersionPerRevision
    <3> QED
      BY <3>1, <3>2, <3>3
  <2> QED
    BY <2>1 DEF VersionPerRevision
<1>14. NoOrphans'
  <2>1. ASSUME NEW v \in DOMAIN versions' \ lateVersions'
        PROVE  v[1] \in DOMAIN sm \/ \E x \in RgClients : VersionGoes(v, rq'[x])
    <3>1. CASE v = w
      BY <1>4, <1>6, <2>1, <3>1
    <3>2. CASE v # w
      BY <1>6, <1>7, <1>11, <2>1, <3>2, BeforeWrite, GoAlong DEF NoOrphans
    <3> QED
      BY <3>1, <3>2
  <2>2. ASSUME NEW r \in tagged \ lateTags
        PROVE  TagResourceExists(r) \/ \E x \in RgClients : TagsGo(r, rq'[x])
    BY <1>7, <1>11, <2>2, BeforeWrite, GoAlong DEF NoOrphans
  <2> QED
    BY <1>3, <2>1, <2>2 DEF NoOrphans, VersionGoes, TagsGo, TagResourceExists
<1> QED
  BY <1>1, <1>3, <1>6, <1>7, <1>8, <1>9, <1>10, <1>12, <1>13, <1>14, BeforeWrite, WritingStep

LEMMA DropsMachineStep ==
  ASSUME RegistryInv, NEW c \in RgClients, DropsMachine(c) PROVE RegistryInv'
<1>1. PICK q \in Request : q = rq[c] /\ RequestFits(q) /\ q.pc = "sm"
  BY BeforeWrite DEF DropsMachine
<1>2. PICK p : p = [q EXCEPT !.pc = "ver"]
  OBVIOUS
<1>3. /\ sm' = DelAll(sm, {q.s}) /\ GoesOn(c, p, Found(q.s))
      /\ UNCHANGED <<versions, alias, tagged, acts, revision, latevars>>
  BY <1>1, <1>2 DEF DropsMachine
<1>4. /\ p \in Request /\ p.op = q.op /\ p.pc = "ver" /\ p.s = q.s /\ p.m = q.m /\ p.pub = q.pub
      /\ p.left = q.left
  BY <1>1, <1>2 DEF Request
<1>5. RequestFits(p) /\ ReadsHold(p)' /\ q.s \in SMNames
  BY <1>1, <1>4 DEF RequestFits, ReadsHold
<1>6. DOMAIN sm' = DOMAIN sm \ {q.s} /\ \A s \in DOMAIN sm' : sm'[s] = sm[s]
  BY <1>3 DEF DelAll
<1>7. \A x \in RgClients : x # c => ReadsHold(rq[x])'
  <2>1. ASSUME NEW x \in RgClients, x # c PROVE ReadsHold(rq[x])'
    <3>1. PICK o \in Request : o = rq[x] /\ Kept(o, rq'[x]) /\ ReadsHold(o)
                               /\ (x \in Found(q.s) => rq'[x].stale)
      BY <1>3, <1>4, <2>1, BeforeWrite, OthersKept
    <3>2. CASE o.stale \/ x \in Found(q.s)
      BY <3>1, <3>2 DEF Kept, ReadsHold
    <3>3. CASE ~o.stale /\ x \notin Found(q.s)
      <4>1. o.pc \in {"tag", "number", "version"} => o.s # q.s
        BY <2>1, <3>1, <3>3 DEF Found
      <4> QED
        BY <1>3, <1>6, <3>1, <3>3, <4>1 DEF ReadsHold, Kept, TagResourceExists, IsPublished, Routed
    <3> QED
      BY <3>2, <3>3
  <2> QED
    BY <2>1
<1>8. /\ \A a : ~AliasGoes(a, rq[c]) /\ \A v : ~VersionGoes(v, rq[c]) /\ \A r : ~TagsGo(r, rq[c])
      /\ \A v : v[1] = q.s => VersionGoes(v, p)
      /\ TagsGo(q.s, p)
  BY <1>1, <1>4 DEF AliasGoes, VersionGoes, TagsGo
<1>c. rq'[c] = p
  BY <1>3, <1>4, BeforeWrite, OthersKept
<1>9. AliasesResolve'
  <2>1. ASSUME NEW a \in DOMAIN alias \ lateAliases
        PROVE  ResolveAlias(a) \subseteq DOMAIN versions \/ \E x \in RgClients : AliasGoes(a, rq'[x])
    BY <1>3, <1>4, <1>8, <2>1, BeforeWrite, GoAlong DEF AliasesResolve
  <2> QED
    BY <1>3, <2>1 DEF AliasesResolve, ResolveAlias, latevars, AliasGoes
<1>10. VersionPerRevision'
  BY <1>3, BeforeWrite DEF VersionPerRevision, latevars
<1>11. NoOrphans'
  <2>1. ASSUME NEW v \in DOMAIN versions \ lateVersions
        PROVE  v[1] \in DOMAIN sm' \/ \E x \in RgClients : VersionGoes(v, rq'[x])
    <3>1. CASE v[1] = q.s
      BY <1>8, <1>c, <3>1
    <3>2. CASE v[1] # q.s
      BY <1>3, <1>4, <1>6, <1>8, <2>1, <3>2, BeforeWrite, GoAlong DEF NoOrphans
    <3> QED
      BY <3>1, <3>2
  <2>2. ASSUME NEW r \in tagged \ lateTags
        PROVE  TagResourceExists(r)' \/ \E x \in RgClients : TagsGo(r, rq'[x])
    <3>1. CASE r = q.s
      BY <1>8, <1>c, <3>1
    <3>2. CASE r # q.s
      <4>1. TagResourceExists(r) => TagResourceExists(r)'
        BY <1>3, <1>6, <3>2 DEF TagResourceExists
      <4> QED
        BY <1>3, <1>4, <1>8, <2>2, <4>1, BeforeWrite, GoAlong DEF NoOrphans
    <3> QED
      BY <3>1, <3>2
  <2> QED
    BY <1>3, <2>1, <2>2 DEF NoOrphans, latevars, VersionGoes, TagsGo
<1> QED
  BY <1>1, <1>3, <1>4, <1>5, <1>6, <1>7, <1>9, <1>10, <1>11, BeforeWrite, WritingStep DEF latevars

\* What the readings of the others are after version w was deleted.
LEMMA VersionDropped ==
  ASSUME RegistryInv, NEW c \in RgClients, NEW p \in Request, NEW s, NEW n,
         GoesOn(c, p, Routing(s, n)),
         DOMAIN versions' = DOMAIN versions \ {<<s, n>>}, \A v \in DOMAIN versions' : versions'[v] = versions[v],
         UNCHANGED <<sm, alias, acts>>
  PROVE  \A x \in RgClients : x # c => ReadsHold(rq[x])'
<1>1. ASSUME NEW x \in RgClients, x # c PROVE ReadsHold(rq[x])'
  <2>1. PICK o \in Request : o = rq[x] /\ Kept(o, rq'[x]) /\ ReadsHold(o)
                             /\ (x \in Routing(s, n) => rq'[x].stale)
    BY <1>1, BeforeWrite, OthersKept
  <2>2. CASE o.stale \/ x \in Routing(s, n)
    BY <2>1, <2>2 DEF Kept, ReadsHold
  <2>3. CASE ~o.stale /\ x \notin Routing(s, n)
    <3>1. o.pc \in {"check", "route"} => \A k \in o.routes \ o.todo : <<o.s, k>> \in DOMAIN versions'
      <4>1. o.pc \in {"check", "route"} => \A k \in o.routes \ o.todo : <<o.s, k>> \in DOMAIN versions
        BY <2>1, <2>3 DEF ReadsHold
      <4>2. o.pc \in {"check", "route"} => o.s # s \/ n \notin o.routes \ o.todo
        BY <1>1, <2>1, <2>3 DEF Routing
      <4> QED
        BY <4>1, <4>2
    <3>2. /\ o.pc \in {"number", "version"} => o.s \in DOMAIN sm'
          /\ o.pc = "tag" => TagResourceExists(o.s)'
          /\ o.pc = "version" => <<o.s, o.n>> \notin DOMAIN versions' /\ ~IsPublished(o.s, o.pub.rev)'
          /\ o.pc = "unversion" => Routed(o.s, o.n)' = {}
      BY <2>1, <2>3 DEF ReadsHold, TagResourceExists, Routed, IsPublished
    <3> QED
      BY <2>1, <3>1, <3>2 DEF ReadsHold, Kept, TagResourceExists, IsPublished, Routed
  <2> QED
    BY <2>2, <2>3
<1> QED
  BY <1>1

LEMMA DropsVersionStep ==
  ASSUME RegistryInv, NEW c \in RgClients, NEW n \in Numbers, DropsVersion(c, n) PROVE RegistryInv'
<1>1. PICK q \in Request : q = rq[c] /\ RequestFits(q) /\ q.pc = "versions" /\ n \in q.todo
  BY BeforeWrite DEF DropsVersion
<1>2. PICK w : w = <<q.s, n>>
  OBVIOUS
<1>3. PICK rest \in SUBSET Numbers : rest = q.todo \ {n}
  BY <1>1 DEF Request
<1>4. PICK p : p = [q EXCEPT !.todo = rest]
  OBVIOUS
<1>5. /\ versions' = DelAll(versions, {w}) /\ lateVersions' = lateVersions \ {w}
      /\ GoesOn(c, p, Routing(q.s, n))
      /\ UNCHANGED <<sm, alias, tagged, acts, revision, lateAliases, lateTags>>
  BY <1>1, <1>2, <1>3, <1>4 DEF DropsVersion
<1>6. /\ p \in Request /\ p.op = q.op /\ p.pc = "versions" /\ p.s = q.s /\ p.m = q.m /\ p.pub = q.pub
      /\ p.left = q.left /\ p.todo = rest /\ p.drop = q.drop
  BY <1>1, <1>4 DEF Request
<1>7. RequestFits(p) /\ ReadsHold(p)' /\ q.s \in SMNames
  BY <1>1, <1>6 DEF RequestFits, ReadsHold
<1>8. DOMAIN versions' = DOMAIN versions \ {w} /\ \A v \in DOMAIN versions' : versions'[v] = versions[v]
  BY <1>5 DEF DelAll
<1>9. \A x \in RgClients : x # c => ReadsHold(rq[x])'
  BY <1>2, <1>5, <1>6, <1>8, VersionDropped
<1>10. /\ \A a : AliasGoes(a, rq[c]) => AliasGoes(a, p)
       /\ \A a : a[1] = q.s => AliasGoes(a, p)
       /\ \A v \in DOMAIN versions' : VersionGoes(v, rq[c]) => VersionGoes(v, p)
       /\ \A r : TagsGo(r, rq[c]) => TagsGo(r, p)
  <2>1. \A v \in DOMAIN versions' : v[1] = q.s => v[2] # n
    BY <1>2, <1>8, BeforeWrite
  <2> QED
    BY <1>1, <1>3, <1>6, <2>1 DEF AliasGoes, VersionGoes, TagsGo
<1>c. rq'[c] = p
  BY <1>5, <1>6, BeforeWrite, OthersKept
<1>11. AliasesResolve'
  <2>1. ASSUME NEW a \in DOMAIN alias \ lateAliases
        PROVE  ResolveAlias(a) \subseteq DOMAIN versions' \/ \E x \in RgClients : AliasGoes(a, rq'[x])
    <3>1. CASE a[1] = q.s
      BY <1>10, <1>c, <3>1
    <3>2. CASE a[1] # q.s /\ ResolveAlias(a) \subseteq DOMAIN versions
      BY <1>2, <1>8, <3>2 DEF ResolveAlias
    <3>3. CASE \E x \in RgClients : AliasGoes(a, rq[x])
      BY <1>5, <1>6, <1>10, <3>3, BeforeWrite, GoAlong
    <3> QED
      BY <2>1, <3>1, <3>2, <3>3, BeforeWrite DEF AliasesResolve
  <2> QED
    BY <1>5, <2>1 DEF AliasesResolve, ResolveAlias, AliasGoes
<1>12. VersionPerRevision'
  BY <1>5, <1>8, BeforeWrite DEF VersionPerRevision
<1>13. NoOrphans'
  <2>1. ASSUME NEW v \in DOMAIN versions' \ lateVersions'
        PROVE  v[1] \in DOMAIN sm \/ \E x \in RgClients : VersionGoes(v, rq'[x])
    <3>1. v \in DOMAIN versions \ lateVersions
      BY <1>5, <1>8, <2>1
    <3> QED
      BY <1>5, <1>6, <1>10, <3>1, <2>1, BeforeWrite, GoAlong DEF NoOrphans
  <2>2. ASSUME NEW r \in tagged \ lateTags
        PROVE  TagResourceExists(r) \/ \E x \in RgClients : TagsGo(r, rq'[x])
    BY <1>5, <1>6, <1>10, <2>2, BeforeWrite, GoAlong DEF NoOrphans
  <2> QED
    BY <1>5, <2>1, <2>2 DEF NoOrphans, VersionGoes, TagsGo, TagResourceExists
<1>14. lateVersions' \subseteq DOMAIN versions'
  BY <1>5, <1>8, BeforeWrite
<1> QED
  BY <1>1, <1>5, <1>6, <1>7, <1>8, <1>9, <1>11, <1>12, <1>13, <1>14, BeforeWrite, WritingStep

LEMMA UnversionsRowStep ==
  ASSUME RegistryInv, NEW c \in RgClients, UnversionsRow(c) PROVE RegistryInv'
<1>1. PICK q \in Request : q = rq[c] /\ RequestFits(q) /\ ReadsHold(q) /\ q.pc = "unversion"
  BY BeforeWrite DEF UnversionsRow
<1>2. PICK w : w = <<q.s, q.n>>
  OBVIOUS
<1>3. /\ versions' = DelAll(versions, {w}) /\ lateVersions' = lateVersions \ {w}
      /\ lateAliases' = IF q.stale THEN lateAliases \union Routed(q.s, q.n) ELSE lateAliases
      /\ GoesOn(c, NoRequest, Routing(q.s, q.n))
      /\ UNCHANGED <<sm, alias, tagged, acts, revision, lateTags>>
  BY <1>1, <1>2 DEF UnversionsRow
<1>4. DOMAIN versions' = DOMAIN versions \ {w} /\ \A v \in DOMAIN versions' : versions'[v] = versions[v]
  BY <1>3 DEF DelAll
<1>5. /\ lateAliases \subseteq lateAliases' /\ lateAliases' \subseteq DOMAIN alias
      /\ \A a \in DOMAIN alias \ lateAliases' : a[1] = q.s => q.n \notin alias[a]
  <2>1. Routed(q.s, q.n) \subseteq DOMAIN alias
    BY DEF Routed
  <2>2. \A a \in DOMAIN alias : a \notin Routed(q.s, q.n) /\ a[1] = q.s => q.n \notin alias[a]
    BY DEF Routed
  <2>3. ~q.stale => Routed(q.s, q.n) = {}
    BY <1>1 DEF ReadsHold
  <2> QED
    BY <1>3, <2>1, <2>2, <2>3, BeforeWrite
<1>6. \A x \in RgClients : x # c => ReadsHold(rq[x])'
  BY <1>2, <1>3, <1>4, NoRequestFits, VersionDropped
<1>7. /\ \A a : ~AliasGoes(a, rq[c]) /\ \A v : ~VersionGoes(v, rq[c]) /\ \A r : ~TagsGo(r, rq[c])
  BY <1>1 DEF AliasGoes, VersionGoes, TagsGo
<1>8. AliasesResolve'
  <2>1. ASSUME NEW a \in DOMAIN alias \ lateAliases'
        PROVE  ResolveAlias(a) \subseteq DOMAIN versions' \/ \E x \in RgClients : AliasGoes(a, rq'[x])
    <3>1. CASE ResolveAlias(a) \subseteq DOMAIN versions
      <4>1. \A n \in alias[a] : <<a[1], n>> \in DOMAIN versions /\ <<a[1], n>> # w
        BY <1>2, <1>5, <2>1, <3>1 DEF ResolveAlias
      <4> QED
        BY <1>4, <4>1 DEF ResolveAlias
    <3>2. CASE \E x \in RgClients : AliasGoes(a, rq[x])
      BY <1>3, <1>7, <3>2, NoRequestFits, BeforeWrite, GoAlong
    <3> QED
      BY <1>5, <2>1, <3>1, <3>2, BeforeWrite DEF AliasesResolve
  <2> QED
    BY <1>3, <2>1 DEF AliasesResolve, ResolveAlias, AliasGoes
<1>9. VersionPerRevision'
  BY <1>3, <1>4, BeforeWrite DEF VersionPerRevision
<1>10. NoOrphans'
  <2>1. ASSUME NEW v \in DOMAIN versions' \ lateVersions'
        PROVE  v[1] \in DOMAIN sm \/ \E x \in RgClients : VersionGoes(v, rq'[x])
    <3>1. v \in DOMAIN versions \ lateVersions
      BY <1>3, <1>4, <2>1
    <3>2. v[1] \in DOMAIN sm \/ \E x \in RgClients : VersionGoes(v, rq[x])
      BY <3>1, BeforeWrite DEF NoOrphans
    <3> QED
      BY <1>3, <1>7, <3>2, NoRequestFits, BeforeWrite, GoAlong
  <2>2. ASSUME NEW r \in tagged \ lateTags
        PROVE  TagResourceExists(r) \/ \E x \in RgClients : TagsGo(r, rq'[x])
    BY <1>3, <1>7, <2>2, NoRequestFits, BeforeWrite, GoAlong DEF NoOrphans
  <2> QED
    BY <1>3, <2>1, <2>2 DEF NoOrphans, VersionGoes, TagsGo, TagResourceExists
<1>11. lateVersions' \subseteq DOMAIN versions'
  BY <1>3, <1>4, BeforeWrite
<1> QED
  BY <1>1, <1>3, <1>4, <1>5, <1>6, <1>8, <1>9, <1>10, <1>11, NoRequestFits, BeforeWrite, WritingStep

LEMMA DropsAliasStep ==
  ASSUME RegistryInv, NEW c \in RgClients, NEW a \in Aliases, DropsAlias(c, a) PROVE RegistryInv'
<1>1. PICK q \in Request : q = rq[c] /\ RequestFits(q) /\ q.pc = "aliases" /\ a \in q.drop
  BY BeforeWrite DEF DropsAlias
<1>2. PICK w : w = <<q.s, a>>
  OBVIOUS
<1>3. PICK rest \in SUBSET Aliases : rest = q.drop \ {a}
  BY <1>1 DEF Request
<1>4. PICK p : p = [q EXCEPT !.drop = rest]
  OBVIOUS
<1>5. /\ alias' = DelAll(alias, {w}) /\ lateAliases' = lateAliases \ {w} /\ GoesOn(c, p, {})
      /\ UNCHANGED <<sm, versions, tagged, acts, revision, lateVersions, lateTags>>
  BY <1>1, <1>2, <1>3, <1>4 DEF DropsAlias
<1>6. /\ p \in Request /\ p.op = q.op /\ p.pc = "aliases" /\ p.s = q.s /\ p.m = q.m /\ p.pub = q.pub
      /\ p.left = q.left /\ p.todo = q.todo /\ p.drop = rest
  BY <1>1, <1>4 DEF Request
<1>7. RequestFits(p) /\ ReadsHold(p)'
  BY <1>1, <1>6 DEF RequestFits, ReadsHold
<1>8. DOMAIN alias' = DOMAIN alias \ {w} /\ \A b \in DOMAIN alias' : alias'[b] = alias[b]
  BY <1>5 DEF DelAll
<1>9. \A x \in RgClients : x # c => ReadsHold(rq[x])'
  <2>1. ASSUME NEW x \in RgClients, x # c PROVE ReadsHold(rq[x])'
    <3>1. Kept(rq[x], rq'[x]) /\ ReadsHold(rq[x])
      BY <1>5, <1>6, <2>1, BeforeWrite, OthersKept
    <3> QED
      BY <1>5, <1>8, <3>1 DEF ReadsHold, Kept, TagResourceExists, IsPublished, Routed
  <2> QED
    BY <2>1
<1>10. /\ \A b \in DOMAIN alias' : AliasGoes(b, rq[c]) => AliasGoes(b, p)
       /\ \A v : VersionGoes(v, rq[c]) => VersionGoes(v, p)
       /\ \A r : TagsGo(r, rq[c]) => TagsGo(r, p)
  <2>1. \A b \in DOMAIN alias' : b[1] = q.s => b[2] # a
    BY <1>2, <1>8, BeforeWrite
  <2> QED
    BY <1>1, <1>3, <1>6, <2>1 DEF AliasGoes, VersionGoes, TagsGo
<1>11. AliasesResolve'
  <2>1. ASSUME NEW b \in DOMAIN alias' \ lateAliases'
        PROVE  ResolveAlias(b) \subseteq DOMAIN versions \/ \E x \in RgClients : AliasGoes(b, rq'[x])
    <3>1. b \in DOMAIN alias \ lateAliases
      BY <1>5, <1>8, <2>1
    <3>2. ResolveAlias(b) \subseteq DOMAIN versions \/ \E x \in RgClients : AliasGoes(b, rq[x])
      BY <3>1, BeforeWrite DEF AliasesResolve
    <3>3. b \in DOMAIN alias'
      BY <2>1
    <3> QED
      BY <1>5, <1>6, <1>10, <3>2, <3>3, BeforeWrite, GoAlong
  <2> QED
    BY <1>5, <1>8, <2>1 DEF AliasesResolve, ResolveAlias, AliasGoes
<1>12. VersionPerRevision'
  BY <1>5, BeforeWrite DEF VersionPerRevision
<1>13. NoOrphans'
  <2>1. ASSUME NEW v \in DOMAIN versions \ lateVersions
        PROVE  v[1] \in DOMAIN sm \/ \E x \in RgClients : VersionGoes(v, rq'[x])
    BY <1>5, <1>6, <1>10, <2>1, BeforeWrite, GoAlong DEF NoOrphans
  <2>2. ASSUME NEW r \in tagged \ lateTags
        PROVE  TagResourceExists(r) \/ \E x \in RgClients : TagsGo(r, rq'[x])
    BY <1>5, <1>6, <1>10, <2>2, BeforeWrite, GoAlong DEF NoOrphans
  <2> QED
    BY <1>5, <2>1, <2>2 DEF NoOrphans, VersionGoes, TagsGo, TagResourceExists
<1>14. lateAliases' \subseteq DOMAIN alias'
  BY <1>5, <1>8, BeforeWrite
<1> QED
  BY <1>1, <1>5, <1>6, <1>7, <1>8, <1>9, <1>11, <1>12, <1>13, <1>14, BeforeWrite, WritingStep

LEMMA DropsTagsStep ==
  ASSUME RegistryInv, NEW c \in RgClients, DropsTags(c) PROVE RegistryInv'
<1>1. PICK q \in Request : q = rq[c] /\ (q.pc = "untag" \/ (q.pc = "aliases" /\ q.drop = {}))
  BY BeforeWrite DEF DropsTags
<1>2. /\ tagged' = tagged \ {q.s} /\ lateTags' = lateTags \ {q.s} /\ GoesOn(c, NoRequest, {})
      /\ UNCHANGED <<sm, versions, alias, acts, revision, lateVersions, lateAliases>>
  BY <1>1 DEF DropsTags
<1>3. \A x \in RgClients : x # c => ReadsHold(rq[x])'
  <2>1. ASSUME NEW x \in RgClients, x # c PROVE ReadsHold(rq[x])'
    <3>1. Kept(rq[x], rq'[x]) /\ ReadsHold(rq[x])
      BY <1>2, <2>1, NoRequestFits, BeforeWrite, OthersKept
    <3> QED
      BY <1>2, <3>1 DEF ReadsHold, Kept, TagResourceExists, IsPublished, Routed
  <2> QED
    BY <2>1
<1>4. /\ \A a : ~AliasGoes(a, rq[c]) /\ \A v : ~VersionGoes(v, rq[c])
      /\ \A r \in tagged' : ~TagsGo(r, rq[c])
  BY <1>1, <1>2 DEF AliasGoes, VersionGoes, TagsGo
<1>5. AliasesResolve'
  <2>1. ASSUME NEW a \in DOMAIN alias \ lateAliases
        PROVE  ResolveAlias(a) \subseteq DOMAIN versions \/ \E x \in RgClients : AliasGoes(a, rq'[x])
    BY <1>2, <1>4, <2>1, NoRequestFits, BeforeWrite, GoAlong DEF AliasesResolve
  <2> QED
    BY <1>2, <2>1 DEF AliasesResolve, ResolveAlias, AliasGoes
<1>6. VersionPerRevision'
  BY <1>2, BeforeWrite DEF VersionPerRevision
<1>7. NoOrphans'
  <2>1. ASSUME NEW v \in DOMAIN versions \ lateVersions
        PROVE  v[1] \in DOMAIN sm \/ \E x \in RgClients : VersionGoes(v, rq'[x])
    BY <1>2, <1>4, <2>1, NoRequestFits, BeforeWrite, GoAlong DEF NoOrphans
  <2>2. ASSUME NEW r \in tagged' \ lateTags'
        PROVE  TagResourceExists(r) \/ \E x \in RgClients : TagsGo(r, rq'[x])
    <3>1. r \in tagged \ lateTags
      BY <1>2, <2>2
    <3> QED
      BY <1>2, <1>4, <2>2, <3>1, NoRequestFits, BeforeWrite, GoAlong DEF NoOrphans
  <2> QED
    BY <1>2, <2>1, <2>2 DEF NoOrphans, VersionGoes, TagsGo, TagResourceExists
<1>8. tagged' \subseteq Resources /\ lateTags' \subseteq tagged'
  BY <1>2, BeforeWrite
<1> QED
  BY <1>1, <1>2, <1>3, <1>5, <1>6, <1>7, <1>8, NoRequestFits, BeforeWrite, WritingStep

LEMMA PutsAliasStep ==
  ASSUME RegistryInv, NEW c \in RgClients, PutsAlias(c) PROVE RegistryInv'
<1>1. PICK q \in Request : q = rq[c] /\ RequestFits(q) /\ ReadsHold(q) /\ q.pc = "route"
  BY BeforeWrite DEF PutsAlias
<1>2. PICK w : w = <<q.s, q.a>>
  OBVIOUS
<1>3. PICK hit : hit = {x \in RgClients : rq[x].pc = "unversion" /\ rq[x].s = q.s /\ rq[x].n \in q.routes}
  OBVIOUS
<1>4. /\ alias' = Put(alias, w, q.routes) /\ lateAliases' = Marked(lateAliases, w, q.stale)
      /\ GoesOn(c, NoRequest, hit)
      /\ UNCHANGED <<sm, versions, tagged, acts, revision, lateVersions, lateTags>>
  BY <1>1, <1>2, <1>3 DEF PutsAlias
<1>5. /\ w \in SMNames \X Aliases /\ w[1] = q.s /\ q.routes \subseteq Numbers
      /\ ~q.stale => \A n \in q.routes : <<q.s, n>> \in DOMAIN versions
  BY <1>1, <1>2 DEF RequestFits, ReadsHold, Request
<1>6. /\ DOMAIN alias' = DOMAIN alias \union {w} /\ alias'[w] = q.routes
      /\ \A a \in DOMAIN alias : a # w => alias'[a] = alias[a]
  BY <1>4 DEF Put
<1>7. /\ w \notin lateAliases' => ~q.stale
      /\ lateAliases' \subseteq DOMAIN alias'
      /\ \A a \in DOMAIN alias' \ lateAliases' : a # w => a \in DOMAIN alias \ lateAliases
  BY <1>4, <1>6, BeforeWrite DEF Marked
<1>8. \A x \in RgClients : x # c => ReadsHold(rq[x])'
  <2>1. ASSUME NEW x \in RgClients, x # c PROVE ReadsHold(rq[x])'
    <3>1. PICK o \in Request : o = rq[x] /\ Kept(o, rq'[x]) /\ ReadsHold(o) /\ (x \in hit => rq'[x].stale)
      BY <1>4, <2>1, NoRequestFits, BeforeWrite, OthersKept
    <3>2. CASE o.stale \/ x \in hit
      BY <3>1, <3>2 DEF Kept, ReadsHold
    <3>3. CASE ~o.stale /\ x \notin hit
      <4>1. o.pc = "unversion" => o.s # q.s \/ o.n \notin q.routes
        BY <1>3, <2>1, <3>1, <3>3
      <4>2. o.pc = "unversion" => Routed(o.s, o.n)' = {}
        <5>1. o.pc = "unversion" => Routed(o.s, o.n) = {}
          BY <3>1, <3>3 DEF ReadsHold
        <5> QED
          BY <1>5, <1>6, <4>1, <5>1 DEF Routed
      <4>3. /\ o.pc \in {"number", "version"} => o.s \in DOMAIN sm'
            /\ o.pc = "tag" => TagResourceExists(o.s)'
            /\ o.pc = "version" => <<o.s, o.n>> \notin DOMAIN versions' /\ ~IsPublished(o.s, o.pub.rev)'
            /\ o.pc \in {"check", "route"} => \A n \in o.routes \ o.todo : <<o.s, n>> \in DOMAIN versions'
        BY <1>4, <3>1, <3>3 DEF ReadsHold, TagResourceExists, IsPublished
      <4> QED
        BY <3>1, <4>2, <4>3 DEF ReadsHold, Kept, TagResourceExists, IsPublished, Routed
    <3> QED
      BY <3>2, <3>3
  <2> QED
    BY <2>1
<1>9. /\ \A a : ~AliasGoes(a, rq[c]) /\ \A v : ~VersionGoes(v, rq[c]) /\ \A r : ~TagsGo(r, rq[c])
  BY <1>1 DEF AliasGoes, VersionGoes, TagsGo
<1>10. AliasesResolve'
  <2>1. ASSUME NEW a \in DOMAIN alias' \ lateAliases'
        PROVE  ResolveAlias(a)' \subseteq DOMAIN versions \/ \E x \in RgClients : AliasGoes(a, rq'[x])
    <3>1. CASE a = w
      BY <1>5, <1>6, <1>7, <2>1, <3>1 DEF ResolveAlias
    <3>2. CASE a # w
      <4>1. ResolveAlias(a)' = ResolveAlias(a) /\ a \in DOMAIN alias \ lateAliases
        BY <1>6, <1>7, <2>1, <3>2 DEF ResolveAlias
      <4> QED
        BY <1>4, <1>9, <4>1, NoRequestFits, BeforeWrite, GoAlong DEF AliasesResolve
    <3> QED
      BY <3>1, <3>2
  <2> QED
    BY <1>4, <2>1 DEF AliasesResolve, ResolveAlias, AliasGoes
<1>11. VersionPerRevision'
  BY <1>4, BeforeWrite DEF VersionPerRevision
<1>12. NoOrphans'
  <2>1. ASSUME NEW v \in DOMAIN versions \ lateVersions
        PROVE  v[1] \in DOMAIN sm \/ \E x \in RgClients : VersionGoes(v, rq'[x])
    BY <1>4, <1>9, <2>1, NoRequestFits, BeforeWrite, GoAlong DEF NoOrphans
  <2>2. ASSUME NEW r \in tagged \ lateTags
        PROVE  TagResourceExists(r) \/ \E x \in RgClients : TagsGo(r, rq'[x])
    BY <1>4, <1>9, <2>2, NoRequestFits, BeforeWrite, GoAlong DEF NoOrphans
  <2> QED
    BY <1>4, <2>1, <2>2 DEF NoOrphans, VersionGoes, TagsGo, TagResourceExists
<1>13. DOMAIN alias' \subseteq SMNames \X Aliases /\ \A a \in DOMAIN alias' : alias'[a] \subseteq Numbers
  BY <1>5, <1>6, BeforeWrite
<1> QED
  BY <1>1, <1>4, <1>7, <1>8, <1>10, <1>11, <1>12, <1>13, NoRequestFits, BeforeWrite, WritingStep

\* The steps of the activity and of the tags: machines, versions and aliases
\* stay, and so does what is taken along.
LEMMA ResourceStep ==
  ASSUME RegistryInv, NEW c \in RgClients, NEW p \in Request, NEW hit, GoesOn(c, p, hit),
         RequestFits(p), ReadsHold(p)', p.m \in {rq[c].m, NoMachine}, p.pub \in {rq[c].pub, NoMachine},
         UNCHANGED <<sm, versions, alias, revision, lateVersions, lateAliases>>,
         rq[c].pc \in {"tag", "act", "unact"},
         tagged' \subseteq Resources, acts' \in BOOLEAN, lateTags' \subseteq tagged',
         \A x \in RgClients, r \in Resources : r = rq[x].s /\ rq[x].pc = "tag" /\ TagResourceExists(r)
                                              => x \in hit \/ TagResourceExists(r)',
         \A r \in tagged' \ lateTags' : TagResourceExists(r)' \/ \E x \in RgClients : TagsGo(r, rq'[x])
  PROVE  RegistryInv'
<1>1. \A x \in RgClients : x # c => ReadsHold(rq[x])'
  <2>1. ASSUME NEW x \in RgClients, x # c PROVE ReadsHold(rq[x])'
    <3>1. PICK o \in Request : o = rq[x] /\ Kept(o, rq'[x]) /\ ReadsHold(o) /\ (x \in hit => rq'[x].stale)
      BY <2>1, BeforeWrite, OthersKept
    <3>2. CASE o.stale \/ x \in hit
      BY <3>1, <3>2 DEF Kept, ReadsHold
    <3>3. CASE ~o.stale /\ x \notin hit
      <4>0. PICK r \in Resources : r = o.s
        BY <3>1 DEF Request
      <4>1. o.pc = "tag" => TagResourceExists(r)'
        <5>1. o.pc = "tag" => TagResourceExists(r)
          BY <3>1, <3>3, <4>0 DEF ReadsHold
        <5> QED
          BY <2>1, <3>1, <3>3, <4>0, <5>1
      <4> QED
        BY <3>1, <3>3, <4>0, <4>1 DEF ReadsHold, Kept, TagResourceExists, IsPublished, Routed
    <3> QED
      BY <3>2, <3>3
  <2> QED
    BY <2>1
<1>2. /\ \A a : ~AliasGoes(a, rq[c]) /\ \A v : ~VersionGoes(v, rq[c])
  BY DEF AliasGoes, VersionGoes
<1>3. AliasesResolve'
  <2>1. ASSUME NEW a \in DOMAIN alias \ lateAliases
        PROVE  ResolveAlias(a) \subseteq DOMAIN versions \/ \E x \in RgClients : AliasGoes(a, rq'[x])
    BY <1>2, <2>1, BeforeWrite, GoAlong DEF AliasesResolve
  <2> QED
    BY <2>1 DEF AliasesResolve, ResolveAlias, AliasGoes
<1>4. VersionPerRevision'
  BY BeforeWrite DEF VersionPerRevision
<1>5. NoOrphans'
  <2>1. ASSUME NEW v \in DOMAIN versions \ lateVersions
        PROVE  v[1] \in DOMAIN sm \/ \E x \in RgClients : VersionGoes(v, rq'[x])
    BY <1>2, <2>1, BeforeWrite, GoAlong DEF NoOrphans
  <2> QED
    BY <2>1 DEF NoOrphans, VersionGoes, TagsGo, TagResourceExists
<1> QED
  BY <1>1, <1>3, <1>4, <1>5, BeforeWrite, WritingStep

LEMMA PutsActivityStep ==
  ASSUME RegistryInv, NEW c \in RgClients, PutsActivity(c) PROVE RegistryInv'
<1>1. PICK q \in Request : q = rq[c] /\ RequestFits(q) /\ q.pc = "act"
  BY BeforeWrite DEF PutsActivity
<1>2. /\ acts' = TRUE /\ GoesOn(c, Onward(q), {})
      /\ UNCHANGED <<sm, versions, alias, tagged, revision, latevars>>
  BY <1>1 DEF PutsActivity
<1>3. q.s = Activity
  BY <1>1 DEF RequestFits
<1>4. PICK p \in Request :
        /\ GoesOn(c, p, {}) /\ RequestFits(p) /\ p.pc \in {"tag", "publish", "idle"}
        /\ p.pc = "tag" => p.s = q.s
        /\ p.m \in {q.m, NoMachine} /\ p.pub \in {q.pub, NoMachine}
  BY <1>1, <1>2, <1>3, OnwardFits
<1>5. ReadsHold(p)' /\ \A r : TagResourceExists(r) => TagResourceExists(r)'
  BY <1>2, <1>3, <1>4 DEF ReadsHold, TagResourceExists
<1>6. \A r \in tagged \ lateTags : TagResourceExists(r)' \/ \E x \in RgClients : TagsGo(r, rq'[x])
  <2>1. \A r : ~TagsGo(r, rq[c])
    BY <1>1 DEF TagsGo
  <2> QED
    BY <1>4, <1>5, <2>1, BeforeWrite, GoAlong DEF NoOrphans
<1>7. \A x \in RgClients, r \in Resources : r = rq[x].s /\ rq[x].pc = "tag" /\ TagResourceExists(r)
                                            => x \in {} \/ TagResourceExists(r)'
  BY <1>5
<1>8. /\ p.m \in {rq[c].m, NoMachine} /\ p.pub \in {rq[c].pub, NoMachine} /\ rq[c].pc \in {"tag", "act", "unact"}
      /\ tagged' \subseteq Resources /\ acts' \in BOOLEAN /\ lateTags' \subseteq tagged'
      /\ UNCHANGED <<sm, versions, alias, revision, lateVersions, lateAliases, tagged, lateTags>>
  BY <1>1, <1>2, <1>4, BeforeWrite DEF latevars
<1> QED
  BY <1>4, <1>5, <1>6, <1>7, <1>8, ResourceStep

LEMMA DropsActivityStep ==
  ASSUME RegistryInv, NEW c \in RgClients, DropsActivity(c) PROVE RegistryInv'
<1>1. PICK q \in Request : q = rq[c] /\ RequestFits(q) /\ q.pc = "unact" /\ q.s = Activity
  BY BeforeWrite DEF DropsActivity, RequestFits
<1>2. PICK p : p = [q EXCEPT !.pc = "untag"]
  OBVIOUS
<1>3. /\ acts' = FALSE /\ GoesOn(c, p, Found(Activity))
      /\ UNCHANGED <<sm, versions, alias, tagged, revision, latevars>>
  BY <1>1, <1>2 DEF DropsActivity
<1>4. /\ p \in Request /\ p.op = q.op /\ p.pc = "untag" /\ p.s = q.s /\ p.m = q.m /\ p.pub = q.pub
      /\ p.left = q.left
  BY <1>1, <1>2 DEF Request
<1>5. RequestFits(p) /\ ReadsHold(p)' /\ TagsGo(Activity, p)
  BY <1>1, <1>4 DEF RequestFits, ReadsHold, TagsGo
<1>6. \A x \in RgClients, r \in Resources : r = rq[x].s /\ rq[x].pc = "tag" /\ TagResourceExists(r)
                                            => x \in Found(Activity) \/ TagResourceExists(r)'
  BY <1>3 DEF Found, TagResourceExists
<1>7. rq'[c] = p
  BY <1>3, <1>4, BeforeWrite, OthersKept
<1>8. \A r \in tagged \ lateTags : TagResourceExists(r)' \/ \E x \in RgClients : TagsGo(r, rq'[x])
  <2>1. \A r : ~TagsGo(r, rq[c])
    BY <1>1 DEF TagsGo
  <2>2. \A r : r # Activity => (TagResourceExists(r) => TagResourceExists(r)')
    BY <1>3 DEF TagResourceExists
  <2>3. ASSUME NEW r \in tagged \ lateTags, r # Activity
        PROVE  TagResourceExists(r)' \/ \E x \in RgClients : TagsGo(r, rq'[x])
    BY <1>3, <1>4, <2>1, <2>2, <2>3, BeforeWrite, GoAlong DEF NoOrphans
  <2> QED
    BY <1>5, <1>7, <2>3
<1>9. /\ p.m \in {rq[c].m, NoMachine} /\ p.pub \in {rq[c].pub, NoMachine} /\ rq[c].pc \in {"tag", "act", "unact"}
      /\ tagged' \subseteq Resources /\ acts' \in BOOLEAN /\ lateTags' \subseteq tagged'
      /\ UNCHANGED <<sm, versions, alias, revision, lateVersions, lateAliases, tagged, lateTags>>
  BY <1>1, <1>3, <1>4, BeforeWrite DEF latevars
<1> QED
  BY <1>3, <1>4, <1>5, <1>6, <1>8, <1>9, ResourceStep

LEMMA PutsTagsStep ==
  ASSUME RegistryInv, NEW c \in RgClients, PutsTags(c) PROVE RegistryInv'
<1>1. PICK q \in Request : q = rq[c] /\ RequestFits(q) /\ ReadsHold(q) /\ q.pc = "tag"
  BY BeforeWrite DEF PutsTags
<1>2. /\ tagged' = tagged \union {q.s} /\ lateTags' = Marked(lateTags, q.s, q.stale)
      /\ GoesOn(c, Onward(q), {})
      /\ UNCHANGED <<sm, versions, alias, acts, revision, lateVersions, lateAliases>>
  BY <1>1 DEF PutsTags
<1>3. q.s \in Resources /\ (~q.stale => TagResourceExists(q.s))
  BY <1>1 DEF ReadsHold, Request
<1>4. PICK p \in Request :
        /\ p = Onward(q) /\ RequestFits(p) /\ p.pc \in {"tag", "publish", "idle"}
        /\ p.m \in {q.m, NoMachine} /\ p.pub \in {q.pub, NoMachine}
  BY <1>1, OnwardFits
<1>5. ReadsHold(p)'
  <2>1. p.pc = "tag" => p.s = q.s /\ p.stale = q.stale
    <3>1. CASE "tag" \in q.left
      BY <1>4, <3>1 DEF Onward, Request
    <3>2. CASE "tag" \notin q.left
      BY <1>4, <3>2, NoRequestFits DEF Onward, Request
    <3> QED
      BY <3>1, <3>2
  <2> QED
    BY <1>2, <1>3, <1>4, <2>1 DEF ReadsHold, TagResourceExists
<1>6. \A r : TagResourceExists(r)' <=> TagResourceExists(r)
  BY <1>2 DEF TagResourceExists
<1>7. /\ lateTags' \subseteq tagged' /\ tagged' \subseteq Resources
      /\ \A r \in tagged' \ lateTags' : (r = q.s /\ ~q.stale) \/ r \in tagged \ lateTags
  BY <1>2, <1>3, BeforeWrite DEF Marked
<1>8. \A r \in tagged' \ lateTags' : TagResourceExists(r)' \/ \E x \in RgClients : TagsGo(r, rq'[x])
  <2>1. \A r : ~TagsGo(r, rq[c])
    BY <1>1 DEF TagsGo
  <2>2. ASSUME NEW r \in tagged \ lateTags
        PROVE  TagResourceExists(r) \/ \E x \in RgClients : TagsGo(r, rq'[x])
    BY <1>2, <1>4, <2>1, <2>2, BeforeWrite, GoAlong DEF NoOrphans
  <2> QED
    BY <1>3, <1>6, <1>7, <2>2
<1>9. \A x \in RgClients, r \in Resources : r = rq[x].s /\ rq[x].pc = "tag" /\ TagResourceExists(r)
                                            => x \in {} \/ TagResourceExists(r)'
  BY <1>6
<1>10. /\ p.m \in {rq[c].m, NoMachine} /\ p.pub \in {rq[c].pub, NoMachine} /\ rq[c].pc \in {"tag", "act", "unact"}
       /\ acts' \in BOOLEAN /\ GoesOn(c, p, {})
       /\ UNCHANGED <<sm, versions, alias, revision, lateVersions, lateAliases>>
  BY <1>1, <1>2, <1>4, BeforeWrite
<1> QED
  BY <1>4, <1>5, <1>7, <1>8, <1>9, <1>10, ResourceStep

LEMMA RegistryStep == RegistryInv /\ [RegistryNext]_rgvars => RegistryInv'
<1> SUFFICES ASSUME RegistryInv, [RegistryNext]_rgvars PROVE RegistryInv'
  OBVIOUS
<1>1. ASSUME NEW c \in RgClients, Asking(c) PROVE RegistryInv'
  BY <1>1, AskingKeeps
<1>2. ASSUME NEW c \in RgClients, Going(c) PROVE RegistryInv'
  BY <1>2, PutsMachineStep, ReadsMachineStep, DrawsNumberStep, PutsVersionStep, DropsMachineStep,
     ListsVersionsStep, ListsAliasesStep, DropsTagsStep, DropsVersionStep, ValidatesRouteStep,
     DropsAliasStep, ListsRoutesStep, UnversionsRowStep, FindsAliasStep, PutsAliasStep,
     PutsActivityStep, DropsActivityStep, PutsTagsStep DEF Going
<1>3. ASSUME UNCHANGED rgvars PROVE RegistryInv'
  BY <1>3 DEF rgvars, latevars, RegistryInv, RegistryHolds, RegistryTypeOK, AliasesResolve, ResolveAlias,
     AliasGoes, VersionPerRevision, OneDefinitionPerRevision, RevisionsDrawn, Held, NoOrphans, VersionGoes,
     TagsGo, TagResourceExists, RequestFits, ReadsHold, IsPublished, Routed
<1> QED
  BY <1>1, <1>2, <1>3 DEF RegistryNext

\* Whatever is published, routed to, tagged and deleted, and however the store
\* calls of the requests interleave: an alias leads to versions that are stored,
\* a revision has one version and names one definition, and neither versions
\* nor tags outlive what they belong to, except for the rows written on a
\* reading that no longer held (the registry's operations take no lock).
THEOREM RegistryIsSound == RegistrySpec => []RegistryHolds
<1>1. RegistryInit => RegistryInv
  <2>1. ASSUME RegistryInit PROVE RegistryInv
    <3>1. /\ DOMAIN sm = {} /\ DOMAIN versions = {} /\ DOMAIN alias = {}
          /\ tagged = {} /\ acts = FALSE /\ revision = 0 /\ asked = 0
          /\ rq = [c \in RgClients |-> NoRequest] /\ lateVersions = {} /\ lateAliases = {} /\ lateTags = {}
      BY <2>1 DEF RegistryInit, NoRows
    <3>2. RegistryTypeOK
      <4>1. 0 \in 0..MaxRevision /\ 0 \in 0..RgBudget
        BY RegistryBound
      <4>2. rq \in [RgClients -> Request]
        BY <3>1, NoRequestFits
      <4> QED
        BY <3>1, <4>1, <4>2 DEF RegistryTypeOK
    <3>3. \A c \in RgClients : RequestFits(rq[c]) /\ ReadsHold(rq[c])
      BY <3>1, NoRequestFits
    <3>4. \A r \in Machine : ~Held(r)
      BY <3>1, NoRequestFits DEF Held
    <3>5. OneDefinitionPerRevision /\ RevisionsDrawn
      BY <3>4 DEF OneDefinitionPerRevision, RevisionsDrawn
    <3>6. AliasesResolve /\ VersionPerRevision /\ NoOrphans
      BY <3>1 DEF AliasesResolve, VersionPerRevision, NoOrphans
    <3> QED
      BY <3>2, <3>3, <3>5, <3>6 DEF RegistryInv, RegistryHolds
  <2> QED
    BY <2>1
<1>2. RegistryInv => RegistryHolds
  BY DEF RegistryInv
<1> QED
  BY <1>1, <1>2, RegistryStep, PTL DEF RegistrySpec
=============================================================================
