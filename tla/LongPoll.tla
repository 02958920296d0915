------------------------------ MODULE LongPoll ------------------------------
(***************************************************************************)
(* One topic of the in-process bus (internal/bus).  Subscribers stand for  *)
(* the callbacks they register; the cancel function a subscription returns *)
(* remembers the position the callback had when it was registered.         *)
(***************************************************************************)
EXTENDS Integers, Sequences, FiniteSets

CONSTANT Subscribers

VARIABLES
  subs,   \* the topic's callbacks, in subscription order
  index   \* subscriber -> position its cancel captured, 0 when it has none

busVars == <<subs, index>>

BusInit ==
  /\ subs = <<>>
  /\ index = [s \in Subscribers |-> 0]

Subscribe(s) ==
  /\ index[s] = 0
  /\ subs' = Append(subs, s)
  /\ index' = [index EXCEPT ![s] = Len(subs) + 1]

\* cancel: drop whatever stands at the remembered position, if anything does.
Cancel(s) ==
  /\ index[s] # 0
  /\ subs' = IF index[s] <= Len(subs)
             THEN SubSeq(subs, 1, index[s] - 1) \o SubSeq(subs, index[s] + 1, Len(subs))
             ELSE subs
  /\ index' = [index EXCEPT ![s] = 0]

\* The callbacks Publish calls: a copy of the list, taken under the lock.
Reached == {subs[i] : i \in 1 .. Len(subs)}

-----------------------------------------------------------------------------
(***************************************************************************)
(* The controllable clock (internal/clock): it moves only by Advance, and  *)
(* a waiter registers for an absolute instant.  Each waiter listens to the *)
(* channel of its last registration; the earlier ones are left to fire     *)
(* unheard.                                                                *)
(***************************************************************************)

CONSTANTS Waiters, NoTimer

ASSUME NoTimerIsNoInstant == NoTimer \notin Int

VARIABLES
  now,    \* the instant
  timer,  \* waiter -> instant it is registered for, or NoTimer
  ready   \* waiter -> does its channel (capacity one) hold a value?

clockVars == <<now, timer, ready>>

ClockInit ==
  /\ now = 0
  /\ timer = [w \in Waiters |-> NoTimer]
  /\ ready = [w \in Waiters |-> FALSE]

\* Mistake: the instant is not compared with the clock at registration.
AfterTimeBlind(w, at) ==
  /\ timer' = [timer EXCEPT ![w] = at]
  /\ ready' = [ready EXCEPT ![w] = FALSE]

\* AfterTime: fires at once when the instant has come, else joins the list.
AfterTime(w, at) ==
  /\ timer' = [timer EXCEPT ![w] = IF now >= at THEN NoTimer ELSE at]
  /\ ready' = [ready EXCEPT ![w] = now >= at]

Due(w, t) == timer[w] # NoTimer /\ t >= timer[w]

\* Advance: every waiter whose instant has come gets the time and leaves.
Advance(d) ==
  /\ now' = now + d
  /\ timer' = [w \in Waiters |-> IF Due(w, now + d) THEN NoTimer ELSE timer[w]]
  /\ ready' = [w \in Waiters |-> ready[w] \/ Due(w, now + d)]

-----------------------------------------------------------------------------
(***************************************************************************)
(* The wait of ReceiveMessage (runWait in internal/engine/select.go): look *)
(* for messages, subscribe to writes of the collection, park on the clock  *)
(* until the deadline, the next armed record deadline or a write, look     *)
(* again.  Receivers run without the engine's lock, so every look, the     *)
(* subscription and the registration with the clock are separate steps.    *)
(* Composes the bus and the clock.                                         *)
(***************************************************************************)

CONSTANTS
  Messages,    \* messages that may be sent, each once
  Delays,      \* their delivery delays
  WaitTime,    \* WaitTimeSeconds of every receive
  Visibility,  \* visibility timeout of every receive
  MaxTime      \* bound: the clock

ASSUME SameProcesses == Subscribers = Waiters
ASSUME Times ==
  /\ Delays \subseteq Nat /\ WaitTime \in Nat \ {0} /\ Visibility \in Nat \ {0}
  /\ MaxTime \in Nat

VARIABLES
  msg,        \* message -> [state, at]: its record and armed deadline
  due,        \* history: message -> instant it was first due, 0 before the send
  delivered,  \* history: messages some receive handed out
  pc,         \* receiver -> where it is in runWait
  deadline,   \* receiver -> deadline of its wait
  park,       \* receiver -> instant it decided to park until
  wake,       \* receiver -> values in its wake channel
  selection,  \* receiver -> messages its last look found
  gone        \* receivers whose client disconnected (ctx.Done)

storeVars == <<msg, due, delivered>>
pollVars == <<pc, deadline, park, wake, selection, gone>>
vars == <<storeVars, pollVars, busVars, clockVars>>

Record == [state : {"absent", "visible", "invisible"}, at : Nat]
Absent == [state |-> "absent", at |-> 0]

Init ==
  /\ BusInit /\ ClockInit
  /\ msg = [m \in Messages |-> Absent]
  /\ due = [m \in Messages |-> 0]
  /\ delivered = {}
  /\ pc = [w \in Waiters |-> "idle"]
  /\ deadline = [w \in Waiters |-> 0]
  /\ park = [w \in Waiters |-> 0]
  /\ wake = [w \in Waiters |-> 0]
  /\ selection = [w \in Waiters |-> {}]
  /\ gone = {}

-----------------------------------------------------------------------------

\* The wake callback: a non-blocking send on a channel of capacity one.
Signal(W) == wake' = [w \in Waiters |-> IF w \in W THEN 1 ELSE wake[w]]

\* putRecord publishes on the collection's topic after it stored.
Publish == Signal(Reached)

Settled(m) ==
  IF msg[m].state = "invisible" /\ now >= msg[m].at THEN [state |-> "visible", at |-> 0] ELSE msg[m]

Expiring == {m \in Messages : Settled(m) # msg[m]}
Visible == {m \in Messages : Settled(m).state = "visible"}

\* runSelect: expired timers fire and are written back, which publishes.
Look(w) ==
  /\ msg' = [m \in Messages |-> Settled(m)]
  /\ selection' = [selection EXCEPT ![w] = Visible]
  /\ IF Expiring = {} THEN UNCHANGED wake ELSE Publish

SendMessage(m, delay) ==
  /\ msg[m] = Absent
  /\ msg' = [msg EXCEPT ![m] = IF delay > 0 THEN [state |-> "invisible", at |-> now + delay]
                               ELSE [state |-> "visible", at |-> 0]]
  /\ due' = [due EXCEPT ![m] = now + delay]
  /\ Publish
  /\ UNCHANGED <<delivered, pc, deadline, park, selection, gone, busVars, clockVars>>

\* The selection before the wait.
FirstLook(w) ==
  /\ pc[w] = "idle"
  /\ now + WaitTime <= MaxTime
  /\ Look(w)
  /\ pc' = [pc EXCEPT ![w] = IF Visible # {} THEN "take" ELSE "subscribe"]
  /\ UNCHANGED <<due, delivered, deadline, park, gone, busVars, clockVars>>

\* The deadline is computed and the receiver subscribed.
StartWait(w) ==
  /\ pc[w] = "subscribe"
  /\ deadline' = [deadline EXCEPT ![w] = now + WaitTime]
  /\ Subscribe(w)
  /\ pc' = [pc EXCEPT ![w] = "loop"]
  /\ UNCHANGED <<storeVars, park, wake, selection, gone, clockVars>>

\* Mistakes: the wait ends with the first park, or one tick late.
ExpiredAtPark(w) == now >= deadline[w] \/ (park[w] # 0 /\ now >= park[w])
ExpiredLate(w) == now > deadline[w]
Expired(w) == now >= deadline[w]

\* runWait returns: the deferred cancel runs, and on_timeout answers empty.
AnswerEmpty(w) ==
  /\ Cancel(w)
  /\ pc' = [pc EXCEPT ![w] = "empty"]

TimeOut(w) ==
  /\ pc[w] = "loop"
  /\ Expired(w)
  /\ AnswerEmpty(w)
  /\ UNCHANGED <<storeVars, deadline, park, wake, selection, gone, clockVars>>

\* nextDeadline: the armed deadlines still to come.
\* Mistake: only writes and the receive's own deadline end a park.
ArmedIgnored == {}
Armed == {msg[m].at : m \in {x \in Messages : msg[x].state = "invisible" /\ msg[x].at > now}}

ChoosePark(w) ==
  /\ pc[w] = "loop"
  /\ ~ Expired(w)
  /\ \E t \in Armed \cup {deadline[w]} :
       /\ \A u \in Armed \cup {deadline[w]} : t <= u
       /\ park' = [park EXCEPT ![w] = t]
  /\ pc' = [pc EXCEPT ![w] = "park"]
  /\ UNCHANGED <<storeVars, deadline, wake, selection, gone, busVars, clockVars>>

Park(w) ==
  /\ pc[w] = "park"
  /\ AfterTime(w, park[w])
  /\ pc' = [pc EXCEPT ![w] = "parked"]
  /\ UNCHANGED <<storeVars, deadline, park, wake, selection, gone, busVars, now>>

\* The select statement: the timer or a write, whichever is ready.
\* Mistake: the timer of the deadline itself ends the wait without a last look.
WakeByTimerBlind(w) ==
  /\ pc[w] = "parked" /\ ready[w]
  /\ ready' = [ready EXCEPT ![w] = FALSE]
  /\ pc' = [pc EXCEPT ![w] = IF now >= deadline[w] THEN "loop" ELSE "relook"]
  /\ UNCHANGED <<storeVars, deadline, park, wake, selection, gone, busVars, now, timer>>

WakeByTimer(w) ==
  /\ pc[w] = "parked" /\ ready[w]
  /\ ready' = [ready EXCEPT ![w] = FALSE]
  /\ pc' = [pc EXCEPT ![w] = "relook"]
  /\ UNCHANGED <<storeVars, deadline, park, wake, selection, gone, busVars, now, timer>>

WakeByWrite(w) ==
  /\ pc[w] = "parked" /\ wake[w] > 0
  /\ wake' = [wake EXCEPT ![w] = @ - 1]
  /\ pc' = [pc EXCEPT ![w] = "relook"]
  /\ UNCHANGED <<storeVars, deadline, park, selection, gone, busVars, clockVars>>

Disconnect(w) ==
  /\ pc[w] = "parked"
  /\ gone' = gone \cup {w}
  /\ AnswerEmpty(w)
  /\ UNCHANGED <<storeVars, deadline, park, wake, selection, clockVars>>

Relook(w) ==
  /\ pc[w] = "relook"
  /\ Look(w)
  /\ IF Visible # {}
     THEN Cancel(w) /\ pc' = [pc EXCEPT ![w] = "take"]
     ELSE UNCHANGED busVars /\ pc' = [pc EXCEPT ![w] = "loop"]
  /\ UNCHANGED <<due, delivered, deadline, park, gone, clockVars>>

\* RECEIVE on the selection, from the records of the look: written back
\* invisible, whatever happened to them since.
Take(w) ==
  /\ pc[w] = "take"
  /\ msg' = [m \in Messages |-> IF m \in selection[w]
               THEN [state |-> "invisible", at |-> now + Visibility] ELSE msg[m]]
  /\ delivered' = delivered \cup selection[w]
  /\ Publish
  /\ pc' = [pc EXCEPT ![w] = "answered"]
  /\ UNCHANGED <<due, deadline, park, selection, gone, busVars, clockVars>>

\* Receivers with a step to take: the tests advance the controllable clock only
\* while there is none.
Busy == {w \in Waiters : \/ pc[w] \notin {"idle", "parked", "empty", "answered"}
                         \/ pc[w] = "parked" /\ (ready[w] \/ wake[w] > 0)}

\* Bound: the clock stops where every wait that begins can still end.
RoomToWait == \A w \in Waiters : pc[w] = "subscribe" => now + WaitTime < MaxTime

Tick ==
  /\ now < MaxTime /\ RoomToWait
  /\ Advance(1)
  /\ UNCHANGED <<storeVars, pollVars, busVars>>

Poll(w) == FirstLook(w) \/ StartWait(w) \/ TimeOut(w) \/ ChoosePark(w) \/ Park(w)
           \/ WakeByTimer(w) \/ WakeByWrite(w) \/ Relook(w) \/ Take(w)

Next ==
  \/ \E m \in Messages, d \in Delays : SendMessage(m, d)
  \/ \E w \in Waiters : Poll(w) \/ Disconnect(w)
  \/ Tick

Spec == Init /\ [][Next]_vars

\* The runtime schedules every receiver, and time passes.
FairSpec == Spec /\ (\A w \in Waiters : WF_vars(Poll(w))) /\ WF_vars(Tick)

-----------------------------------------------------------------------------
(* Properties. *)

Waiting == {"subscribe", "loop", "park", "parked", "relook"}

TypeOK ==
  /\ now \in Nat
  /\ timer \in [Waiters -> Nat \cup {NoTimer}]
  /\ ready \in [Waiters -> BOOLEAN]
  /\ subs \in Seq(Waiters)
  /\ index \in [Waiters -> Nat]
  /\ msg \in [Messages -> Record]
  /\ pc \in [Waiters -> Waiting \cup {"idle", "take", "empty", "answered"}]
  /\ deadline \in [Waiters -> Nat]
  /\ park \in [Waiters -> Nat]
  /\ wake \in [Waiters -> 0 .. 1]

\* clock.go on AfterTime: no advance between choosing an instant and
\* registering for it is lost.  A parked receiver whose instant has come has
\* its timer ready.
TimerNeverLost ==
  \A w \in Waiters : pc[w] = "parked" /\ now >= park[w] => ready[w]

\* An empty answer comes at the deadline or to a client that left, never from
\* a wake-up in between.
EmptyOnlyAtDeadline ==
  \A w \in Waiters : pc[w] = "empty" => now >= deadline[w] \/ w \in gone

\* runWait: "a waiter that slept past it would answer empty with the message
\* already visible".  While the clock waits for the receivers, nobody sleeps
\* on past the instant at which a delayed or taken message reappears.
WakesForReappearing ==
  \A w \in Waiters : pc[w] = "parked" /\ ~ ready[w] /\ wake[w] = 0 =>
    \A m \in Messages : msg[m].state = "invisible" => msg[m].at > now

\* While the clock waits for the receivers, what was due before a receive's
\* deadline is never slept through (runWait looks once more after its timer):
\* when it answers empty, some receive has handed out every such message.
DeliversBeforeDeadline ==
  \A w \in Waiters : pc[w] = "empty" /\ w \notin gone =>
    \A m \in Messages : msg[m] # Absent /\ due[m] < deadline[w] => m \in delivered

\* runWait and its timer: in every state the receivers, the bus and the clock
\* are ones the code can have, a parked receiver whose instant has come has its
\* timer ready, and nobody answers empty early.
WaitsHold == TypeOK /\ TimerNeverLost /\ EmptyOnlyAtDeadline

\* Every receive that began answers, at the latest when its deadline comes
\* (the loop of runWait).
ReceiveReturns ==
  \A w \in Waiters : pc[w] # "idle" ~> pc[w] \in {"empty", "answered"}

\* select.go: "Subscribe before parking so a create that races the park still
\* wakes us."  No receiver stays parked on a message that is there to take.
NoSleepOnMessage ==
  \A w \in Waiters :
    pc[w] = "parked" /\ wake[w] = 0 /\ ~ ready[w] => \A m \in Messages : msg[m].state # "visible"

\* select.go: a parked receiver wakes on "a bus wakeup from a write to this
\* selection's collection": it is still among those Publish reaches.
ParkedIsReached ==
  \A w \in Waiters : pc[w] = "parked" => w \in Reached
=============================================================================
