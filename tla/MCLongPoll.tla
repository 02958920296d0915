----------------------------- MODULE MCLongPoll -----------------------------
(***************************************************************************)
(* Receivers long-polling one queue, under two clocks: one that moves at   *)
(* any moment, and one that is `driven` the way the tests drive the        *)
(* controllable clock, only while no receiver has a step to take.  Under   *)
(* the first one message is sent, under the second two.                    *)
(***************************************************************************)
EXTENDS LongPoll, TLC

CONSTANTS w1, w2, w3, m1, m2

VARIABLE driven

mcvars == <<vars, driven>>

Scope ==
  /\ UNCHANGED driven
  /\ driven /\ now' # now => Busy = {}
  /\ ~ driven => \A m \in Messages \ {m1} : msg'[m] = Absent

MCInit == Init /\ driven \in BOOLEAN
MCNext == Next /\ Scope
MCSpec == MCInit /\ [][MCNext]_mcvars

\* The runtime schedules every receiver, and time passes.
MCFairSpec ==
  MCSpec /\ (\A w \in Waiters : WF_mcvars(Poll(w) /\ Scope)) /\ WF_mcvars(Tick /\ Scope)

\* runWait: "a waiter that slept past it would answer empty with the message
\* already visible".  Under a driven clock no receiver sleeps on past the
\* instant at which a delayed or taken message reappears.
DrivenWakes == driven => WakesForReappearing

\* Under a driven clock what was due before a receive's deadline is never
\* slept through (runWait looks once more after its timer).
DrivenDelivers == driven => DeliversBeforeDeadline

\* Under a driven clock a receiver sleeps neither past a reappearance nor past
\* its deadline's last look (runWait).
ReceivesHold == DrivenDelivers /\ DrivenWakes
=============================================================================
