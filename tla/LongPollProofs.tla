--------------------------- MODULE LongPollProofs ---------------------------
(***************************************************************************)
(* A parked receiver never loses its timer, and an empty answer is never   *)
(* early, for any number of receivers and messages and any delays.         *)
(***************************************************************************)
EXTENDS LongPoll, SequenceTheorems, TLAPS

\* What a look leaves behind has its types (runSelect).
LEMMA LookTypes ==
  ASSUME TypeOK, NEW w \in Waiters, Look(w)
  PROVE  msg' \in [Messages -> Record] /\ wake' \in [Waiters -> 0 .. 1]
BY DEF TypeOK, Look, Settled, Record, Publish, Signal

\* Subscribing and cancelling keep the bus's types (internal/bus).
LEMMA BusTypes ==
  ASSUME TypeOK, NEW w \in Waiters, Subscribe(w) \/ Cancel(w)
  PROVE  subs' \in Seq(Waiters) /\ index' \in [Waiters -> Nat]
<1>1. CASE Subscribe(w)
  BY <1>1, SameProcesses DEF TypeOK, Subscribe
<1>2. CASE Cancel(w)
  <2> DEFINE i == index[w]
  <2>1. i \in Nat \ {0} /\ subs \in Seq(Waiters) /\ Len(subs) \in Nat
    BY <1>2 DEF TypeOK, Cancel
  <2>2. i <= Len(subs) => SubSeq(subs, 1, i - 1) \in Seq(Waiters)
    <3> SUFFICES ASSUME i <= Len(subs) PROVE SubSeq(subs, 1, i - 1) \in Seq(Waiters)
      OBVIOUS
    <3>1. \A j \in 1 .. i - 1 : subs[j] \in Waiters
      BY <2>1
    <3> QED
      BY <2>1, <3>1, SubSeqProperties
  <2>3. SubSeq(subs, i + 1, Len(subs)) \in Seq(Waiters)
    <3>1. \A j \in i + 1 .. Len(subs) : subs[j] \in Waiters
      BY <2>1
    <3> QED
      BY <2>1, <3>1, SubSeqProperties
  <2>4. subs' \in Seq(Waiters)
    BY <1>2, <2>1, <2>2, <2>3, ConcatProperties DEF Cancel
  <2> QED
    BY <1>2, <2>4, SameProcesses DEF TypeOK, Cancel
<1> QED
  BY <1>1, <1>2

\* The type invariant is inductive.
LEMMA TypeStep == TypeOK /\ [Next]_vars => TypeOK'
<1> SUFFICES ASSUME TypeOK, [Next]_vars PROVE TypeOK'
    OBVIOUS
<1> USE Times, SameProcesses
<1>1. ASSUME NEW m \in Messages, NEW d \in Delays, SendMessage(m, d) PROVE TypeOK'
  <2>1. msg' \in [Messages -> Record] /\ wake' \in [Waiters -> 0 .. 1]
    BY <1>1 DEF TypeOK, SendMessage, Record, Publish, Signal
  <2> QED
    BY <1>1, <2>1 DEF TypeOK, SendMessage, busVars, clockVars
<1>2. ASSUME NEW w \in Waiters, FirstLook(w) PROVE TypeOK'
  BY <1>2, LookTypes DEF TypeOK, FirstLook, Waiting, busVars, clockVars
<1>3. ASSUME NEW w \in Waiters, StartWait(w) PROVE TypeOK'
  BY <1>3, BusTypes DEF TypeOK, StartWait, Waiting, storeVars, clockVars
<1>4. ASSUME NEW w \in Waiters, TimeOut(w) PROVE TypeOK'
  BY <1>4, BusTypes DEF TypeOK, TimeOut, AnswerEmpty, storeVars, clockVars
<1>5. ASSUME NEW w \in Waiters, ChoosePark(w) PROVE TypeOK'
  <2>1. Armed \cup {deadline[w]} \subseteq Nat
    BY DEF TypeOK, Armed, Record
  <2> QED
    BY <1>5, <2>1 DEF TypeOK, ChoosePark, Waiting, storeVars, busVars, clockVars
<1>6. ASSUME NEW w \in Waiters, Park(w) PROVE TypeOK'
  BY <1>6 DEF TypeOK, Park, AfterTime, Waiting, storeVars, busVars
<1>7. ASSUME NEW w \in Waiters, WakeByTimer(w) PROVE TypeOK'
  BY <1>7 DEF TypeOK, WakeByTimer, Waiting, storeVars, busVars
<1>8. ASSUME NEW w \in Waiters, WakeByWrite(w) PROVE TypeOK'
  BY <1>8 DEF TypeOK, WakeByWrite, Waiting, storeVars, busVars, clockVars
<1>9. ASSUME NEW w \in Waiters, Relook(w) PROVE TypeOK'
  <2>1. subs' \in Seq(Waiters) /\ index' \in [Waiters -> Nat]
    BY <1>9, BusTypes DEF TypeOK, Relook, busVars
  <2> QED
    BY <1>9, <2>1, LookTypes DEF TypeOK, Relook, Waiting, clockVars
<1>10. ASSUME NEW w \in Waiters, Take(w) PROVE TypeOK'
  <2>1. msg' \in [Messages -> Record] /\ wake' \in [Waiters -> 0 .. 1]
    BY <1>10 DEF TypeOK, Take, Record, Publish, Signal
  <2> QED
    BY <1>10, <2>1 DEF TypeOK, Take, busVars, clockVars
<1>11. ASSUME NEW w \in Waiters, Disconnect(w) PROVE TypeOK'
  BY <1>11, BusTypes DEF TypeOK, Disconnect, AnswerEmpty, storeVars, clockVars
<1>12. ASSUME Tick PROVE TypeOK'
  BY <1>12 DEF TypeOK, Tick, Advance, storeVars, pollVars, busVars
<1>13. ASSUME UNCHANGED vars PROVE TypeOK'
  BY <1>13 DEF TypeOK, vars, storeVars, pollVars, busVars, clockVars
<1> QED
  BY <1>1, <1>2, <1>3, <1>4, <1>5, <1>6, <1>7, <1>8, <1>9, <1>10, <1>11, <1>12, <1>13 DEF Next, Poll

\* The initial state has its types.
LEMMA TypeCorrectAtStart == Init => TypeOK
BY SameProcesses DEF Init, TypeOK, BusInit, ClockInit, Absent, Record, Waiting

\* Receivers, channels, bus and clock keep their types: in particular a wake
\* channel never holds more than its capacity (runWait's non-blocking send).
THEOREM TypeCorrect == Spec => []TypeOK
BY TypeCorrectAtStart, TypeStep, PTL DEF Spec

-----------------------------------------------------------------------------

\* The inductive invariant: a parked receiver's channel holds a value, or its
\* registration is with the clock, for the instant it chose, and that instant
\* is still to come.
Registered(w) == pc[w] = "parked" => ready[w] \/ (timer[w] = park[w] /\ now < park[w])
ParkInv == TypeOK /\ \A w \in Waiters : Registered(w)

\* Every action preserves it: registering compares the instant with the clock,
\* advancing fires every instant it passes, and nothing else touches both.
LEMMA ParkStep == ParkInv /\ [Next]_vars => ParkInv'
<1> SUFFICES ASSUME ParkInv, [Next]_vars, NEW v \in Waiters PROVE Registered(v)'
    BY TypeStep DEF ParkInv
<1>0. TypeOK /\ TypeOK' /\ Registered(v)
  BY TypeStep DEF ParkInv
<1> USE <1>0
<1>1. ASSUME NEW w \in Waiters, Park(w) PROVE Registered(v)'
  <2>1. CASE w # v
    BY <1>1, <2>1 DEF Park, AfterTime, Registered, TypeOK
  <2>2. CASE w = v /\ now >= park[v]
    <3>1. ready'[v]
      BY <1>1, <2>2 DEF Park, AfterTime, TypeOK
    <3> QED
      BY <3>1 DEF Registered
  <2>3. CASE w = v /\ ~ (now >= park[v])
    <3>1. timer'[v] = park'[v] /\ now' < park'[v]
      BY <1>1, <2>3 DEF Park, AfterTime, TypeOK
    <3> QED
      BY <3>1 DEF Registered
  <2> QED
    BY <2>1, <2>2, <2>3
<1>2. ASSUME NEW w \in Waiters, WakeByTimer(w) PROVE Registered(v)'
  BY <1>2 DEF WakeByTimer, Registered, TypeOK
<1>3. ASSUME Tick PROVE Registered(v)'
  <2>1. now' = now + 1 /\ pc' = pc /\ park' = park
    BY <1>3 DEF Tick, Advance, pollVars
  <2>2. ready[v] => ready'[v]
    BY <1>3 DEF Tick, Advance
  <2>3. ASSUME timer[v] = park[v], now < park[v]
        PROVE  ready'[v] \/ (timer'[v] = park[v] /\ now + 1 < park[v])
    <3>1. CASE now + 1 >= park[v]
      <4>1. Due(v, now + 1)
        BY <2>3, <3>1, NoTimerIsNoInstant DEF Due, TypeOK
      <4> QED
        BY <1>3, <4>1 DEF Tick, Advance
    <3>2. CASE ~ (now + 1 >= park[v])
      <4>1. ~ Due(v, now + 1)
        BY <2>3, <3>2 DEF Due
      <4>2. now + 1 < park[v]
        BY <3>2 DEF TypeOK
      <4> QED
        BY <1>3, <2>3, <4>1, <4>2 DEF Tick, Advance
    <3> QED
      BY <3>1, <3>2
  <2> QED
    BY <2>1, <2>2, <2>3 DEF Registered
<1>4. ASSUME NEW w \in Waiters, ChoosePark(w) PROVE Registered(v)'
  BY <1>4 DEF ChoosePark, Registered, TypeOK, clockVars
<1>5. ASSUME clockVars' = clockVars, park' = park, pc'[v] = "parked" => pc[v] = "parked"
      PROVE  Registered(v)'
  BY <1>5 DEF Registered, clockVars
<1>6. ASSUME NEW w \in Waiters, FirstLook(w) \/ StartWait(w) \/ TimeOut(w) \/ WakeByWrite(w)
             \/ Relook(w) \/ Take(w) \/ Disconnect(w)
      PROVE  Registered(v)'
  BY <1>5, <1>6 DEF FirstLook, StartWait, TimeOut, WakeByWrite, Relook, Take, Disconnect,
     AnswerEmpty, TypeOK
<1>7. ASSUME NEW m \in Messages, NEW d \in Delays, SendMessage(m, d) PROVE Registered(v)'
  BY <1>5, <1>7 DEF SendMessage
<1>8. ASSUME UNCHANGED vars PROVE Registered(v)'
  BY <1>5, <1>8 DEF vars, pollVars
<1> QED
  BY <1>1, <1>2, <1>3, <1>4, <1>6, <1>7, <1>8 DEF Next, Poll

\* AfterTime loses no wake-up: however the clock's advances fall between the
\* choice of an instant and the registration for it, a parked receiver whose
\* instant has come finds its timer ready.
THEOREM TimersHold == Spec => []TimerNeverLost
<1>1. Init => ParkInv
  BY TypeCorrectAtStart DEF Init, ParkInv, Registered
<1>2. ParkInv => TimerNeverLost
  BY DEF ParkInv, Registered, TimerNeverLost, TypeOK
<1> QED
  BY <1>1, <1>2, ParkStep, PTL DEF Spec

-----------------------------------------------------------------------------

\* The answer's deadline is fixed once the receive waits, and the clock only
\* moves forward.
LEMMA EmptyStep == TypeOK /\ EmptyOnlyAtDeadline /\ [Next]_vars => EmptyOnlyAtDeadline'
<1> SUFFICES ASSUME TypeOK, EmptyOnlyAtDeadline, [Next]_vars, NEW v \in Waiters, pc'[v] = "empty"
             PROVE  now' >= deadline'[v] \/ v \in gone'
    BY DEF EmptyOnlyAtDeadline
<1>0. now \in Nat /\ deadline[v] \in Nat
  BY DEF TypeOK
<1>1. ASSUME now' = now, deadline' = deadline, gone \subseteq gone', pc'[v] = pc[v]
      PROVE  now' >= deadline'[v] \/ v \in gone'
  BY <1>1 DEF EmptyOnlyAtDeadline
<1>2. ASSUME NEW w \in Waiters, TimeOut(w) PROVE now' >= deadline'[v] \/ v \in gone'
  BY <1>2 DEF TimeOut, AnswerEmpty, Expired, EmptyOnlyAtDeadline, TypeOK, clockVars
<1>3. ASSUME NEW w \in Waiters, Disconnect(w) PROVE now' >= deadline'[v] \/ v \in gone'
  BY <1>3 DEF Disconnect, AnswerEmpty, EmptyOnlyAtDeadline, TypeOK, clockVars
<1>4. ASSUME NEW w \in Waiters, StartWait(w) PROVE now' >= deadline'[v] \/ v \in gone'
  BY <1>4 DEF StartWait, EmptyOnlyAtDeadline, TypeOK, clockVars
<1>5. ASSUME Tick PROVE now' >= deadline'[v] \/ v \in gone'
  BY <1>0, <1>5 DEF Tick, Advance, EmptyOnlyAtDeadline, pollVars
<1>6. ASSUME NEW w \in Waiters, FirstLook(w) \/ ChoosePark(w) \/ Park(w) \/ WakeByTimer(w)
             \/ WakeByWrite(w) \/ Relook(w) \/ Take(w)
      PROVE  now' >= deadline'[v] \/ v \in gone'
  BY <1>1, <1>6 DEF FirstLook, ChoosePark, Park, WakeByTimer, WakeByWrite, Relook, Take, TypeOK, clockVars
<1>7. ASSUME NEW m \in Messages, NEW d \in Delays, SendMessage(m, d)
      PROVE  now' >= deadline'[v] \/ v \in gone'
  BY <1>1, <1>7 DEF SendMessage, clockVars
<1>8. ASSUME UNCHANGED vars PROVE now' >= deadline'[v] \/ v \in gone'
  BY <1>1, <1>8 DEF vars, pollVars, clockVars
<1> QED
  BY <1>2, <1>3, <1>4, <1>5, <1>6, <1>7, <1>8 DEF Next, Poll

\* No receive answers empty before its deadline unless its client left,
\* whatever wakes it in between (runWait's loop).
THEOREM EmptyIsNeverEarly == Spec => []EmptyOnlyAtDeadline
<1>1. Init => EmptyOnlyAtDeadline
  BY DEF Init, EmptyOnlyAtDeadline
<1> QED
  BY <1>1, EmptyStep, TypeCorrect, PTL DEF Spec

\* The three together: whatever the receivers, the messages and the delays, the
\* wait of a receive keeps its types and its timer, and answers in time.
THEOREM WaitsAreSound == Spec => []WaitsHold
BY TypeCorrect, TimersHold, EmptyIsNeverEarly, PTL DEF WaitsHold
=============================================================================
