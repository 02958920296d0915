----------------------------- MODULE CicdProofs -----------------------------
(***************************************************************************)
(* Proofs about the CI/CD lifecycle store, for any sets of keys, workers   *)
(* and generations and any bounds, and about what executes for it: child   *)
(* processes, execution backends and delivery targets.  The invariants the *)
(* runs check are not inductive alone: of the store it is missing that     *)
(* every identifier in use is at most seq, so a new one is fresh, and that *)
(* no two attempts share a run.                                            *)
(***************************************************************************)
EXTENDS CicdLifecycle, Backends, TLAPS

\* nextID: every number handed out is at most seq.
IdsBelowSeq ==
  /\ \A r \in DOMAIN runs : r <= seq
  /\ \A a \in DOMAIN attempts : a <= seq
  /\ \A i \in DOMAIN intents : i <= seq

\* Admit writes one run per attempt, and the run names that attempt.
RunNamesAttempt ==
  \A a \in DOMAIN attempts :
    /\ attempts[a].RunID \in DOMAIN runs
    /\ runs[attempts[a].RunID].CurrentAttempt = a

\* Only CancelAttempt records a cancellation, together with Terminal.
CancelIsTerminal ==
  \A a \in DOMAIN attempts : attempts[a].CancelRequested => attempts[a].Terminal

Inv == LifecycleTypeOK /\ IdsBelowSeq /\ RunNamesAttempt /\ CancelIsTerminal /\ TerminalHasReceipt

-----------------------------------------------------------------------------

\* A well-typed row stored in a well-typed table leaves it well typed.
LEMMA PutType ==
  ASSUME NEW table, NEW id, NEW row, NEW D, NEW S,
         DOMAIN table \subseteq D, \A i \in DOMAIN table : table[i] \in S,
         id \in D, row \in S
  PROVE  /\ DOMAIN PutRow(table, id, row) \subseteq D
         /\ \A i \in DOMAIN PutRow(table, id, row) : PutRow(table, id, row)[i] \in S
BY DEF PutRow

\* The store is empty at first, and an empty store satisfies the invariant.
LEMMA InitInv == LifecycleInit => Inv
BY DEF LifecycleInit, Inv, LifecycleTypeOK, IdsBelowSeq, RunNamesAttempt, CancelIsTerminal,
    TerminalHasReceipt, EmptyTable

\* Admit of a new key keeps the types.
LEMMA AdmitNewType ==
  ASSUME Inv, NEW key \in SubmissionKeys, NEW fp \in Fingerprints,
         NEW gen \in Generations \cup {AssignedByStore}, AdmitNew(key, fp, gen)
  PROVE  LifecycleTypeOK'
<1> DEFINE first == SeqAfterGeneration(gen)
           g == GenerationFor(gen)
<1>1. seq \in Nat /\ first \in Nat /\ g \in Generation
  BY DEF Inv, LifecycleTypeOK, SeqAfterGeneration, GenerationFor, Generation
<1> DEFINE run == [CurrentAttempt |-> first + 2, NativeStatus |-> "accepted",
                   SubmissionKey |-> key, Fingerprint |-> fp, Generation |-> g]
           att == [RunID |-> first + 1, Generation |-> g, SubmissionKey |-> key,
                   Fingerprint |-> fp, Terminal |-> FALSE, CancelRequested |-> FALSE]
           int == [AttemptID |-> first + 2, ExpectedGeneration |-> g,
                   DeliveryState |-> "pending", Lease |-> NoLease,
                   SubmissionKey |-> key, Fingerprint |-> fp]
           ans == [key |-> key, fp |-> fp, intent |-> first + 3]
<1>2. run \in Run /\ att \in Attempt /\ int \in DispatchIntent
      /\ ans \in [key : SubmissionKeys, fp : Fingerprints, intent : Nat]
  BY <1>1 DEF Run, Attempt, DispatchIntent, NoLease, Lease, DeliveryState
<1>3. /\ seq' = first + 3
      /\ runs' = PutRow(runs, first + 1, run)
      /\ attempts' = PutRow(attempts, first + 2, att)
      /\ intents' = PutRow(intents, first + 3, int)
      /\ byKey' = PutRow(byKey, key, first + 3)
      /\ answers' = answers \cup {ans}
      /\ receipts' = receipts /\ now' = now /\ belief' = belief
  BY DEF AdmitNew, SeqAfterAdmit
<1> HIDE DEF first, g, run, att, int, ans
<1>4. first + 1 \in Nat /\ first + 2 \in Nat /\ first + 3 \in Nat
  BY <1>1
<1>5. DOMAIN runs' \subseteq Nat /\ \A r \in DOMAIN runs' : runs'[r] \in Run
  BY <1>2, <1>3, <1>4, PutType DEF Inv, LifecycleTypeOK
<1>6. DOMAIN attempts' \subseteq Nat /\ \A a \in DOMAIN attempts' : attempts'[a] \in Attempt
  BY <1>2, <1>3, <1>4, PutType DEF Inv, LifecycleTypeOK
<1>7. DOMAIN intents' \subseteq Nat /\ \A i \in DOMAIN intents' : intents'[i] \in DispatchIntent
  BY <1>2, <1>3, <1>4, PutType DEF Inv, LifecycleTypeOK
<1>8. DOMAIN byKey' \subseteq SubmissionKeys /\ \A k \in DOMAIN byKey' : byKey'[k] \in Nat
  BY <1>3, <1>4, PutType DEF Inv, LifecycleTypeOK
<1> QED
  BY <1>2, <1>3, <1>4, <1>5, <1>6, <1>7, <1>8 DEF Inv, LifecycleTypeOK

\* Admit of a new key uses fresh numbers, so the rest of the store keeps its
\* records and the new attempt is open, with its own run and no receipt.
LEMMA AdmitNewInv ==
  ASSUME Inv, NEW key \in SubmissionKeys, NEW fp \in Fingerprints,
         NEW gen \in Generations \cup {AssignedByStore}, AdmitNew(key, fp, gen)
  PROVE  Inv'
<1> DEFINE first == SeqAfterGeneration(gen)
           runID == first + 1
           attemptID == first + 2
<1>1. /\ seq \in Nat /\ first \in Nat /\ first >= seq
      /\ DOMAIN runs \subseteq Nat /\ DOMAIN attempts \subseteq Nat /\ DOMAIN intents \subseteq Nat
  BY DEF Inv, LifecycleTypeOK, SeqAfterGeneration
<1>2. PICK run, att, int :
        /\ run.CurrentAttempt = attemptID /\ run.NativeStatus = "accepted"
        /\ att.RunID = runID /\ att.Terminal = FALSE /\ att.CancelRequested = FALSE
        /\ runs' = PutRow(runs, runID, run)
        /\ attempts' = PutRow(attempts, attemptID, att)
        /\ intents' = PutRow(intents, first + 3, int)
        /\ seq' = first + 3 /\ receipts' = receipts
  BY DEF AdmitNew, SeqAfterAdmit
<1> HIDE DEF first
<1>3. /\ DOMAIN runs' = DOMAIN runs \cup {runID}
      /\ DOMAIN attempts' = DOMAIN attempts \cup {attemptID}
      /\ DOMAIN intents' = DOMAIN intents \cup {first + 3}
      /\ runs'[runID] = run /\ attempts'[attemptID] = att
      /\ \A r \in DOMAIN runs : r # runID => runs'[r] = runs[r]
      /\ \A a \in DOMAIN attempts : a # attemptID => attempts'[a] = attempts[a]
  BY <1>2 DEF PutRow
<1>4. runID \notin DOMAIN runs /\ attemptID \notin DOMAIN attempts
  BY <1>1 DEF Inv, IdsBelowSeq
<1>5. IdsBelowSeq'
  BY <1>1, <1>2, <1>3 DEF Inv, IdsBelowSeq
<1>6. RunNamesAttempt'
  BY <1>2, <1>3, <1>4 DEF Inv, RunNamesAttempt
<1>7. TerminalHasReceipt'
  <2>1. receipts' = receipts /\ attemptID \notin DOMAIN receipts
    BY <1>2, <1>4 DEF Inv, TerminalHasReceipt
  <2>2. ASSUME NEW a \in DOMAIN attempts'
        PROVE  /\ attempts'[a].Terminal <=> a \in DOMAIN receipts'
               /\ attempts'[a].RunID \in DOMAIN runs'
               /\ attempts'[a].Terminal <=> runs'[attempts'[a].RunID].NativeStatus = "terminal"
               /\ a \in DOMAIN receipts' =>
                    /\ receipts'[a].Generation = attempts'[a].Generation
                    /\ attempts'[a].CancelRequested => receipts'[a].Outcome = Cancelled
    <3>1. CASE a = attemptID
      BY <3>1, <1>2, <1>3, <2>1
    <3>2. CASE a \in DOMAIN attempts /\ a # attemptID
      <4>1. attempts'[a] = attempts[a] /\ runs'[attempts[a].RunID] = runs[attempts[a].RunID]
            /\ attempts[a].RunID \in DOMAIN runs
        BY <3>2, <1>3, <1>4 DEF Inv, RunNamesAttempt
      <4> QED BY <3>2, <4>1, <1>3, <2>1 DEF Inv, TerminalHasReceipt
    <3> QED BY <3>1, <3>2, <1>3
  <2> QED BY <2>1, <2>2, <1>3 DEF Inv, TerminalHasReceipt
<1>8. CancelIsTerminal'
  BY <1>2, <1>3, <1>4 DEF Inv, CancelIsTerminal
<1> QED BY <1>5, <1>6, <1>7, <1>8, AdmitNewType DEF Inv

\* A lease changes nothing but the intent's lease and delivery state.
LEMMA LeaseInv ==
  ASSUME Inv, NEW i \in DOMAIN intents, NEW w \in Owners, NEW e \in 0 .. MaxTime,
         TryAcquireLease(i, w, e)
  PROVE  Inv'
<1>1. e \in Nat /\ i \in Nat /\ intents[i] \in DispatchIntent
  BY BoundsAreNatural DEF Inv, LifecycleTypeOK
<1>2. DOMAIN intents' = DOMAIN intents /\ \A j \in DOMAIN intents' : intents'[j] \in DispatchIntent
  <2>1. ASSUME NEW j \in DOMAIN intents PROVE intents'[j] \in DispatchIntent
    <3>1. CASE j = i
      BY <3>1, <1>1 DEF TryAcquireLease, DispatchIntent, Lease, DeliveryState
    <3>2. CASE j # i
      BY <3>2 DEF TryAcquireLease, Inv, LifecycleTypeOK
    <3> QED BY <3>1, <3>2
  <2> QED BY <2>1 DEF TryAcquireLease
<1>3. DOMAIN belief' = Owners
      /\ \A v \in Owners : DOMAIN belief'[v] \subseteq Nat
                             /\ \A j \in DOMAIN belief'[v] : belief'[v][j] \in Nat
  <2>1. ASSUME NEW v \in Owners
        PROVE  DOMAIN belief'[v] \subseteq Nat
               /\ \A j \in DOMAIN belief'[v] : belief'[v][j] \in Nat
    <3>1. CASE v = w
      <4>1. belief'[v] = PutRow(belief[v], i, e)
        BY <3>1 DEF TryAcquireLease, Inv, LifecycleTypeOK
      <4> QED BY <4>1, <1>1, PutType DEF Inv, LifecycleTypeOK
    <3>2. CASE v # w
      BY <3>2 DEF TryAcquireLease, Inv, LifecycleTypeOK
    <3> QED BY <3>1, <3>2
  <2> QED BY <2>1 DEF TryAcquireLease, Inv, LifecycleTypeOK
<1>4. UNCHANGED <<seq, byKey, runs, attempts, receipts, now, answers>>
  BY DEF TryAcquireLease
<1>5. LifecycleTypeOK'
  BY <1>2, <1>3, <1>4 DEF Inv, LifecycleTypeOK
<1> QED
  BY <1>2, <1>4, <1>5 DEF Inv, IdsBelowSeq, RunNamesAttempt, CancelIsTerminal, TerminalHasReceipt

\* What CompleteAttempt and CancelAttempt share: an open attempt becomes
\* terminal with a receipt of its own generation, and its run with it.
LEMMA TerminalWriteInv ==
  ASSUME Inv, NEW a \in DOMAIN attempts, NEW row \in Attempt,
         NEW receipt \in ExecutionReceipt,
         ~ attempts[a].Terminal,
         row.Terminal, row.RunID = attempts[a].RunID,
         row.Generation = receipt.Generation,
         row.CancelRequested => receipt.Outcome = Cancelled,
         attempts' = [attempts EXCEPT ![a] = row],
         receipts' = PutRow(receipts, a, receipt),
         MarkTerminal(a),
         UNCHANGED <<seq, byKey, now, answers, belief>>
  PROVE  Inv'
<1> DEFINE runID == attempts[a].RunID
<1>1. /\ DOMAIN attempts' = DOMAIN attempts /\ attempts'[a] = row
      /\ \A b \in DOMAIN attempts : b # a => attempts'[b] = attempts[b]
  OBVIOUS
<1>2. /\ DOMAIN receipts' = DOMAIN receipts \cup {a} /\ receipts'[a] = receipt
      /\ \A b \in DOMAIN receipts : b # a => receipts'[b] = receipts[b]
  BY DEF PutRow
<1>3. runID \in DOMAIN runs
  BY DEF Inv, RunNamesAttempt
<1>4. /\ DOMAIN runs' = DOMAIN runs
      /\ runs'[runID].NativeStatus = "terminal"
      /\ \A r \in DOMAIN runs : r # runID => runs'[r] = runs[r]
      /\ \A r \in DOMAIN runs : runs'[r] \in Run /\ runs'[r].CurrentAttempt = runs[r].CurrentAttempt
  <2>1. runs' = [r \in DOMAIN runs |->
                  IF r = runID THEN [runs[r] EXCEPT !.NativeStatus = "terminal"] ELSE runs[r]]
    BY DEF MarkTerminal
  <2>2. ASSUME NEW r \in DOMAIN runs
        PROVE  /\ runs'[r] \in Run /\ runs'[r].CurrentAttempt = runs[r].CurrentAttempt
               /\ r = runID => runs'[r].NativeStatus = "terminal"
               /\ r # runID => runs'[r] = runs[r]
    <3>1. runs[r] \in Run
      BY DEF Inv, LifecycleTypeOK
    <3>2. [runs[r] EXCEPT !.NativeStatus = "terminal"] \in Run
          /\ [runs[r] EXCEPT !.NativeStatus = "terminal"].CurrentAttempt = runs[r].CurrentAttempt
          /\ [runs[r] EXCEPT !.NativeStatus = "terminal"].NativeStatus = "terminal"
      BY <3>1 DEF Run
    <3> QED BY <3>1, <3>2, <2>1
  <2> QED BY <2>1, <2>2, <1>3
<1>5. /\ DOMAIN intents' = DOMAIN intents
      /\ \A i \in DOMAIN intents' : intents'[i] \in DispatchIntent
  <2>1. ASSUME NEW i \in DOMAIN intents PROVE intents'[i] \in DispatchIntent
    <3>1. intents[i] \in DispatchIntent /\ NoLease \in Lease
      BY DEF Inv, LifecycleTypeOK, NoLease, Lease
    <3>2. intents'[i] = IF intents[i].AttemptID = a
            THEN [intents[i] EXCEPT !.DeliveryState = "acked", !.Lease = NoLease] ELSE intents[i]
      BY DEF MarkTerminal
    <3> QED BY <3>1, <3>2 DEF DispatchIntent, DeliveryState
  <2> QED BY <2>1 DEF MarkTerminal
<1>6. LifecycleTypeOK'
  <2>1. DOMAIN attempts' \subseteq Nat /\ \A b \in DOMAIN attempts' : attempts'[b] \in Attempt
    BY <1>1 DEF Inv, LifecycleTypeOK
  <2>2. DOMAIN receipts' \subseteq Nat /\ \A b \in DOMAIN receipts' : receipts'[b] \in ExecutionReceipt
    BY <1>2 DEF Inv, LifecycleTypeOK
  <2> QED BY <2>1, <2>2, <1>4, <1>5 DEF Inv, LifecycleTypeOK
<1>7. IdsBelowSeq' /\ CancelIsTerminal'
  BY <1>1, <1>4, <1>5 DEF Inv, IdsBelowSeq, CancelIsTerminal
<1>8. RunNamesAttempt'
  BY <1>1, <1>4 DEF Inv, RunNamesAttempt
<1>9. TerminalHasReceipt'
  <2>1. ASSUME NEW b \in DOMAIN attempts, b # a
        PROVE  attempts[b].RunID # runID
    BY <2>1 DEF Inv, RunNamesAttempt
  <2>2. ASSUME NEW b \in DOMAIN attempts'
        PROVE  /\ attempts'[b].Terminal <=> b \in DOMAIN receipts'
               /\ attempts'[b].RunID \in DOMAIN runs'
               /\ attempts'[b].Terminal <=> runs'[attempts'[b].RunID].NativeStatus = "terminal"
               /\ b \in DOMAIN receipts' =>
                    /\ receipts'[b].Generation = attempts'[b].Generation
                    /\ attempts'[b].CancelRequested => receipts'[b].Outcome = Cancelled
    <3>1. CASE b = a
      BY <3>1, <1>1, <1>2, <1>3, <1>4
    <3>2. CASE b # a
      <4>1. b \in DOMAIN attempts /\ attempts'[b] = attempts[b]
            /\ (b \in DOMAIN receipts' <=> b \in DOMAIN receipts)
            /\ (b \in DOMAIN receipts => receipts'[b] = receipts[b])
            /\ attempts[b].RunID \in DOMAIN runs
            /\ runs'[attempts[b].RunID] = runs[attempts[b].RunID]
        BY <3>2, <2>1, <1>1, <1>2, <1>4 DEF Inv, RunNamesAttempt
      <4> QED BY <4>1, <1>4 DEF Inv, TerminalHasReceipt
    <3> QED BY <3>1, <3>2
  <2> QED BY <2>2, <1>1, <1>2 DEF Inv, TerminalHasReceipt
<1> QED BY <1>6, <1>7, <1>8, <1>9 DEF Inv

\* Every step of the store keeps the invariant.
LEMMA NextInv == Inv /\ [LifecycleNext]_lifecycleVars => Inv'
<1> SUFFICES ASSUME Inv, [LifecycleNext]_lifecycleVars PROVE Inv'
  OBVIOUS
<1>1. ASSUME NEW key \in SubmissionKeys, NEW fp \in Fingerprints, AdmitExisting(key, fp)
      PROVE  Inv'
  <2>1. [key |-> key, fp |-> fp, intent |-> byKey[key]] \in [key : SubmissionKeys,
      fp : Fingerprints, intent : Nat]
    BY <1>1 DEF AdmitExisting, Inv, LifecycleTypeOK
  <2> QED BY <1>1, <2>1 DEF AdmitExisting, store, Inv, LifecycleTypeOK, IdsBelowSeq, RunNamesAttempt,
                            CancelIsTerminal, TerminalHasReceipt
<1>2. ASSUME NEW a \in DOMAIN attempts, NEW g \in Generations \cup 1 .. seq,
             NEW o \in Outcomes, CompleteAttempt(a, g, o)
      PROVE  Inv'
  <2> DEFINE row == [attempts[a] EXCEPT !.Terminal = TRUE]
  <2>1. attempts[a] \in Attempt /\ g \in Generation
    BY DEF Inv, LifecycleTypeOK, Generation
  <2>2. row \in Attempt /\ row.Terminal /\ row.RunID = attempts[a].RunID
        /\ row.Generation = g /\ row.CancelRequested = attempts[a].CancelRequested
    BY <1>2, <2>1 DEF Attempt, CompleteAttempt, Fenced
  <2>3. ~ attempts[a].Terminal /\ ~ row.CancelRequested
    BY <1>2, <2>1, <2>2 DEF CompleteAttempt, Fenced, Inv, CancelIsTerminal, Attempt
  <2>4. [Generation |-> g, Outcome |-> o] \in ExecutionReceipt
    BY <2>1 DEF ExecutionReceipt
  <2> HIDE DEF row
  <2>5. attempts' = [attempts EXCEPT ![a] = row]
        /\ receipts' = PutRow(receipts, a, [Generation |-> g, Outcome |-> o])
        /\ MarkTerminal(a) /\ UNCHANGED <<seq, byKey, now, answers, belief>>
    BY <1>2 DEF CompleteAttempt, row
  <2> QED BY <2>2, <2>3, <2>4, <2>5, TerminalWriteInv
<1>3. ASSUME NEW a \in DOMAIN attempts, NEW g \in Generations \cup 1 .. seq,
             CancelAttempt(a, g)
      PROVE  Inv'
  <2> DEFINE row == [attempts[a] EXCEPT !.Terminal = TRUE, !.CancelRequested = TRUE]
  <2>1. attempts[a] \in Attempt /\ g \in Generation
    BY DEF Inv, LifecycleTypeOK, Generation
  <2>2. row \in Attempt /\ row.Terminal /\ row.RunID = attempts[a].RunID /\ row.Generation = g
    BY <1>3, <2>1 DEF Attempt, CancelAttempt, Fenced
  <2>3. ~ attempts[a].Terminal
    BY <1>3 DEF CancelAttempt, Fenced
  <2>4. [Generation |-> g, Outcome |-> Cancelled] \in ExecutionReceipt
    BY <2>1 DEF ExecutionReceipt
  <2> HIDE DEF row
  <2>5. attempts' = [attempts EXCEPT ![a] = row]
        /\ receipts' = PutRow(receipts, a, [Generation |-> g, Outcome |-> Cancelled])
        /\ MarkTerminal(a) /\ UNCHANGED <<seq, byKey, now, answers, belief>>
    BY <1>3 DEF CancelAttempt, row
  <2> QED BY <2>2, <2>3, <2>4, <2>5, TerminalWriteInv
<1>4. CASE Tick
  BY <1>4 DEF Tick, store, Inv, LifecycleTypeOK, IdsBelowSeq, RunNamesAttempt, CancelIsTerminal,
      TerminalHasReceipt
<1>5. CASE UNCHANGED lifecycleVars
  BY <1>5 DEF lifecycleVars, Inv, LifecycleTypeOK, IdsBelowSeq, RunNamesAttempt, CancelIsTerminal,
      TerminalHasReceipt
<1> QED BY <1>1, <1>2, <1>3, <1>4, <1>5, AdmitNewInv, LeaseInv DEF LifecycleNext

\* The store's tables keep their types: an identifier, a generation or a
\* delivery state is never anything else (records.go).
THEOREM TypeCorrect == LifecycleSpec => []LifecycleTypeOK
<1>1. Inv => LifecycleTypeOK
  BY DEF Inv
<1> QED BY <1>1, InitInv, NextInv, PTL DEF LifecycleSpec

\* An attempt is terminal exactly when a receipt of its generation exists and
\* its run is terminal: CompleteAttempt and CancelAttempt write all three.
THEOREM TerminalEvidence == LifecycleSpec => []TerminalHasReceipt
<1>1. Inv => TerminalHasReceipt
  BY DEF Inv
<1> QED BY <1>1, InitInv, NextInv, PTL DEF LifecycleSpec

\* Cancel versus complete: the first terminal write of an attempt decides, and
\* no later call (late, duplicated or of another worker) changes the attempt
\* or its receipt.
THEOREM TerminalWriteDecides == LifecycleSpec => TerminalIsFinal
<1>1. ASSUME Inv, [LifecycleNext]_lifecycleVars PROVE [TerminalRowsKept]_lifecycleVars
  <2> SUFFICES ASSUME NEW a \in DOMAIN attempts, attempts[a].Terminal
               PROVE  /\ a \in DOMAIN attempts' /\ attempts'[a] = attempts[a]
                      /\ a \in DOMAIN receipts' /\ receipts'[a] = receipts[a]
    BY DEF TerminalRowsKept
  <2>1. a \in DOMAIN receipts
    BY <1>1 DEF Inv, TerminalHasReceipt
  <2>2. ASSUME NEW key \in SubmissionKeys, NEW fp \in Fingerprints,
               NEW gen \in Generations \cup {AssignedByStore}, AdmitNew(key, fp, gen)
        PROVE  /\ a \in DOMAIN attempts' /\ attempts'[a] = attempts[a] /\ receipts' = receipts
    <3>1. a # SeqAfterGeneration(gen) + 2
      BY <1>1 DEF Inv, LifecycleTypeOK, IdsBelowSeq, SeqAfterGeneration
    <3> QED BY <2>2, <3>1 DEF AdmitNew, PutRow
  <2>3. ASSUME NEW b \in DOMAIN attempts, NEW g, NEW o, CompleteAttempt(b, g, o) \/ CancelAttempt(b, g)
        PROVE  /\ a \in DOMAIN attempts' /\ attempts'[a] = attempts[a]
               /\ a \in DOMAIN receipts' /\ receipts'[a] = receipts[a]
    <3>1. a # b
      BY <2>3 DEF CompleteAttempt, CancelAttempt, Fenced
    <3> QED BY <2>1, <2>3, <3>1 DEF CompleteAttempt, CancelAttempt, PutRow
  <2>4. CASE \E key \in SubmissionKeys, fp \in Fingerprints : AdmitExisting(key, fp)
    BY <2>1, <2>4 DEF AdmitExisting, store
  <2>5. CASE \E i \in DOMAIN intents, w \in Owners, e \in 0 .. MaxTime : TryAcquireLease(i, w, e)
    BY <2>1, <2>5 DEF TryAcquireLease
  <2>6. CASE Tick \/ UNCHANGED lifecycleVars
    BY <2>1, <2>6 DEF Tick, store, lifecycleVars
  <2> QED BY <1>1, <2>1, <2>2, <2>3, <2>4, <2>5, <2>6 DEF LifecycleNext
<1> QED BY <1>1, InitInv, NextInv, PTL DEF LifecycleSpec, TerminalIsFinal

-----------------------------------------------------------------------------
(* One run per submission key, one triple per run, one lease per intent.   *)

\* What Admit answered for a key is what the key still names.
AnswersStand ==
  \A x \in answers :
    /\ x.key \in DOMAIN byKey /\ byKey[x.key] = x.intent
    /\ x.intent \in DOMAIN intents /\ intents[x.intent].Fingerprint = x.fp

\* A worker that still believes in its lease of an open attempt's intent is
\* the owner the intent names, until the same instant.
LeasedTo(v, i) ==
  ~ attempts[intents[i].AttemptID].Terminal /\ belief[v][i] > now =>
    intents[i].Lease.Owner = v /\ intents[i].Lease.Expiry = belief[v][i]

BeliefsHold ==
  /\ \A i \in DOMAIN intents : intents[i].AttemptID \in DOMAIN attempts
  /\ \A v \in Owners : DOMAIN belief[v] \subseteq DOMAIN intents
  /\ \A v \in Owners : \A i \in DOMAIN belief[v] : LeasedTo(v, i)

ExclusiveInv == Inv /\ TripleAgrees /\ AnswersStand /\ BeliefsHold

\* What no method but Admit changes: which records there are and the fields
\* Admit wrote that name another record, the request or the generation.
RowsStand ==
  /\ DOMAIN runs' = DOMAIN runs
  /\ \A r \in DOMAIN runs : /\ runs'[r].CurrentAttempt = runs[r].CurrentAttempt
                            /\ runs'[r].Generation = runs[r].Generation
  /\ DOMAIN attempts' = DOMAIN attempts
  /\ \A a \in DOMAIN attempts : /\ attempts'[a].RunID = attempts[a].RunID
                                /\ attempts'[a].Generation = attempts[a].Generation
                                /\ attempts'[a].SubmissionKey = attempts[a].SubmissionKey
                                /\ attempts'[a].Fingerprint = attempts[a].Fingerprint
  /\ DOMAIN intents' = DOMAIN intents
  /\ \A i \in DOMAIN intents : /\ intents'[i].AttemptID = intents[i].AttemptID
                               /\ intents'[i].ExpectedGeneration = intents[i].ExpectedGeneration
                               /\ intents'[i].SubmissionKey = intents[i].SubmissionKey
                               /\ intents'[i].Fingerprint = intents[i].Fingerprint

LEMMA LeaseRows ==
  ASSUME Inv, NEW i \in DOMAIN intents, NEW w \in Owners, NEW e \in 0 .. MaxTime,
         TryAcquireLease(i, w, e)
  PROVE  RowsStand
<1>1. ASSUME NEW j \in DOMAIN intents
      PROVE  /\ intents'[j].AttemptID = intents[j].AttemptID
             /\ intents'[j].ExpectedGeneration = intents[j].ExpectedGeneration
             /\ intents'[j].SubmissionKey = intents[j].SubmissionKey
             /\ intents'[j].Fingerprint = intents[j].Fingerprint
  <2>1. intents[j] \in DispatchIntent
    BY DEF Inv, LifecycleTypeOK
  <2>2. CASE j = i
    BY <2>1, <2>2 DEF TryAcquireLease, DispatchIntent
  <2>3. CASE j # i
    BY <2>3 DEF TryAcquireLease
  <2> QED BY <2>2, <2>3
<1>2. DOMAIN intents' = DOMAIN intents /\ runs' = runs /\ attempts' = attempts
  BY DEF TryAcquireLease
<1> QED BY <1>1, <1>2 DEF RowsStand

\* CompleteAttempt and CancelAttempt alike.
LEMMA TerminalRows ==
  ASSUME Inv, NEW a \in DOMAIN attempts, NEW g, NEW o,
         CompleteAttempt(a, g, o) \/ CancelAttempt(a, g)
  PROVE  /\ RowsStand
         /\ \A b \in DOMAIN attempts : attempts[b].Terminal => attempts'[b].Terminal
         /\ attempts'[a].Terminal
         /\ \A i \in DOMAIN intents : intents[i].AttemptID # a => intents'[i] = intents[i]
         /\ byKey' = byKey /\ answers' = answers /\ belief' = belief /\ now' = now
<1>1. attempts[a] \in Attempt
  BY DEF Inv, LifecycleTypeOK
<1>2. PICK row :
        /\ attempts' = [attempts EXCEPT ![a] = row] /\ row.Terminal
        /\ row.RunID = attempts[a].RunID /\ row.Generation = attempts[a].Generation
        /\ row.SubmissionKey = attempts[a].SubmissionKey
        /\ row.Fingerprint = attempts[a].Fingerprint
  <2>1. CASE CompleteAttempt(a, g, o)
    <3> DEFINE row == [attempts[a] EXCEPT !.Terminal = TRUE]
    <3>1. /\ row.Terminal /\ row.RunID = attempts[a].RunID
          /\ row.Generation = attempts[a].Generation
          /\ row.SubmissionKey = attempts[a].SubmissionKey
          /\ row.Fingerprint = attempts[a].Fingerprint
      BY <1>1 DEF Attempt
    <3>2. attempts' = [attempts EXCEPT ![a] = row]
      BY <2>1 DEF CompleteAttempt
    <3> QED BY <3>1, <3>2
  <2>2. CASE CancelAttempt(a, g)
    <3> DEFINE row == [attempts[a] EXCEPT !.Terminal = TRUE, !.CancelRequested = TRUE]
    <3>1. /\ row.Terminal /\ row.RunID = attempts[a].RunID
          /\ row.Generation = attempts[a].Generation
          /\ row.SubmissionKey = attempts[a].SubmissionKey
          /\ row.Fingerprint = attempts[a].Fingerprint
      BY <1>1 DEF Attempt
    <3>2. attempts' = [attempts EXCEPT ![a] = row]
      BY <2>2 DEF CancelAttempt
    <3> QED BY <3>1, <3>2
  <2> QED BY <2>1, <2>2
<1>3. MarkTerminal(a) /\ byKey' = byKey /\ answers' = answers /\ belief' = belief /\ now' = now
  BY DEF CompleteAttempt, CancelAttempt
<1>4. ASSUME NEW r \in DOMAIN runs
      PROVE  runs'[r].CurrentAttempt = runs[r].CurrentAttempt /\ runs'[r].Generation = runs[r].Generation
  <2>1. runs[r] \in Run
    BY DEF Inv, LifecycleTypeOK
  <2>2. runs'[r] = IF r = attempts[a].RunID THEN [runs[r] EXCEPT !.NativeStatus = "terminal"] ELSE runs[r]
    BY <1>3 DEF MarkTerminal
  <2> QED BY <2>1, <2>2 DEF Run
<1>5. ASSUME NEW i \in DOMAIN intents
      PROVE  /\ intents'[i].AttemptID = intents[i].AttemptID
             /\ intents'[i].ExpectedGeneration = intents[i].ExpectedGeneration
             /\ intents'[i].SubmissionKey = intents[i].SubmissionKey
             /\ intents'[i].Fingerprint = intents[i].Fingerprint
             /\ intents[i].AttemptID # a => intents'[i] = intents[i]
  <2>1. intents[i] \in DispatchIntent
    BY DEF Inv, LifecycleTypeOK
  <2>2. intents'[i] = IF intents[i].AttemptID = a
                      THEN [intents[i] EXCEPT !.DeliveryState = "acked", !.Lease = NoLease] ELSE intents[i]
    BY <1>3 DEF MarkTerminal
  <2> QED BY <2>1, <2>2 DEF DispatchIntent
<1>6. DOMAIN runs' = DOMAIN runs /\ DOMAIN intents' = DOMAIN intents
  BY <1>3 DEF MarkTerminal
<1>7. DOMAIN attempts' = DOMAIN attempts /\ attempts'[a] = row
      /\ \A b \in DOMAIN attempts : b # a => attempts'[b] = attempts[b]
  BY <1>2
<1> QED BY <1>2, <1>3, <1>4, <1>5, <1>6, <1>7 DEF RowsStand

\* While rows stand, keys lead to the same triples and answers stand.
LEMMA StandingRows ==
  ASSUME ExclusiveInv, RowsStand, byKey' = byKey,
         \A x \in answers' : x \in answers \/ (/\ x.key \in DOMAIN byKey /\ byKey[x.key] = x.intent
                                               /\ intents[x.intent].Fingerprint = x.fp)
  PROVE  TripleAgrees' /\ AnswersStand'
<1>1. TripleAgrees'
  <2> SUFFICES ASSUME NEW k \in DOMAIN byKey
               PROVE  /\ byKey[k] \in DOMAIN intents'
                      /\ LET i == intents'[byKey[k]]
                         IN /\ i.SubmissionKey = k
                            /\ i.AttemptID \in DOMAIN attempts'
                            /\ LET a == attempts'[i.AttemptID]
                               IN /\ a.SubmissionKey = k
                                  /\ a.Fingerprint = i.Fingerprint
                                  /\ a.Generation = i.ExpectedGeneration
                                  /\ a.RunID \in DOMAIN runs'
                                  /\ runs'[a.RunID].CurrentAttempt = i.AttemptID
                                  /\ runs'[a.RunID].Generation = a.Generation
    BY DEF TripleAgrees
  <2>1. byKey[k] \in DOMAIN intents /\ intents[byKey[k]].AttemptID \in DOMAIN attempts
        /\ attempts[intents[byKey[k]].AttemptID].RunID \in DOMAIN runs
    BY DEF ExclusiveInv, TripleAgrees
  <2> QED BY <2>1 DEF ExclusiveInv, TripleAgrees, RowsStand
<1>2. AnswersStand'
  BY DEF ExclusiveInv, AnswersStand, TripleAgrees, RowsStand
<1> QED BY <1>1, <1>2

\* Admit of a new key: its triple is made of fresh numbers, so it replaces no
\* row an older key leads to, and nobody believes in a lease of its intent.
LEMMA AdmitNewExclusive ==
  ASSUME ExclusiveInv, NEW key \in SubmissionKeys, NEW fp \in Fingerprints,
         NEW gen \in Generations \cup {AssignedByStore}, AdmitNew(key, fp, gen)
  PROVE  TripleAgrees' /\ AnswersStand' /\ BeliefsHold'
<1> DEFINE first == SeqAfterGeneration(gen)
<1>1. /\ seq \in Nat /\ first \in Nat /\ first >= seq
      /\ DOMAIN runs \subseteq Nat /\ DOMAIN attempts \subseteq Nat /\ DOMAIN intents \subseteq Nat
  BY DEF ExclusiveInv, Inv, LifecycleTypeOK, SeqAfterGeneration
<1>2. PICK run, att, int :
        /\ run.CurrentAttempt = first + 2 /\ run.Generation = att.Generation
        /\ att.RunID = first + 1 /\ att.SubmissionKey = key /\ att.Fingerprint = fp
        /\ int.AttemptID = first + 2 /\ int.ExpectedGeneration = att.Generation
        /\ int.SubmissionKey = key /\ int.Fingerprint = fp
        /\ runs' = PutRow(runs, first + 1, run)
        /\ attempts' = PutRow(attempts, first + 2, att)
        /\ intents' = PutRow(intents, first + 3, int)
        /\ byKey' = PutRow(byKey, key, first + 3)
        /\ answers' = answers \cup {[key |-> key, fp |-> fp, intent |-> first + 3]}
        /\ key \notin DOMAIN byKey /\ now' = now /\ belief' = belief
  BY DEF AdmitNew, KeyIsNew
<1> HIDE DEF first
<1>3. first + 1 \notin DOMAIN runs /\ first + 2 \notin DOMAIN attempts /\ first + 3 \notin DOMAIN intents
  BY <1>1 DEF ExclusiveInv, Inv, IdsBelowSeq
<1>4. /\ DOMAIN runs' = DOMAIN runs \cup {first + 1} /\ runs'[first + 1] = run
      /\ \A r \in DOMAIN runs : runs'[r] = runs[r]
      /\ DOMAIN attempts' = DOMAIN attempts \cup {first + 2} /\ attempts'[first + 2] = att
      /\ \A a \in DOMAIN attempts : attempts'[a] = attempts[a]
      /\ DOMAIN intents' = DOMAIN intents \cup {first + 3} /\ intents'[first + 3] = int
      /\ \A i \in DOMAIN intents : intents'[i] = intents[i]
      /\ DOMAIN byKey' = DOMAIN byKey \cup {key} /\ byKey'[key] = first + 3
      /\ \A k \in DOMAIN byKey : byKey'[k] = byKey[k]
  BY <1>2, <1>3 DEF PutRow
<1>5. TripleAgrees'
  <2> SUFFICES ASSUME NEW k \in DOMAIN byKey'
               PROVE  /\ byKey'[k] \in DOMAIN intents'
                      /\ LET i == intents'[byKey'[k]]
                         IN /\ i.SubmissionKey = k
                            /\ i.AttemptID \in DOMAIN attempts'
                            /\ LET a == attempts'[i.AttemptID]
                               IN /\ a.SubmissionKey = k
                                  /\ a.Fingerprint = i.Fingerprint
                                  /\ a.Generation = i.ExpectedGeneration
                                  /\ a.RunID \in DOMAIN runs'
                                  /\ runs'[a.RunID].CurrentAttempt = i.AttemptID
                                  /\ runs'[a.RunID].Generation = a.Generation
    BY DEF TripleAgrees
  <2>1. CASE k = key
    BY <2>1, <1>2, <1>4
  <2>2. CASE k \in DOMAIN byKey
    <3>1. byKey[k] \in DOMAIN intents /\ intents[byKey[k]].AttemptID \in DOMAIN attempts
          /\ attempts[intents[byKey[k]].AttemptID].RunID \in DOMAIN runs
      BY <2>2 DEF ExclusiveInv, TripleAgrees
    <3> QED BY <2>2, <3>1, <1>4 DEF ExclusiveInv, TripleAgrees
  <2> QED BY <2>1, <2>2, <1>4
<1>6. AnswersStand'
  BY <1>2, <1>4 DEF ExclusiveInv, AnswersStand
<1>7. BeliefsHold'
  <2>1. \A i \in DOMAIN intents' : intents'[i].AttemptID \in DOMAIN attempts'
    BY <1>2, <1>4 DEF ExclusiveInv, BeliefsHold
  <2>2. \A v \in Owners : DOMAIN belief'[v] \subseteq DOMAIN intents'
    BY <1>2, <1>4 DEF ExclusiveInv, BeliefsHold
  <2>3. ASSUME NEW v \in Owners, NEW i \in DOMAIN belief'[v] PROVE LeasedTo(v, i)'
    <3>1. i \in DOMAIN belief[v] /\ i \in DOMAIN intents /\ intents[i].AttemptID \in DOMAIN attempts
      BY <1>2, <2>3 DEF ExclusiveInv, BeliefsHold
    <3>2. intents'[i] = intents[i]
          /\ attempts'[intents[i].AttemptID] = attempts[intents[i].AttemptID]
      BY <1>4, <3>1
    <3> QED BY <1>2, <3>1, <3>2 DEF ExclusiveInv, BeliefsHold, LeasedTo
  <2> QED BY <2>1, <2>2, <2>3 DEF BeliefsHold
<1> QED BY <1>5, <1>6, <1>7

\* TryAcquireLease refuses while another worker's lease lasts, so whoever still
\* believes in one keeps it.
LEMMA LeaseStep ==
  ASSUME ExclusiveInv, NEW i \in DOMAIN intents, NEW w \in Owners, NEW e \in 0 .. MaxTime,
         TryAcquireLease(i, w, e)
  PROVE  BeliefsHold'
<1>1. RowsStand /\ attempts' = attempts /\ now' = now
  BY LeaseRows DEF ExclusiveInv, TryAcquireLease
<1>2. belief' = [belief EXCEPT ![w] = PutRow(belief[w], i, e)] /\ DOMAIN belief = Owners
  BY DEF TryAcquireLease, ExclusiveInv, Inv, LifecycleTypeOK
<1>3. intents'[i].Lease = [Owner |-> w, Expiry |-> e]
  <2>1. intents[i] \in DispatchIntent
    BY DEF ExclusiveInv, Inv, LifecycleTypeOK
  <2> QED BY <2>1 DEF TryAcquireLease, DispatchIntent
<1>4. \A v \in Owners : DOMAIN belief'[v] \subseteq DOMAIN intents'
  BY <1>1, <1>2 DEF ExclusiveInv, BeliefsHold, RowsStand, PutRow
<1>5. ASSUME NEW v \in Owners, NEW j \in DOMAIN belief'[v] PROVE LeasedTo(v, j)'
  <2>1. CASE j = i /\ v = w
    <3>1. belief'[w][i] = e
      BY <1>2 DEF PutRow
    <3> QED BY <1>3, <2>1, <3>1 DEF LeasedTo
  <2>2. CASE v # w
    <3>1. j \in DOMAIN belief[v] /\ belief'[v][j] = belief[v][j] /\ j \in DOMAIN intents
          /\ LeasedTo(v, j)
      BY <1>2, <1>5, <2>2 DEF ExclusiveInv, BeliefsHold
    <3>2. CASE j = i
      <4>1. ~ (~ attempts[intents[i].AttemptID].Terminal /\ belief[v][i] > now)
        BY <2>2, <3>1, <3>2, NamesAreApart DEF LeasedTo, TryAcquireLease, HeldByAnother
      <4> QED BY <1>1, <3>1, <3>2, <4>1 DEF LeasedTo, RowsStand
    <3>3. CASE j # i
      <4>1. intents'[j] = intents[j]
        BY <3>1, <3>3 DEF TryAcquireLease
      <4> QED BY <1>1, <3>1, <4>1 DEF LeasedTo
    <3> QED BY <3>2, <3>3
  <2>3. CASE v = w /\ j # i
    <3>1. j \in DOMAIN belief[v] /\ belief'[v][j] = belief[v][j]
      BY <1>2, <1>5, <2>3 DEF PutRow
    <3>2. j \in DOMAIN intents /\ LeasedTo(v, j)
      BY <3>1 DEF ExclusiveInv, BeliefsHold
    <3>3. intents'[j] = intents[j]
      BY <2>3, <3>2 DEF TryAcquireLease
    <3> QED BY <1>1, <3>1, <3>2, <3>3 DEF LeasedTo
  <2> QED BY <2>1, <2>2, <2>3
<1> QED BY <1>1, <1>4, <1>5 DEF ExclusiveInv, BeliefsHold, RowsStand

\* A terminal write drops leases of its own attempt only, and those no longer
\* count.
LEMMA TerminalStep ==
  ASSUME ExclusiveInv, NEW a \in DOMAIN attempts, NEW g, NEW o,
         CompleteAttempt(a, g, o) \/ CancelAttempt(a, g)
  PROVE  BeliefsHold'
<1>1. /\ RowsStand /\ belief' = belief /\ now' = now
      /\ \A b \in DOMAIN attempts : attempts[b].Terminal => attempts'[b].Terminal
      /\ attempts'[a].Terminal
      /\ \A i \in DOMAIN intents : intents[i].AttemptID # a => intents'[i] = intents[i]
  BY TerminalRows DEF ExclusiveInv
<1>2. ASSUME NEW v \in Owners, NEW i \in DOMAIN belief[v] PROVE LeasedTo(v, i)'
  <2>1. i \in DOMAIN intents /\ intents[i].AttemptID \in DOMAIN attempts /\ LeasedTo(v, i)
        /\ intents'[i].AttemptID = intents[i].AttemptID
    BY <1>1 DEF ExclusiveInv, BeliefsHold, RowsStand
  <2> QED BY <1>1, <2>1 DEF LeasedTo
<1> QED BY <1>1, <1>2 DEF ExclusiveInv, BeliefsHold, RowsStand

\* Every step keeps it.
LEMMA ExclusiveNext == ExclusiveInv /\ [LifecycleNext]_lifecycleVars => ExclusiveInv'
<1> SUFFICES ASSUME ExclusiveInv, [LifecycleNext]_lifecycleVars PROVE ExclusiveInv'
  OBVIOUS
<1>0. Inv /\ Inv'
  BY NextInv DEF ExclusiveInv
<1>1. ASSUME NEW key \in SubmissionKeys, NEW fp \in Fingerprints, AdmitExisting(key, fp)
      PROVE  ExclusiveInv'
  <2>1. RowsStand /\ byKey' = byKey /\ UNCHANGED <<store, now, belief>>
    BY <1>1 DEF AdmitExisting, store, RowsStand
  <2>2. \A x \in answers' : x \in answers \/ (/\ x.key \in DOMAIN byKey /\ byKey[x.key] = x.intent
                                               /\ intents[x.intent].Fingerprint = x.fp)
    BY <1>1 DEF AdmitExisting
  <2>3. BeliefsHold'
    BY <2>1 DEF ExclusiveInv, BeliefsHold, LeasedTo, store
  <2> QED BY <1>0, <2>1, <2>2, <2>3, StandingRows DEF ExclusiveInv
<1>2. ASSUME NEW i \in DOMAIN intents, NEW w \in Owners, NEW e \in 0 .. MaxTime,
             TryAcquireLease(i, w, e)
      PROVE  ExclusiveInv'
  <2>1. RowsStand /\ byKey' = byKey /\ answers' = answers
    BY <1>0, <1>2, LeaseRows DEF TryAcquireLease
  <2> QED BY <1>0, <1>2, <2>1, StandingRows, LeaseStep DEF ExclusiveInv
<1>3. ASSUME NEW a \in DOMAIN attempts, NEW g, NEW o,
             CompleteAttempt(a, g, o) \/ CancelAttempt(a, g)
      PROVE  ExclusiveInv'
  <2>1. RowsStand /\ byKey' = byKey /\ answers' = answers
    BY <1>0, <1>3, TerminalRows
  <2> QED BY <1>0, <1>3, <2>1, StandingRows, TerminalStep DEF ExclusiveInv
<1>4. CASE Tick
  <2>1. now' = now + 1 /\ UNCHANGED <<store, answers, belief>> /\ now \in Nat
    BY <1>0, <1>4 DEF Tick, Inv, LifecycleTypeOK
  <2>2. ASSUME NEW v \in Owners, NEW i \in DOMAIN belief[v] PROVE LeasedTo(v, i)'
    <3>1. LeasedTo(v, i) /\ belief[v][i] \in Nat
      BY <1>0 DEF ExclusiveInv, BeliefsHold, Inv, LifecycleTypeOK
    <3> QED BY <2>1, <3>1 DEF LeasedTo, store
  <2> QED BY <1>0, <2>1, <2>2 DEF ExclusiveInv, TripleAgrees, AnswersStand, BeliefsHold, store
<1>5. CASE UNCHANGED lifecycleVars
  BY <1>0, <1>5 DEF lifecycleVars, ExclusiveInv, TripleAgrees, AnswersStand, BeliefsHold, LeasedTo
<1> QED BY <1>0, <1>1, <1>2, <1>3, <1>4, <1>5, AdmitNewExclusive DEF LifecycleNext, ExclusiveInv

\* Admission, idempotence and leasing: for any number of submitters and
\* workers, one key has one intent and one fingerprint, its run, attempt and
\* intent agree, and two workers never both hold a lease on an open attempt.
THEOREM SubmissionsAreExclusive == LifecycleSpec => []RunsAreExclusive
<1>1. LifecycleInit => ExclusiveInv
  BY InitInv DEF LifecycleInit, ExclusiveInv, TripleAgrees, AnswersStand, BeliefsHold, EmptyTable
<1>2. ExclusiveInv => RunsAreExclusive
  <2> SUFFICES ASSUME ExclusiveInv PROVE RunsAreExclusive
    OBVIOUS
  <2>1. OneIntentPerKey
    <3> SUFFICES ASSUME NEW x \in answers, NEW y \in answers, x.key = y.key PROVE x = y
      BY DEF OneIntentPerKey
    <3>1. x.intent = y.intent /\ x.fp = y.fp
      BY DEF ExclusiveInv, AnswersStand
    <3>2. x \in [key : SubmissionKeys, fp : Fingerprints, intent : Nat]
          /\ y \in [key : SubmissionKeys, fp : Fingerprints, intent : Nat]
      BY DEF ExclusiveInv, Inv, LifecycleTypeOK
    <3> QED BY <3>1, <3>2
  <2>2. LeaseExclusive
    BY DEF LeaseExclusive, ExclusiveInv, BeliefsHold, LeasedTo
  <2> QED BY <2>1, <2>2 DEF RunsAreExclusive, ExclusiveInv, Inv
<1> QED BY <1>1, <1>2, ExclusiveNext, PTL DEF LifecycleSpec

-----------------------------------------------------------------------------
(***************************************************************************)
(* Child processes.                                                        *)
(***************************************************************************)
\* A child is started once, a call of Close comes after Start, and a closed
\* helper whose mutex is free has no child left: whoever closed it first held
\* the mutex until the child was gone.
ChInv ==
  /\ chKind \in {"process", "miniflare"}
  /\ chPc \in [ChClosers -> {"idle", "wait", "returned", "returned early", "polite", "term", "kill"}]
  /\ chStart = "idle" => chProc = "none" /\ ~chClosed /\ \A c \in ChClosers : chPc[c] = "idle"
  /\ chKind = "miniflare" /\ chStart # "closing" /\ chClosed /\ chMu = "" => chProc = "dead"
  /\ chMu # "" => chMu \in ChClosers /\ chStart = "ok"
  /\ \A c \in ChClosers : chPc[c] # "idle" => chStart = "ok"
  /\ NoOrphans

\* Every step keeps the invariant.
LEMMA ChStep ==
  ASSUME ChInv, [ChNext]_chvars
  PROVE  ChInv'
<1> USE ChAssumption
<1>1. CASE ChildReady
  BY <1>1 DEF ChInv, NoOrphans, ChildReady
<1>2. CASE ChildExits
  BY <1>2 DEF ChInv, NoOrphans, ChildExits
<1>3. CASE StartChild
  BY <1>3 DEF ChInv, NoOrphans, StartChild
<1>4. CASE ReadySeen
  BY <1>4 DEF ChInv, NoOrphans, ReadySeen
<1>5. CASE NotReady
  BY <1>5 DEF ChInv, NoOrphans, NotReady
<1>6. CASE ReapFailedStart
  BY <1>6 DEF ChInv, NoOrphans, ReapFailedStart
<1>7. ASSUME NEW good \in BOOLEAN, DescribeSession(good) PROVE ChInv'
  BY <1>7 DEF ChInv, NoOrphans, DescribeSession
<1>8. CASE StartCloses
  BY <1>8 DEF ChInv, NoOrphans, StartCloses
<1>9. ASSUME NEW c \in ChClosers, CloseProcess(c) PROVE ChInv'
  BY <1>9 DEF ChInv, NoOrphans, CloseProcess
<1>10. ASSUME NEW c \in ChClosers, CloseProcessDone(c) PROVE ChInv'
  BY <1>10 DEF ChInv, NoOrphans, CloseProcessDone
<1>11. ASSUME NEW c \in ChClosers, CloseStage(c) PROVE ChInv'
  BY <1>11 DEF ChInv, NoOrphans, CloseStage
<1>12. ASSUME NEW c \in ChClosers, NEW kill \in BOOLEAN, CallClose(c, kill) PROVE ChInv'
  BY <1>12 DEF ChInv, NoOrphans, CallClose
<1>13. CASE UNCHANGED chvars
  BY <1>13 DEF ChInv, NoOrphans, chvars
<1> QED
  BY <1>1, <1>2, <1>3, <1>4, <1>5, <1>6, <1>7, <1>8, <1>9, <1>10, <1>11, <1>12, <1>13 DEF ChNext

\* No child outlives a Start that failed or a Close that returned, whoever
\* called them and however the child behaves (process.go, miniflare.go).
THEOREM ChildrenAreReaped == ChSpec => []NoOrphans
<1>1. ChInit => ChInv
  BY ChAssumption DEF ChInit, ChInv, NoOrphans
<1>2. ChInv => NoOrphans
  BY DEF ChInv
<1> QED
  BY <1>1, <1>2, ChStep, PTL DEF ChSpec

(***************************************************************************)
(* Execution backends.                                                     *)
(***************************************************************************)
\* The key-value backend and what was promised of it: an entry is kept until
\* its promised end, and the last answer is about the entries as they are.
KvInv ==
  /\ xbNow \in 1 .. XbMaxTime
  /\ xbKv = [k \in DOMAIN xbKv |-> xbKv[k]] /\ xbPromise = [k \in DOMAIN xbPromise |-> xbPromise[k]]
  /\ DOMAIN xbKv = DOMAIN xbPromise
  /\ \A k \in DOMAIN xbKv :
       /\ xbKv[k].expiration \in Nat
       /\ xbKv[k].value = xbPromise[k].value
       /\ xbPromise[k].until = IF xbKv[k].expiration = 0 THEN Endless ELSE xbKv[k].expiration
  /\ xbLast.action = "kv.get" /\ xbLast.class = "ok" =>
       Live(xbLast.key) /\ xbLast.value = xbKv[xbLast.key].value
  /\ xbLast.action = "kv.get" /\ xbLast.class = "absent" => ~Live(xbLast.key)
  /\ DescribedIsServed

\* Unless an Apply has failed, the session has applied every name known.
BindInv ==
  /\ xbCaller = [c \in XbCallers |-> xbCaller[c]]
  /\ ~xbFailed => xbApplied = xbKnown
  /\ xbApplied \subseteq xbKnown
  /\ \A c \in XbCallers : xbCaller[c].pc = "delegate" => xbCaller[c].name \in xbKnown

LEMMA BindStep ==
  ASSUME BindInv, [XbNext]_xbvars
  PROVE  BindInv'
<1>1. ASSUME NEW c \in XbCallers, NEW name \in XbNames, NEW good \in BOOLEAN, Ensure(c, name, good) PROVE BindInv'
  BY <1>1 DEF BindInv, Ensure
<1>2. ASSUME NEW c \in XbCallers, Delegate(c) PROVE BindInv'
  BY <1>2 DEF BindInv, Delegate
<1>3. ASSUME UNCHANGED <<xbKnown, xbApplied, xbCaller, xbFailed>> PROVE BindInv'
  BY <1>3 DEF BindInv
<1> QED
  BY <1>1, <1>2, <1>3 DEF XbNext, Dispatch, XbTick, xbvars

\* A request, as XbRequests makes them.
LEMMA RequestShape ==
  ASSUME NEW req \in XbRequests
  PROVE  req.expiration \in Nat /\ req.ttl \in Nat
<1> DEFINE Ask == [action : {"kv.get", "kv.delete", "kv.purge"}, kind : {"entry", "object"}, scoped : BOOLEAN,
                   inputs : {{"namespace", "key"}, {"namespace"}}, key : XbKeys, value : {""},
                   expiration : {0}, ttl : {0}, cancelled : BOOLEAN]
           Store == [action : {"kv.put"}, kind : {"entry"}, scoped : {TRUE},
                     inputs : {{"namespace", "key", "value"} \union i : i \in SUBSET {"expiration", "expirationTtl"}},
                     key : XbKeys, value : {"v", "w"}, expiration : {0, 3}, ttl : {0, 1}, cancelled : {FALSE}]
           Other(a) == [action : {a}, kind : {Describe[a].kind}, scoped : {TRUE}, inputs : {Describe[a].required},
                        key : {""}, value : {""}, expiration : {0}, ttl : {0}, cancelled : {FALSE}]
<1>1. req \in Ask \/ req \in Store \/ \E a : req \in Other(a)
  BY Zenon DEF XbRequests
<1>2. req \in Ask => req.expiration = 0 /\ req.ttl = 0
  OBVIOUS
<1>3. req \in Store => req.expiration \in {0, 3} /\ req.ttl \in {0, 1}
  OBVIOUS
<1>4. \A a : req \in Other(a) => req.expiration = 0 /\ req.ttl = 0
  OBVIOUS
<1> HIDE DEF Ask, Store, Other
<1> QED
  BY <1>1, <1>2, <1>3, <1>4

\* The registry refuses as unsupported only what it does not declare, and
\* never answers for the backend.
LEMMA Allowed ==
  ASSUME NEW req
  PROVE  /\ req.action \in DOMAIN Describe => CheckRequest(req) # "unsupported"
         /\ CheckRequest(req) # "absent" /\ CheckRequest(req) # "ok"
BY DEF CheckRequest

\* And every declared action is served.
LEMMA DeclaredServed == DOMAIN Describe = Served
BY DEF Describe, Served

LEMMA KvStep ==
  ASSUME KvInv, [XbNext]_xbvars
  PROVE  KvInv'
<1>1. ASSUME NEW req \in XbRequests, Dispatch(req) PROVE KvInv'
  <2> DEFINE refused == CheckRequest(req)
             key == req.key
             class == CASE refused # "" -> refused
                        [] refused = "" /\ req.action \notin Served -> "unsupported"
                        [] refused = "" /\ req.action \in {"kv.get", "kv.delete"} /\ ~Live(key) -> "absent"
                        [] OTHER -> "ok"
             put == class = "ok" /\ req.action = "kv.put"
             gone == class = "ok" /\ req.action = "kv.delete"
             until == IF Expiration(req) = 0 THEN Endless ELSE Expiration(req)
  <2>11. xbLast' = [action |-> req.action, key |-> key, class |-> class,
                    value |-> IF class = "ok" /\ req.action = "kv.get" THEN xbKv[key].value ELSE ""]
    BY <1>1, Zenon DEF Dispatch
  <2>12. xbKv' = CASE put -> Put(xbKv, req.key, [value |-> req.value, expiration |-> Expiration(req)])
                    [] gone -> Del(xbKv, req.key)
                    [] OTHER -> xbKv
    BY <1>1, Zenon DEF Dispatch
  <2>13. xbPromise' = CASE put -> Put(xbPromise, req.key, [value |-> req.value, until |-> until])
                         [] gone -> Del(xbPromise, req.key)
                         [] OTHER -> xbPromise
    BY <1>1, Zenon DEF Dispatch
  <2>14. xbNow' = xbNow
    BY <1>1 DEF Dispatch
  <2>15. ~(put /\ gone)
    OBVIOUS
  <2>16. put => /\ xbKv' = Put(xbKv, key, [value |-> req.value, expiration |-> Expiration(req)])
                /\ xbPromise' = Put(xbPromise, key, [value |-> req.value, until |-> until])
    BY <2>12, <2>13, <2>15, Zenon
  <2>17. gone => xbKv' = Del(xbKv, key) /\ xbPromise' = Del(xbPromise, key)
    BY <2>12, <2>13, <2>15, Zenon
  <2>18. ~put /\ ~gone => xbKv' = xbKv /\ xbPromise' = xbPromise
    BY <2>12, <2>13, Zenon
  <2>2. class = "unsupported" => req.action \notin DOMAIN Describe
    <3>1. CASE req.action \in DOMAIN Describe
      <4>1. req.action \in Served /\ refused # "unsupported"
        BY <3>1, DeclaredServed, Allowed
      <4> HIDE DEF refused
      <4> QED
        BY <4>1
    <3> QED
      BY <3>1
  <2>3. class = "absent" => ~Live(key)
    <3>1. refused # "absent"
      BY Allowed
    <3> HIDE DEF refused
    <3> QED
      BY <3>1
  <2>4. class = "ok" /\ req.action = "kv.get" => Live(key)
    <3>1. refused # "ok"
      BY Allowed
    <3> HIDE DEF refused
    <3> QED
      BY <3>1
  <2>5. Expiration(req) \in Nat
    BY RequestShape DEF Expiration, KvInv
  <2>5a. until = IF Expiration(req) = 0 THEN Endless ELSE Expiration(req)
    OBVIOUS
  <2> HIDE DEF refused, class, until
  <2>6. /\ xbLast'.action = req.action /\ xbLast'.class = class /\ xbLast'.key = key
        /\ (class = "ok" /\ req.action = "kv.get" => xbLast'.value = xbKv[key].value)
    BY <2>11
  <2>61. DescribedIsServed'
    <3>1. xbLast'.class = "unsupported" => xbLast'.action \notin DOMAIN Describe
      BY <2>6, <2>2, Zenon
    <3> QED
      BY <3>1, Zenon DEF DescribedIsServed
  <2>7. CASE put
    <3>1. PICK row : row = [value |-> req.value, expiration |-> Expiration(req)]
      OBVIOUS
    <3>2. PICK vow : vow = [value |-> req.value, until |-> until]
      OBVIOUS
    <3>3. /\ row.value = req.value /\ row.expiration = Expiration(req)
          /\ vow.value = req.value /\ vow.until = until
      BY <3>1, <3>2
    <3>4. xbKv' = Put(xbKv, key, row) /\ xbPromise' = Put(xbPromise, key, vow)
      BY <2>7, <2>16, <3>1, <3>2, Zenon
    <3>5. DOMAIN xbKv' = DOMAIN xbKv \union {key} /\ DOMAIN xbPromise' = DOMAIN xbPromise \union {key}
      BY <3>4 DEF Put
    <3>6. \A k \in DOMAIN xbKv' :
            /\ xbKv'[k] = IF k = key THEN row ELSE xbKv[k]
            /\ xbPromise'[k] = IF k = key THEN vow ELSE xbPromise[k]
      BY <3>4, <3>5 DEF Put, KvInv
    <3>7. /\ xbKv' = [k \in DOMAIN xbKv' |-> xbKv'[k]]
          /\ xbPromise' = [k \in DOMAIN xbPromise' |-> xbPromise'[k]]
      BY <3>4 DEF Put
    <3>8. \A k \in DOMAIN xbKv' :
            /\ xbKv'[k].expiration \in Nat
            /\ xbKv'[k].value = xbPromise'[k].value
            /\ xbPromise'[k].until = IF xbKv'[k].expiration = 0 THEN Endless ELSE xbKv'[k].expiration
      BY <2>5, <2>5a, <3>3, <3>5, <3>6, SMTT(30) DEF KvInv
    <3>9. xbLast'.action = "kv.put"
      BY <2>6, <2>7
    <3> QED
      BY <2>14, <2>61, <3>5, <3>7, <3>8, <3>9 DEF KvInv, Endless
  <2>8. CASE gone
    BY <2>17, <2>14, <2>6, <2>61, <2>8 DEF KvInv, Del
  <2>9. CASE ~put /\ ~gone
    BY <2>18, <2>14, <2>3, <2>4, <2>6, <2>61, <2>9 DEF KvInv, Live, Expired
  <2> QED
    BY <2>7, <2>8, <2>9
<1>2. CASE XbTick
  <2>1. xbNow' \in 1 .. XbMaxTime
    BY <1>2, XbAssumption DEF KvInv, XbTick
  <2>2. xbKv' = xbKv /\ xbPromise' = xbPromise /\ xbLast' = Nothing
    BY <1>2 DEF XbTick
  <2> QED
    BY <2>1, <2>2 DEF KvInv, Nothing, DescribedIsServed
<1>3. ASSUME UNCHANGED <<xbKv, xbNow, xbLast, xbPromise>> PROVE KvInv'
  BY <1>3 DEF KvInv, DescribedIsServed, Live, Expired
<1> QED
  BY <1>1, <1>2, <1>3 DEF XbNext, Ensure, Delegate, xbvars

\* An entry lasts until the end it was promised, what the backend describes it
\* serves, and a resource is bound before it is used (native_kv.go,
\* execution.go, ensuring.go).
THEOREM EntriesAndBindings == XbSpec => [](EntriesLastTheirTime /\ DescribedIsServed /\ BoundBeforeUse)
<1>1. XbInit => KvInv
  <2> SUFFICES ASSUME XbInit PROVE KvInv
    OBVIOUS
  <2>1. xbKv = NoRows /\ xbPromise = NoRows /\ xbNow = 1 /\ xbLast = Nothing
    BY DEF XbInit
  <2>2. DOMAIN NoRows = {} /\ NoRows = [k \in DOMAIN NoRows |-> NoRows[k]]
    BY DEF NoRows
  <2>3. xbNow \in 1 .. XbMaxTime
    BY <2>1, XbAssumption
  <2>4. xbKv = [k \in DOMAIN xbKv |-> xbKv[k]] /\ xbPromise = [k \in DOMAIN xbPromise |-> xbPromise[k]]
    BY <2>1, <2>2, Zenon
  <2>5. xbLast.action = "" /\ xbLast.class = ""
    BY <2>1 DEF Nothing
  <2>6. DOMAIN xbKv = {} /\ DOMAIN xbPromise = {}
    BY <2>1, <2>2
  <2>7. \A k \in DOMAIN xbKv : FALSE
    BY <2>6
  <2>8. DescribedIsServed /\ xbLast.action # "kv.get"
    BY <2>5 DEF DescribedIsServed
  <2> QED
    BY <2>3, <2>4, <2>6, <2>7, <2>8 DEF KvInv
<1>11. XbInit => BindInv
  <2> SUFFICES ASSUME XbInit PROVE BindInv
    OBVIOUS
  <2>1. xbApplied = {} /\ xbKnown = {} /\ xbCaller = [c \in XbCallers |-> [pc |-> "idle", name |-> ""]]
    BY DEF XbInit
  <2>2. xbCaller = [c \in XbCallers |-> xbCaller[c]]
    BY <2>1, Zenon
  <2>3. \A c \in XbCallers : xbCaller[c].pc = "idle"
    BY <2>1
  <2> QED
    BY <2>1, <2>2, <2>3 DEF BindInv
<1>2. KvInv => EntriesLastTheirTime
  <2> SUFFICES ASSUME KvInv PROVE EntriesLastTheirTime
    OBVIOUS
  <2> DEFINE lasting == {k \in DOMAIN xbPromise : xbNow < xbPromise[k].until}
  <2>1. xbNow < Endless /\ xbNow \in Nat
    BY XbAssumption DEF KvInv, Endless
  <2>2. \A k \in DOMAIN xbKv : ~Expired(xbKv[k]) <=> xbNow < xbPromise[k].until
    BY <2>1 DEF KvInv, Expired
  <2>3. ListKeys = lasting
    BY <2>2 DEF KvInv, ListKeys
  <2>4. \A k : Live(k) <=> k \in lasting
    BY <2>2 DEF KvInv, Live
  <2>5. xbLast.action = "kv.get" /\ xbLast.class = "ok" =>
          xbLast.key \in lasting /\ xbLast.value = xbPromise[xbLast.key].value
    BY <2>4 DEF KvInv, Live
  <2>6. xbLast.action = "kv.get" /\ xbLast.class = "absent" => xbLast.key \notin lasting
    BY <2>4 DEF KvInv
  <2> QED
    BY <2>3, <2>5, <2>6 DEF EntriesLastTheirTime
<1>3. KvInv => DescribedIsServed
  BY DEF KvInv
<1>4. BindInv => BoundBeforeUse
  BY DEF BindInv, BoundBeforeUse
<1> QED
  BY <1>1, <1>11, <1>2, <1>3, <1>4, KvStep, BindStep, PTL DEF XbSpec

(***************************************************************************)
(* Delivery targets.                                                       *)
(***************************************************************************)
\* The types; while a site is up, the history ends with its directory; the
\* build a Worker activated last bounds what it has served.
DpNumbers ==
  /\ dpSeq \in Nat /\ dpGood \subseteq Nat /\ dpHeld \in Nat /\ dpLast \in Nat
  /\ dpPrior \in Nat /\ dpActive \in Nat
DpTypes ==
  /\ DpNumbers
  /\ dpDir.of \in Nat
  /\ dpStaging \in [dir : [of : Nat, whole : BOOLEAN], open : BOOLEAN]
  /\ dpHistory \in Seq(Nat)
DpShown == dpOpen => Len(dpHistory) > 0 /\ dpHistory[Len(dpHistory)] = dpDir.of
DpBounded == dpKind = "cfbuilds" => \A i \in DOMAIN dpHistory : dpHistory[i] <= dpActive
DpInv == DpTypes /\ DpShown /\ DpBounded /\ ServedIsWhole /\ ProductionMovesForward /\ RollbackReturns

\* A call that serves nothing new leaves the history as it was.
LEMMA HistoryStands ==
  ASSUME DpInv, dpKind' = dpKind, dpHistory' = dpHistory, dpPrior' = dpPrior, dpActive' = dpActive
  PROVE  DpBounded' /\ ProductionMovesForward' /\ RollbackReturns'
BY DEF DpInv, DpBounded, ProductionMovesForward, RollbackReturns

\* A call that serves a directory appends its upload; what a rollback returns
\* to changes only to what was served until then.
Appends ==
  /\ dpOpen' = TRUE /\ dpHistory' = Append(dpHistory, dpDir'.of) /\ dpDir'.of \in Nat /\ dpKind' = dpKind
  /\ dpKind = "cfbuilds" => dpActive' = dpDir'.of /\ dpDir'.of >= dpActive
  /\ dpPrior' = dpPrior \/ (dpOpen /\ dpPrior' = dpDir.of)

LEMMA HistoryGrows ==
  ASSUME DpInv, Appends
  PROVE  dpHistory' \in Seq(Nat) /\ DpShown' /\ DpBounded' /\ ProductionMovesForward' /\ RollbackReturns'
<1>1. PICK d \in Nat : d = dpDir'.of
  BY DEF Appends
<1>2. dpHistory' = Append(dpHistory, d) /\ dpOpen' = TRUE
  BY <1>1 DEF Appends
<1>3. dpHistory \in Seq(Nat) /\ dpActive \in Nat
  BY DEF DpInv, DpTypes, DpNumbers
<1>4. /\ dpHistory' \in Seq(Nat) /\ Len(dpHistory') = Len(dpHistory) + 1 /\ Len(dpHistory) \in Nat
      /\ DOMAIN dpHistory' = 1 .. Len(dpHistory) + 1 /\ DOMAIN dpHistory = 1 .. Len(dpHistory)
      /\ \A i \in DOMAIN dpHistory : dpHistory'[i] = dpHistory[i] /\ dpHistory[i] \in Nat
      /\ dpHistory'[Len(dpHistory) + 1] = d
  BY <1>2, <1>3
<1>5. DpShown'
  BY <1>1, <1>4 DEF DpShown
<1>6. \A i \in DOMAIN dpHistory' : i \in DOMAIN dpHistory \/ i = Len(dpHistory) + 1
  BY <1>4
<1>7. DpBounded' /\ ProductionMovesForward'
  <2>1. CASE dpKind = "cfbuilds"
    <3>1. dpActive' = d /\ d >= dpActive /\ \A i \in DOMAIN dpHistory : dpHistory[i] <= dpActive
      BY <2>1, <1>1 DEF Appends, DpInv, DpBounded
    <3>2. \A i \in DOMAIN dpHistory' : dpHistory'[i] <= d
      BY <3>1, <1>3, <1>4, <1>6
    <3>3. \A i, j \in DOMAIN dpHistory : i < j => dpHistory[i] <= dpHistory[j]
      BY <2>1 DEF DpInv, ProductionMovesForward
    <3>4. \A i, j \in DOMAIN dpHistory' : i < j => dpHistory'[i] <= dpHistory'[j]
      BY <3>2, <3>3, <1>4, <1>6
    <3> QED
      BY <3>1, <3>2, <3>4 DEF Appends, DpBounded, ProductionMovesForward
  <2> QED
    BY <2>1 DEF Appends, DpBounded, ProductionMovesForward
<1>8. RollbackReturns'
  <2> SUFFICES ASSUME dpKind' = "gcpdeploy", dpPrior' # 0
               PROVE  \E i \in DOMAIN dpHistory' : i < Len(dpHistory') /\ dpHistory'[i] = dpPrior'
    BY Zenon DEF RollbackReturns
  <2>1. CASE dpPrior' = dpPrior
    BY <2>1, <1>4 DEF Appends, DpInv, RollbackReturns
  <2>2. CASE dpOpen /\ dpPrior' = dpDir.of
    <3>1. Len(dpHistory) \in DOMAIN dpHistory /\ dpHistory[Len(dpHistory)] = dpPrior'
      BY <2>2, <1>3, <1>4 DEF DpInv, DpShown
    <3> QED
      BY <3>1, <1>4
  <2> QED
    BY <2>1, <2>2 DEF Appends
<1> QED
  BY <1>4, <1>5, <1>7, <1>8

\* Every call of a delivery target keeps the invariant.
LEMMA DpStep ==
  ASSUME DpInv, [DpNext]_dpvars
  PROVE  DpInv'
<1>1. ASSUME NEW good \in BOOLEAN, PublishInPlace(good) PROVE DpInv'
  <2>1. CASE good
    <3>1. dpOpen' = TRUE /\ dpHistory' = Append(dpHistory, dpDir'.of) /\ dpDir' = Written(dpSeq', TRUE)
      BY <1>1, <2>1 DEF PublishInPlace, Upload, Serves, Written
    <3>2. dpDir'.of = dpSeq' /\ dpDir'.whole
      BY <3>1 DEF Written
    <3>3. /\ dpKind' = dpKind /\ dpKind = "inplace"
         /\ dpPrior' = dpPrior
      BY <1>1, <2>1, <3>2 DEF PublishInPlace, Upload
    <3>4. DpNumbers'
      BY <1>1, <2>1 DEF DpInv, DpTypes, DpNumbers, PublishInPlace, Upload
    <3>5. dpStaging' = dpStaging /\ dpSeq' \in dpGood'
      BY <1>1, <2>1 DEF PublishInPlace, Upload
    <3>6. dpDir'.of \in Nat
      BY <1>1, <2>1, <3>2 DEF DpInv, DpTypes, DpNumbers, PublishInPlace, Upload
    <3>7. Appends
      BY <3>1, <3>2, <3>3, <3>6 DEF Appends
    <3>8. dpHistory' \in Seq(Nat) /\ DpShown' /\ DpBounded' /\ ProductionMovesForward' /\ RollbackReturns'
      BY <3>7, HistoryGrows, Zenon
    <3>9. ServedIsWhole'
      BY <3>2, <3>3, <3>5 DEF ServedIsWhole
    <3> QED
      BY <3>4, <3>5, <3>6, <3>8, <3>9 DEF DpInv, DpTypes, DpNumbers
  <2>2. CASE ~good
    <3>1. /\ dpKind' = dpKind /\ dpHistory' = dpHistory /\ dpPrior' = dpPrior /\ dpActive' = dpActive
      BY <1>1, <2>2 DEF PublishInPlace, Upload, Written
    <3>2. DpBounded' /\ ProductionMovesForward' /\ RollbackReturns'
      BY <3>1, HistoryStands
    <3>3. DpNumbers'
      BY <1>1, <2>2, <3>1 DEF DpInv, DpTypes, DpNumbers, PublishInPlace, Upload, Written
    <3>4. dpStaging' \in [dir : [of : Nat, whole : BOOLEAN], open : BOOLEAN]
      BY <1>1, <2>2 DEF DpInv, DpTypes, DpNumbers, PublishInPlace, Upload, Written
    <3>5. dpDir'.of \in Nat
      BY <1>1, <2>2 DEF DpInv, DpTypes, DpNumbers, PublishInPlace, Upload, Written
    <3>6. DpShown' /\ ServedIsWhole'
      BY <1>1, <2>2, <3>1 DEF DpInv, DpTypes, DpNumbers, DpShown, ServedIsWhole, PublishInPlace, Upload, Written
    <3> QED
      BY <3>1, <3>2, <3>3, <3>4, <3>5, <3>6 DEF DpInv, DpTypes, DpNumbers
  <2> QED
    BY <2>1, <2>2
<1>2. ASSUME NEW good \in BOOLEAN, Deploy(good) PROVE DpInv'
  <2>1. CASE good
    <3>1. dpOpen' = TRUE /\ dpHistory' = Append(dpHistory, dpDir'.of) /\ dpDir' = Written(dpSeq', TRUE)
      BY <1>2, <2>1 DEF Deploy, RenderDeploy, Upload, Serves, Written
    <3>2. dpDir'.of = dpSeq' /\ dpDir'.whole
      BY <3>1 DEF Written
    <3>3. /\ dpKind' = dpKind /\ dpKind = "render"
         /\ dpPrior' = dpPrior
      BY <1>2, <2>1, <3>2 DEF Deploy, RenderDeploy, Upload
    <3>4. DpNumbers'
      BY <1>2, <2>1 DEF DpInv, DpTypes, DpNumbers, Deploy, RenderDeploy, Upload
    <3>5. dpStaging' = dpStaging /\ dpSeq' \in dpGood' /\ dpLast' = dpSeq'
      BY <1>2, <2>1 DEF Deploy, RenderDeploy, Upload
    <3>6. dpDir'.of \in Nat
      BY <1>2, <2>1, <3>2 DEF DpInv, DpTypes, DpNumbers, Deploy, RenderDeploy, Upload
    <3>7. Appends
      BY <3>1, <3>2, <3>3, <3>6 DEF Appends
    <3>8. dpHistory' \in Seq(Nat) /\ DpShown' /\ DpBounded' /\ ProductionMovesForward' /\ RollbackReturns'
      BY <3>7, HistoryGrows, Zenon
    <3>9. ServedIsWhole'
      BY <3>2, <3>3, <3>5 DEF ServedIsWhole
    <3> QED
      BY <3>4, <3>5, <3>6, <3>8, <3>9 DEF DpInv, DpTypes, DpNumbers
  <2>2. CASE ~good
    <3>1. /\ dpKind' = dpKind /\ dpHistory' = dpHistory /\ dpPrior' = dpPrior /\ dpActive' = dpActive
      BY <1>2, <2>2 DEF Deploy, RenderDeploy, Upload, Written
    <3>2. DpBounded' /\ ProductionMovesForward' /\ RollbackReturns'
      BY <3>1, HistoryStands
    <3>3. DpNumbers'
      BY <1>2, <2>2, <3>1 DEF DpInv, DpTypes, DpNumbers, Deploy, RenderDeploy, Upload, Written
    <3>4. dpStaging' \in [dir : [of : Nat, whole : BOOLEAN], open : BOOLEAN]
      BY <1>2, <2>2 DEF DpInv, DpTypes, DpNumbers, Deploy, RenderDeploy, Upload, Written
    <3>5. dpDir'.of \in Nat
      BY <1>2, <2>2 DEF DpInv, DpTypes, DpNumbers, Deploy, RenderDeploy, Upload, Written
    <3>6. DpShown' /\ ServedIsWhole'
      BY <1>2, <2>2, <3>1 DEF DpInv, DpTypes, DpNumbers, DpShown, ServedIsWhole, Deploy, RenderDeploy, Upload, Written
    <3> QED
      BY <3>1, <3>2, <3>3, <3>4, <3>5, <3>6 DEF DpInv, DpTypes, DpNumbers
  <2> QED
    BY <2>1, <2>2
<1>3. ASSUME NEW good \in BOOLEAN, UploadDraft(good) \/ Build(good) PROVE DpInv'
  <2>1. CASE UploadDraft(good)
    <3>1. /\ dpKind' = dpKind /\ dpHistory' = dpHistory /\ dpPrior' = dpPrior /\ dpActive' = dpActive
      BY <2>1 DEF UploadDraft, Upload
    <3>2. DpBounded' /\ ProductionMovesForward' /\ RollbackReturns'
      BY <3>1, HistoryStands
    <3>3. DpNumbers'
      BY <2>1, <3>1 DEF DpInv, DpTypes, DpNumbers, UploadDraft, Upload
    <3>4. dpStaging' \in [dir : [of : Nat, whole : BOOLEAN], open : BOOLEAN]
      BY <2>1 DEF DpInv, DpTypes, DpNumbers, UploadDraft, Upload
    <3>5. dpDir'.of \in Nat
      BY <2>1 DEF DpInv, DpTypes, DpNumbers, UploadDraft, Upload
    <3>6. DpShown' /\ ServedIsWhole'
      BY <2>1, <3>1 DEF DpInv, DpTypes, DpNumbers, DpShown, ServedIsWhole, UploadDraft, Upload
    <3> QED
      BY <3>1, <3>2, <3>3, <3>4, <3>5, <3>6 DEF DpInv, DpTypes, DpNumbers
  <2>2. CASE Build(good)
    <3>1. /\ dpKind' = dpKind /\ dpHistory' = dpHistory /\ dpPrior' = dpPrior /\ dpActive' = dpActive
      BY <2>2 DEF Build, Upload
    <3>2. DpBounded' /\ ProductionMovesForward' /\ RollbackReturns'
      BY <3>1, HistoryStands
    <3>3. DpNumbers'
      BY <2>2, <3>1 DEF DpInv, DpTypes, DpNumbers, Build, Upload
    <3>4. dpStaging' \in [dir : [of : Nat, whole : BOOLEAN], open : BOOLEAN]
      BY <2>2 DEF DpInv, DpTypes, DpNumbers, Build, Upload
    <3>5. dpDir'.of \in Nat
      BY <2>2 DEF DpInv, DpTypes, DpNumbers, Build, Upload
    <3>6. DpShown' /\ ServedIsWhole'
      BY <2>2, <3>1 DEF DpInv, DpTypes, DpNumbers, DpShown, ServedIsWhole, Build, Upload
    <3> QED
      BY <3>1, <3>2, <3>3, <3>4, <3>5, <3>6 DEF DpInv, DpTypes, DpNumbers
  <2> QED
    BY <1>3, <2>1, <2>2
<1>4. ASSUME NEW good \in BOOLEAN, Stage(good) PROVE DpInv'
  <2>1. /\ dpKind' = dpKind /\ dpHistory' = dpHistory /\ dpPrior' = dpPrior /\ dpActive' = dpActive
    BY <1>4 DEF Stage, Written, Upload
  <2>2. DpBounded' /\ ProductionMovesForward' /\ RollbackReturns'
    BY <2>1, HistoryStands
  <2>3. DpNumbers'
    BY <1>4, <2>1 DEF DpInv, DpTypes, DpNumbers, Stage, Written, Upload
  <2>4. dpStaging' \in [dir : [of : Nat, whole : BOOLEAN], open : BOOLEAN]
    BY <1>4 DEF DpInv, DpTypes, DpNumbers, Stage, Written, Upload
  <2>5. dpDir'.of \in Nat
    BY <1>4 DEF DpInv, DpTypes, DpNumbers, Stage, Written, Upload
  <2>6. DpShown' /\ ServedIsWhole'
    BY <1>4, <2>1 DEF DpInv, DpTypes, DpNumbers, DpShown, ServedIsWhole, Stage, Written, Upload
  <2> QED
    BY <2>1, <2>2, <2>3, <2>4, <2>5, <2>6 DEF DpInv, DpTypes, DpNumbers
<1>5. ASSUME NEW yes \in BOOLEAN, Decide(yes) PROVE DpInv'
  <2>1. /\ dpKind' = dpKind /\ dpHistory' = dpHistory /\ dpPrior' = dpPrior /\ dpActive' = dpActive
    BY <1>5 DEF Decide
  <2>2. DpBounded' /\ ProductionMovesForward' /\ RollbackReturns'
    BY <2>1, HistoryStands
  <2>3. DpNumbers'
    BY <1>5, <2>1 DEF DpInv, DpTypes, DpNumbers, Decide
  <2>4. dpStaging' \in [dir : [of : Nat, whole : BOOLEAN], open : BOOLEAN]
    BY <1>5 DEF DpInv, DpTypes, DpNumbers, Decide
  <2>5. dpDir'.of \in Nat
    BY <1>5 DEF DpInv, DpTypes, DpNumbers, Decide
  <2>6. DpShown' /\ ServedIsWhole'
    BY <1>5, <2>1 DEF DpInv, DpTypes, DpNumbers, DpShown, ServedIsWhole, Decide
  <2> QED
    BY <2>1, <2>2, <2>3, <2>4, <2>5, <2>6 DEF DpInv, DpTypes, DpNumbers
<1>6. CASE RedeployRead
  <2>1. /\ dpKind' = dpKind /\ dpHistory' = dpHistory /\ dpPrior' = dpPrior /\ dpActive' = dpActive
    BY <1>6 DEF RedeployRead
  <2>2. DpBounded' /\ ProductionMovesForward' /\ RollbackReturns'
    BY <2>1, HistoryStands
  <2>3. DpNumbers'
    BY <1>6, <2>1 DEF DpInv, DpTypes, DpNumbers, RedeployRead
  <2>4. dpStaging' \in [dir : [of : Nat, whole : BOOLEAN], open : BOOLEAN]
    BY <1>6 DEF DpInv, DpTypes, DpNumbers, RedeployRead
  <2>5. dpDir'.of \in Nat
    BY <1>6 DEF DpInv, DpTypes, DpNumbers, RedeployRead
  <2>6. DpShown' /\ ServedIsWhole'
    BY <1>6, <2>1 DEF DpInv, DpTypes, DpNumbers, DpShown, ServedIsWhole, RedeployRead
  <2> QED
    BY <2>1, <2>2, <2>3, <2>4, <2>5, <2>6 DEF DpInv, DpTypes, DpNumbers
<1>7. CASE RedeployPut
  <2>1. dpOpen' = TRUE /\ dpHistory' = Append(dpHistory, dpDir'.of) /\ dpDir' = Written(dpHeld, TRUE)
    BY <1>7 DEF RedeployPut, RenderDeploy, Upload, Serves, Written
  <2>2. dpDir'.of = dpHeld /\ dpDir'.whole
    BY <2>1 DEF Written
  <2>3. /\ dpKind' = dpKind /\ dpKind = "render"
       /\ dpPrior' = dpPrior
    BY <1>7, <2>2 DEF RedeployPut, RenderDeploy, Upload
  <2>4. DpNumbers'
    BY <1>7 DEF DpInv, DpTypes, DpNumbers, RedeployPut, RenderDeploy, Upload
  <2>5. dpStaging' = dpStaging /\ dpHeld \in dpGood' /\ dpLast' = dpHeld
    BY <1>7 DEF RedeployPut, RenderDeploy, Upload
  <2>6. dpDir'.of \in Nat
    BY <1>7, <2>2 DEF DpInv, DpTypes, DpNumbers, RedeployPut, RenderDeploy, Upload
  <2>7. Appends
    BY <2>1, <2>2, <2>3, <2>6 DEF Appends
  <2>8. dpHistory' \in Seq(Nat) /\ DpShown' /\ DpBounded' /\ ProductionMovesForward' /\ RollbackReturns'
    BY <2>7, HistoryGrows, Zenon
  <2>9. ServedIsWhole'
    BY <2>2, <2>3, <2>5 DEF ServedIsWhole
  <2> QED
    BY <2>4, <2>5, <2>6, <2>8, <2>9 DEF DpInv, DpTypes, DpNumbers
<1>8. CASE Promote
  <2>1. dpOpen' = TRUE /\ dpHistory' = Append(dpHistory, dpDir'.of) /\ dpDir' = dpStaging.dir
    BY <1>8 DEF Promote, Serves
  <2>2. dpDir'.of = dpStaging.dir.of
    BY <2>1 DEF Written
  <2>3. /\ dpKind' = dpKind /\ dpKind = "gcpdeploy"
       /\ (~dpOpen => dpPrior' = dpPrior) /\ (dpOpen => dpPrior' = dpDir.of)
    BY <1>8, <2>2 DEF Promote
  <2>4. DpNumbers'
    BY <1>8 DEF DpInv, DpTypes, DpNumbers, Promote
  <2>5. dpStaging' = dpStaging
    BY <1>8 DEF Promote
  <2>6. dpDir'.of \in Nat
    BY <1>8, <2>2 DEF DpInv, DpTypes, DpNumbers, Promote
  <2>7. Appends
    BY <2>1, <2>2, <2>3, <2>6 DEF Appends
  <2>8. dpHistory' \in Seq(Nat) /\ DpShown' /\ DpBounded' /\ ProductionMovesForward' /\ RollbackReturns'
    BY <2>7, HistoryGrows, Zenon
  <2>9. ServedIsWhole'
    BY <2>2, <2>3, <2>5 DEF ServedIsWhole
  <2> QED
    BY <2>4, <2>5, <2>6, <2>8, <2>9 DEF DpInv, DpTypes, DpNumbers
<1>9. CASE Rollback
  <2>1. dpOpen' = TRUE /\ dpHistory' = Append(dpHistory, dpDir'.of) /\ dpDir' = Written(dpPrior, TRUE)
    BY <1>9 DEF Rollback, Serves, Written
  <2>2. dpDir'.of = dpPrior /\ dpDir'.whole
    BY <2>1 DEF Written
  <2>3. /\ dpKind' = dpKind /\ dpKind = "gcpdeploy"
       /\ dpPrior' = dpPrior
    BY <1>9, <2>2 DEF Rollback
  <2>4. DpNumbers'
    BY <1>9 DEF DpInv, DpTypes, DpNumbers, Rollback
  <2>5. dpStaging' = dpStaging
    BY <1>9 DEF Rollback
  <2>6. dpDir'.of \in Nat
    BY <1>9, <2>2 DEF DpInv, DpTypes, DpNumbers, Rollback
  <2>7. Appends
    BY <2>1, <2>2, <2>3, <2>6 DEF Appends
  <2>8. dpHistory' \in Seq(Nat) /\ DpShown' /\ DpBounded' /\ ProductionMovesForward' /\ RollbackReturns'
    BY <2>7, HistoryGrows, Zenon
  <2>9. ServedIsWhole'
    BY <2>2, <2>3, <2>5 DEF ServedIsWhole
  <2> QED
    BY <2>4, <2>5, <2>6, <2>8, <2>9 DEF DpInv, DpTypes, DpNumbers
<1>10. CASE CloseSites
  <2>1. /\ dpKind' = dpKind /\ dpHistory' = dpHistory /\ dpPrior' = dpPrior /\ dpActive' = dpActive
    BY <1>10 DEF CloseSites
  <2>2. DpBounded' /\ ProductionMovesForward' /\ RollbackReturns'
    BY <2>1, HistoryStands
  <2>3. DpNumbers'
    BY <1>10, <2>1 DEF DpInv, DpTypes, DpNumbers, CloseSites
  <2>4. dpStaging' \in [dir : [of : Nat, whole : BOOLEAN], open : BOOLEAN]
    BY <1>10 DEF DpInv, DpTypes, DpNumbers, CloseSites
  <2>5. dpDir'.of \in Nat
    BY <1>10 DEF DpInv, DpTypes, DpNumbers, CloseSites
  <2>6. DpShown' /\ ServedIsWhole'
    BY <1>10, <2>1 DEF DpInv, DpTypes, DpNumbers, DpShown, ServedIsWhole, CloseSites
  <2> QED
    BY <2>1, <2>2, <2>3, <2>4, <2>5, <2>6 DEF DpInv, DpTypes, DpNumbers
<1>11. ASSUME NEW e \in 1 .. DpMaxDeploys, Publish(e) PROVE DpInv'
  <2>1. dpOpen' = TRUE /\ dpHistory' = Append(dpHistory, dpDir'.of) /\ dpDir' = Written(e, TRUE)
    BY <1>11 DEF Publish, Serves, Written
  <2>2. dpDir'.of = e /\ dpDir'.whole
    BY <2>1 DEF Written
  <2>3. /\ dpKind' = dpKind /\ dpKind = "netlify"
       /\ dpPrior' = dpPrior
    BY <1>11, <2>2 DEF Publish
  <2>4. DpNumbers'
    BY <1>11 DEF DpInv, DpTypes, DpNumbers, Publish
  <2>5. dpStaging' = dpStaging /\ e \in dpGood'
    BY <1>11 DEF Publish
  <2>6. dpDir'.of \in Nat
    BY <1>11, <2>2 DEF DpInv, DpTypes, DpNumbers, Publish
  <2>7. Appends
    BY <2>1, <2>2, <2>3, <2>6 DEF Appends
  <2>8. dpHistory' \in Seq(Nat) /\ DpShown' /\ DpBounded' /\ ProductionMovesForward' /\ RollbackReturns'
    BY <2>7, HistoryGrows, Zenon
  <2>9. ServedIsWhole'
    BY <2>2, <2>3, <2>5 DEF ServedIsWhole
  <2> QED
    BY <2>4, <2>5, <2>6, <2>8, <2>9 DEF DpInv, DpTypes, DpNumbers
<1>12. ASSUME NEW e \in 1 .. DpMaxDeploys, Activate(e) PROVE DpInv'
  <2>1. dpOpen' = TRUE /\ dpHistory' = Append(dpHistory, dpDir'.of) /\ dpDir' = Written(e, TRUE)
    BY <1>12 DEF Activate, Serves, Written
  <2>2. dpDir'.of = e /\ dpDir'.whole
    BY <2>1 DEF Written
  <2>3. /\ dpKind' = dpKind /\ dpKind = "cfbuilds"
       /\ dpPrior' = dpPrior /\ dpActive' = e /\ e >= dpActive
    BY <1>12, <2>2 DEF Activate
  <2>4. DpNumbers'
    BY <1>12 DEF DpInv, DpTypes, DpNumbers, Activate
  <2>5. dpStaging' = dpStaging /\ e \in dpGood'
    BY <1>12 DEF Activate
  <2>6. dpDir'.of \in Nat
    BY <1>12, <2>2 DEF DpInv, DpTypes, DpNumbers, Activate
  <2>7. Appends
    BY <2>1, <2>2, <2>3, <2>6 DEF Appends
  <2>8. dpHistory' \in Seq(Nat) /\ DpShown' /\ DpBounded' /\ ProductionMovesForward' /\ RollbackReturns'
    BY <2>7, HistoryGrows, Zenon
  <2>9. ServedIsWhole'
    BY <2>2, <2>3, <2>5 DEF ServedIsWhole
  <2> QED
    BY <2>4, <2>5, <2>6, <2>8, <2>9 DEF DpInv, DpTypes, DpNumbers
<1>13. CASE UNCHANGED dpvars
  <2>1. /\ dpKind' = dpKind /\ dpHistory' = dpHistory /\ dpPrior' = dpPrior /\ dpActive' = dpActive
    BY <1>13 DEF dpvars
  <2>2. DpBounded' /\ ProductionMovesForward' /\ RollbackReturns'
    BY <2>1, HistoryStands
  <2>3. DpNumbers'
    BY <1>13, <2>1 DEF DpInv, DpTypes, DpNumbers, dpvars
  <2>4. dpStaging' \in [dir : [of : Nat, whole : BOOLEAN], open : BOOLEAN]
    BY <1>13 DEF DpInv, DpTypes, DpNumbers, dpvars
  <2>5. dpDir'.of \in Nat
    BY <1>13 DEF DpInv, DpTypes, DpNumbers, dpvars
  <2>6. DpShown' /\ ServedIsWhole'
    BY <1>13, <2>1 DEF DpInv, DpTypes, DpNumbers, DpShown, ServedIsWhole, dpvars
  <2> QED
    BY <2>1, <2>2, <2>3, <2>4, <2>5, <2>6 DEF DpInv, DpTypes, DpNumbers
<1> QED
  BY <1>1, <1>2, <1>3, <1>4, <1>5, <1>6, <1>7, <1>8, <1>9, <1>10, <1>11, <1>12, <1>13 DEF DpNext

\* What a host serves is the whole of one good upload, a Worker's production
\* never goes back, and a rollback returns to what was served before
\* (delivery/*.go, cfpages.go, cfbuilds.go, gcpdeploy.go).
THEOREM DeploysAreWhole == DpSpec => [](ServedIsWhole /\ ProductionMovesForward /\ RollbackReturns)
<1>1. DpInit => DpInv
  BY DEF DpInit, DpInv, DpTypes, DpNumbers, DpShown, DpBounded, Empty, ServedIsWhole,
         ProductionMovesForward, RollbackReturns
<1>2. DpInv => ServedIsWhole /\ ProductionMovesForward /\ RollbackReturns
  BY DEF DpInv
<1> QED
  BY <1>1, <1>2, DpStep, PTL DEF DpSpec

\* The three parts together, as the runs state them.
THEOREM BackendsAreSound == ChSpec /\ XbSpec /\ DpSpec => []BackendsHold
<1>1. /\ NoOrphans
      /\ EntriesLastTheirTime /\ DescribedIsServed /\ BoundBeforeUse
      /\ ServedIsWhole /\ ProductionMovesForward /\ RollbackReturns
      => BackendsHold
  BY DEF BackendsHold
<1> QED
  BY <1>1, ChildrenAreReaped, EntriesAndBindings, DeploysAreWhole, PTL
=============================================================================
