--------------------------- MODULE CicdLifecycle ---------------------------
(***************************************************************************)
(* Durable CI/CD run admission and fencing: the in-memory lifecycle store  *)
(* (internal/execution/cicd/lifecycle).  Submitters admit a run, workers   *)
(* lease its dispatch intent and complete or cancel its attempt; every     *)
(* method holds the store mutex, so each is one atomic action.             *)
(*                                                                         *)
(* An identifier "prefix-n" is the number n: the prefix only says which    *)
(* table it belongs to.  Fields no method reads back (scope, profile,      *)
(* digests, log references) are left out.                                  *)
(***************************************************************************)
EXTENDS Integers, FiniteSets

CONSTANTS
  SubmissionKeys,          \* submission keys callers use (all non-empty)
  Fingerprints,  \* request fingerprints
  Generations,   \* generations a caller may name itself
  Owners,        \* workers that lease intents, one owner name each
  Outcomes,      \* outcomes a worker reports in a receipt
  AssignedByStore, \* a request that leaves Generation empty: the store assigns one
  NoOwner,       \* the owner of no lease
  MaxAdmits,     \* bound: runs admitted
  MaxTime        \* bound: instants the wall clock reaches

ASSUME BoundsAreNatural == MaxAdmits \in Nat /\ MaxTime \in Nat

Cancelled == "cancelled"

ASSUME NamesAreApart ==
  /\ AssignedByStore \notin Generations \cup Nat
  /\ NoOwner \notin Owners
  /\ Generations \cap Nat = {}

VARIABLES
  seq,       \* MemoryStore.seq
  byKey,     \* SubmissionKey -> intent id, for the keys admitted
  runs,      \* run id -> Run
  attempts,  \* attempt id -> Attempt
  intents,   \* intent id -> DispatchIntent
  receipts,  \* attempt id -> ExecutionReceipt
  now,       \* what MemoryStore.now answers
  answers,   \* history: the triples Admit has answered callers with
  belief     \* owner -> intent id -> lease expiry it was last granted

store == <<seq, byKey, runs, attempts, intents, receipts>>
lifecycleVars == <<seq, byKey, runs, attempts, intents, receipts, now, answers, belief>>

-----------------------------------------------------------------------------
(* Records. *)

Generation == Generations \cup Nat
NoLease == [Owner |-> NoOwner, Expiry |-> 0]
Lease == [Owner : Owners \cup {NoOwner}, Expiry : Nat]
DeliveryState == {"pending", "leased", "acked"}

Run == [CurrentAttempt : Nat, NativeStatus : {"accepted", "terminal"},
        SubmissionKey : SubmissionKeys, Fingerprint : Fingerprints, Generation : Generation]
Attempt == [RunID : Nat, Generation : Generation, SubmissionKey : SubmissionKeys,
            Fingerprint : Fingerprints, Terminal : BOOLEAN, CancelRequested : BOOLEAN]
DispatchIntent == [AttemptID : Nat, ExpectedGeneration : Generation,
                   DeliveryState : DeliveryState, Lease : Lease,
                   SubmissionKey : SubmissionKeys, Fingerprint : Fingerprints]
ExecutionReceipt == [Generation : Generation, Outcome : Outcomes \cup {Cancelled}]

\* A table with one row added or replaced.
PutRow(table, id, row) == [i \in DOMAIN table \cup {id} |-> IF i = id THEN row ELSE table[i]]

EmptyTable == [i \in {} |-> i]

-----------------------------------------------------------------------------

LifecycleInit ==
  /\ seq = 0
  /\ byKey = EmptyTable
  /\ runs = EmptyTable
  /\ attempts = EmptyTable
  /\ intents = EmptyTable
  /\ receipts = EmptyTable
  /\ now = 0
  /\ answers = {}
  /\ belief = [w \in Owners |-> EmptyTable]

\* Admit on a key already admitted: the existing triple when the fingerprint
\* matches, ErrConflict (no change at all) when it does not.
AdmitExisting(key, fp) ==
  /\ key \in DOMAIN byKey
  /\ intents[byKey[key]].Fingerprint = fp
  /\ answers' = answers \cup {[key |-> key, fp |-> fp, intent |-> byKey[key]]}
  /\ UNCHANGED <<store, now, belief>>

\* nextID("gen") is called only when the caller named no generation.
GenerationFor(gen) == IF gen = AssignedByStore THEN seq + 1 ELSE gen

\* The sequence number after the generation is settled.
SeqAfterGeneration(gen) == IF gen = AssignedByStore THEN seq + 1 ELSE seq

\* Mistake: Admit looks the key up before it takes the lock.
KeyUncheckedUnderLock(key) == TRUE
KeyIsNew(key) == key \notin DOMAIN byKey

\* nextID advances the sequence; the run, the attempt and the intent take the
\* next three numbers.
SeqAfterAdmit(first) == first + 3

\* Admit on a new key: the run, the attempt and the intent, in one step.
AdmitNew(key, fp, gen) ==
  /\ KeyIsNew(key)
  /\ LET first == SeqAfterGeneration(gen)
         g == GenerationFor(gen)
         runID == first + 1
         attemptID == first + 2
         intentID == first + 3
     IN /\ seq' = SeqAfterAdmit(first)
        /\ runs' = PutRow(runs, runID,
             [CurrentAttempt |-> attemptID, NativeStatus |-> "accepted",
              SubmissionKey |-> key, Fingerprint |-> fp, Generation |-> g])
        /\ attempts' = PutRow(attempts, attemptID,
             [RunID |-> runID, Generation |-> g, SubmissionKey |-> key,
              Fingerprint |-> fp, Terminal |-> FALSE, CancelRequested |-> FALSE])
        /\ intents' = PutRow(intents, intentID,
             [AttemptID |-> attemptID, ExpectedGeneration |-> g,
              DeliveryState |-> "pending", Lease |-> NoLease,
              SubmissionKey |-> key, Fingerprint |-> fp])
        /\ byKey' = PutRow(byKey, key, intentID)
        /\ answers' = answers \cup {[key |-> key, fp |-> fp, intent |-> intentID]}
  /\ UNCHANGED <<receipts, now, belief>>

\* A lease another worker still holds: unexpired at this instant.
HeldByAnother(intent, owner) ==
  /\ intent.Lease.Owner # NoOwner
  /\ intent.Lease.Expiry > now
  /\ intent.Lease.Owner # owner

\* TryAcquireLease: granted when free, expired, or already the caller's.
\* Whether the attempt is terminal is not asked.
TryAcquireLease(intentID, owner, expiry) ==
  /\ intentID \in DOMAIN intents
  /\ ~ HeldByAnother(intents[intentID], owner)
  /\ intents' = [intents EXCEPT ![intentID].Lease = [Owner |-> owner, Expiry |-> expiry],
                                ![intentID].DeliveryState = "leased"]
  /\ belief' = [belief EXCEPT ![owner] = PutRow(@, intentID, expiry)]
  /\ UNCHANGED <<seq, byKey, runs, attempts, receipts, now, answers>>

\* markTerminalLocked: the run is terminal, every intent of the attempt acked
\* and its lease dropped.
MarkTerminal(attemptID) ==
  /\ runs' = [r \in DOMAIN runs |->
       IF r = attempts[attemptID].RunID
       THEN [runs[r] EXCEPT !.NativeStatus = "terminal"] ELSE runs[r]]
  /\ intents' = [i \in DOMAIN intents |->
       IF intents[i].AttemptID = attemptID
       THEN [intents[i] EXCEPT !.DeliveryState = "acked", !.Lease = NoLease]
       ELSE intents[i]]

\* Mistakes: the generation, or the terminal flag, is not asked for.
FencedAnyGeneration(attemptID, gen) ==
  /\ attemptID \in DOMAIN attempts
  /\ ~ attempts[attemptID].Terminal
FencedEvenTerminal(attemptID, gen) ==
  /\ attemptID \in DOMAIN attempts
  /\ attempts[attemptID].Generation = gen

\* The fence both terminal writers pass: the attempt exists, is not terminal
\* and is of the caller's generation.
Fenced(attemptID, gen) ==
  /\ attemptID \in DOMAIN attempts
  /\ ~ attempts[attemptID].Terminal
  /\ attempts[attemptID].Generation = gen

CompleteAttempt(attemptID, gen, outcome) ==
  /\ Fenced(attemptID, gen)
  /\ attempts' = [attempts EXCEPT ![attemptID].Terminal = TRUE]
  /\ receipts' = PutRow(receipts, attemptID, [Generation |-> gen, Outcome |-> outcome])
  /\ MarkTerminal(attemptID)
  /\ UNCHANGED <<seq, byKey, now, answers, belief>>

CancelAttempt(attemptID, gen) ==
  /\ Fenced(attemptID, gen)
  /\ attempts' = [attempts EXCEPT ![attemptID].Terminal = TRUE,
                                  ![attemptID].CancelRequested = TRUE]
  /\ receipts' = PutRow(receipts, attemptID, [Generation |-> gen, Outcome |-> Cancelled])
  /\ MarkTerminal(attemptID)
  /\ UNCHANGED <<seq, byKey, now, answers, belief>>

\* The wall clock moves between two calls.
Tick ==
  /\ now < MaxTime
  /\ now' = now + 1
  /\ UNCHANGED <<store, answers, belief>>

\* Bound: the intents created so far.
Admitted == Cardinality(DOMAIN intents)

LifecycleNext ==
  \/ \E key \in SubmissionKeys, fp \in Fingerprints :
       \/ AdmitExisting(key, fp)
       \/ \E gen \in Generations \cup {AssignedByStore} :
            Admitted < MaxAdmits /\ AdmitNew(key, fp, gen)
  \/ \E i \in DOMAIN intents, w \in Owners, e \in 0 .. MaxTime :
       TryAcquireLease(i, w, e)
  \/ \E a \in DOMAIN attempts, g \in Generations \cup 1 .. seq :
       \/ \E o \in Outcomes : CompleteAttempt(a, g, o)
       \/ CancelAttempt(a, g)
  \/ Tick

LifecycleSpec == LifecycleInit /\ [][LifecycleNext]_lifecycleVars

-----------------------------------------------------------------------------
(* Properties. *)

LifecycleTypeOK ==
  /\ seq \in Nat
  /\ DOMAIN byKey \subseteq SubmissionKeys /\ \A k \in DOMAIN byKey : byKey[k] \in Nat
  /\ DOMAIN runs \subseteq Nat /\ \A r \in DOMAIN runs : runs[r] \in Run
  /\ DOMAIN attempts \subseteq Nat /\ \A a \in DOMAIN attempts : attempts[a] \in Attempt
  /\ DOMAIN intents \subseteq Nat /\ \A i \in DOMAIN intents : intents[i] \in DispatchIntent
  /\ DOMAIN receipts \subseteq Nat
  /\ \A a \in DOMAIN receipts : receipts[a] \in ExecutionReceipt
  /\ now \in Nat
  /\ answers \subseteq [key : SubmissionKeys, fp : Fingerprints, intent : Nat]
  /\ DOMAIN belief = Owners
  /\ \A w \in Owners : DOMAIN belief[w] \subseteq Nat
                       /\ \A i \in DOMAIN belief[w] : belief[w][i] \in Nat

\* Admit is idempotent per submission key: however many submitters race on a
\* key, all that are answered hold the same intent and the same fingerprint.
OneIntentPerKey ==
  \A x, y \in answers : x.key = y.key => x = y

\* The three records Admit writes stay one triple: from a key one reaches its
\* intent, that intent's attempt and that attempt's run, and they agree on the
\* key, the fingerprint and the generation that fences delivery.
TripleAgrees ==
  \A k \in DOMAIN byKey :
    /\ byKey[k] \in DOMAIN intents
    /\ LET i == intents[byKey[k]]
       IN /\ i.SubmissionKey = k
          /\ i.AttemptID \in DOMAIN attempts
          /\ LET a == attempts[i.AttemptID]
             IN /\ a.SubmissionKey = k
                /\ a.Fingerprint = i.Fingerprint
                /\ a.Generation = i.ExpectedGeneration
                /\ a.RunID \in DOMAIN runs
                /\ runs[a.RunID].CurrentAttempt = i.AttemptID
                /\ runs[a.RunID].Generation = a.Generation

\* Terminal evidence: an attempt has a receipt exactly when it is terminal, the
\* receipt carries the attempt's generation, its run is terminal with it, and a
\* cancelled attempt never carries a worker's outcome.
TerminalHasReceipt ==
  /\ DOMAIN receipts \subseteq DOMAIN attempts
  /\ \A a \in DOMAIN attempts :
       /\ attempts[a].Terminal <=> a \in DOMAIN receipts
       /\ attempts[a].RunID \in DOMAIN runs
       /\ attempts[a].Terminal <=> runs[attempts[a].RunID].NativeStatus = "terminal"
       /\ a \in DOMAIN receipts =>
            /\ receipts[a].Generation = attempts[a].Generation
            /\ attempts[a].CancelRequested => receipts[a].Outcome = Cancelled

\* Fencing: while an attempt is open, two workers never both hold a lease on
\* its intent that has not expired yet.
LeaseExclusive ==
  \A v, w \in Owners, i \in DOMAIN intents :
    /\ v # w
    /\ ~ attempts[intents[i].AttemptID].Terminal
    /\ i \in DOMAIN belief[v] /\ i \in DOMAIN belief[w]
    => ~ (belief[v][i] > now /\ belief[w][i] > now)

TerminalRowsKept ==
  \A a \in DOMAIN attempts :
    attempts[a].Terminal =>
      /\ a \in DOMAIN attempts' /\ attempts'[a] = attempts[a]
      /\ a \in DOMAIN receipts' /\ receipts'[a] = receipts[a]

\* One terminal writer: of a completion and a cancellation that race, the
\* first decides; a terminal attempt and its receipt never change again.
TerminalIsFinal == [][TerminalRowsKept]_lifecycleVars

\* Admit and TryAcquireLease: one submission key has one run however many
\* submitters race, its run, submission and attempt agree, and two workers
\* never hold one attempt at once.
RunsAreExclusive == LifecycleTypeOK /\ OneIntentPerKey /\ TripleAgrees /\ LeaseExclusive
=============================================================================
