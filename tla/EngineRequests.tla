--------------------------- MODULE EngineRequests ----------------------------
(***************************************************************************)
(* Requests to one engine at the same time (engine/engine.go Invoke,       *)
(* batch.go, after.go, effects.go runDedup and completeDedup, eval.go      *)
(* nextCounter).  An entry is what one operation is asked for:             *)
(*   kind "create": refused when the name exists; "delete": when it does   *)
(*   not; "send": stored under a fresh name; token: its deduplication key  *)
(*   ("" for none); bad: a required member is missing.                     *)
(* A batch delegates its entries one by one through Invoke and holds no    *)
(* lock of its own.                                                        *)
(***************************************************************************)
EXTENDS Integers, Sequences, FiniteSets

CONSTANTS
  ErRequests,   \* the requests: a function from their names to [batch, entries]
  ErTimed       \* names whose record has a timer that has run out at first

VARIABLE er
ervars == <<er>>

\* er.rec: the stored names; er.counter; er.dedup: token -> the answer
\* remembered (Unanswered until the operation completes it), "lapsed" or "none".
\* er.at[r]: one request's pc, entry index, what it read, its rows and writes.
Requests == DOMAIN ErRequests
Entries(r) == ErRequests[r].entries
Tokens == UNION {{Entries(r)[i].token : i \in DOMAIN Entries(r)} : r \in Requests} \ {""}
Unanswered == 0
None == -1
Lapsed == -2
Entry(r) == Entries(r)[er.at[r].i]
Own(r) == er.at[r].pc

Upd(r, fs) == [er.at EXCEPT ![r] = [f \in DOMAIN @ |-> IF f \in DOMAIN fs THEN fs[f] ELSE @[f]]]

(***************************************************************************)
(* One delegated or direct Invoke ends: a row of the batch, or the answer. *)
(* A fault is a row; any other error ends the batch.                       *)
(***************************************************************************)

Rows(r, row) ==
  Upd(r, [pc |-> IF ErRequests[r].batch /\ er.at[r].i < Len(Entries(r)) /\ row.code # "error"
      THEN "ask" ELSE "answered",
          i |-> er.at[r].i + 1, rows |-> Append(er.at[r].rows, row), wrote |-> {}])

Row(r, code, seq) == [code |-> code, seq |-> seq, wrote |-> er.at[r].wrote,
    token |-> Entry(r).token, life |-> er.life]

\* Mistake: the lock is kept when the operation is refused.
LockAfterRefusal == er.lock

\* The deferred unlock.
Unlocked == "free"

Refuse(r, code) == er' = [er EXCEPT !.at = Rows(r, Row(r, code, None)), !.lock = Unlocked]

\* Mistake: the engine has no mutex.
NoLock == TRUE

LockFree == er.lock = "free"

\* invoke: the mutex, then the reads.
Ask(r) ==
  /\ Own(r) = "ask" /\ LockFree
  /\ er' = [er EXCEPT !.lock = r, !.at = Upd(r, [pc |-> "read"])]

\* resolveReads settles a record whose timer has run out and writes it back.
Read(r) ==
  /\ Own(r) = "read"
  /\ LET n == Entry(r).name
         settles == n \in er.rec /\ n \in er.timed
     IN er' = [er EXCEPT !.timed = @ \ {n},
                         !.at = Upd(r, [pc |-> "require", found |-> n \in er.rec,
                                        wrote |-> IF settles THEN {"settle"} ELSE {}])]

\* checkRequires, and the input fault that was held until they passed.
Require(r) ==
  /\ Own(r) = "require"
  /\ LET e == Entry(r)
     IN IF e.kind = "create" /\ er.at[r].found THEN Refuse(r, "Conflict")
        ELSE IF e.kind = "delete" /\ ~er.at[r].found THEN Refuse(r, "NotFound")
        ELSE IF e.bad THEN Refuse(r, "MissingInput")
        ELSE er' = [er EXCEPT !.at = Upd(r, [pc |-> IF e.kind = "delete" THEN "delete" ELSE "dedup"])]

\* runDedup: a duplicate inside the window is answered with what is
\* remembered, and nothing behind it runs.
Dedup(r) ==
  /\ Own(r) = "dedup"
  /\ LET t == Entry(r).token
     IN IF t = "" THEN er' = [er EXCEPT !.at = Upd(r, [pc |-> "counter"])]
        ELSE IF er.dedup[t] >= Unanswered
        THEN er' = [er EXCEPT !.at = Rows(r, Row(r, "ok", er.dedup[t])), !.lock = Unlocked]
        ELSE er' = [er EXCEPT !.dedup[t] = Unanswered, !.at = Upd(r, [pc |-> "counter",
            wrote |-> @[r].wrote \union {"dedup"}])]

\* nextCounter: a read, then a write.
CounterRead(r) ==
  /\ Own(r) = "counter"
  /\ er' = [er EXCEPT !.at = Upd(r, [pc |-> "count", seq |-> er.counter + 1])]

CounterNext(r) == er.at[r].seq

CounterWrite(r) ==
  /\ Own(r) = "count"
  /\ er' = [er EXCEPT !.counter = CounterNext(r), !.at = Upd(r, [pc |-> "write",
       wrote |-> @[r].wrote \union {"counter"}])]

\* The write itself; an effect that fails leaves what ran before it.
Write(r) ==
  /\ Own(r) = "write"
  /\ LET n == Entry(r).name
     IN er' = [er EXCEPT !.over = @ \/ (Entry(r).kind = "create" /\ n \in er.rec),
                         !.rec = IF Entry(r).kind = "create" THEN @ \union {n} ELSE @,
                         !.at = Upd(r, [pc |-> "complete", wrote |-> @[r].wrote \union {"rec"}])]
DeleteRow(r) ==
  /\ Own(r) = "delete"
  /\ er' = [er EXCEPT !.rec = @ \ {Entry(r).name}, !.at = Upd(r, [pc |-> "complete",
       wrote |-> @[r].wrote \union {"rec"}])]
EffectFails(r) ==
  /\ Own(r) \in {"write", "delete"}
  /\ er' = [er EXCEPT !.at = Rows(r, Row(r, "error", None)), !.lock = Unlocked, !.halves = @ \union
       {Entry(r).token}]

\* completeDedup.
Remembers(r) ==
  [t \in Tokens |-> IF t = Entry(r).token /\ "dedup" \in er.at[r].wrote THEN er.at[r].seq ELSE er.dedup[t]]

\* The answer is projected, the entry completed and the lock released.
Complete(r) ==
  /\ Own(r) = "complete"
  /\ er' = [er EXCEPT !.dedup = Remembers(r), !.lock = Unlocked, !.at = Upd(r, [pc |-> "hook"])]

\* runAfterInvoke: a hook that fails, fails a request that has committed.
Hook(r) ==
  /\ Own(r) = "hook"
  /\ \E code \in {"ok", "error"} : er' = [er EXCEPT !.at = Rows(r, Row(r, code, er.at[r].seq))]

\* A token leaves its window.
Lapse(t) ==
  /\ er.dedup[t] > Unanswered /\ er.life = 0
  /\ er' = [er EXCEPT !.dedup[t] = Lapsed, !.life = 1]

ErInit == er =
  [rec |-> ErTimed, timed |-> ErTimed, counter |-> 0, dedup |-> [t \in Tokens |-> None], lock |-> "free",
   over |-> FALSE, halves |-> {}, life |-> 0,
   at |-> [r \in Requests |-> [pc |-> "ask", i |-> 1, found |-> FALSE, seq |-> None, rows |-> <<>>,
       wrote |-> {}]]]
ErStep(r) ==
  \/ Ask(r) \/ Read(r) \/ Require(r) \/ Dedup(r) \/ CounterRead(r) \/ CounterWrite(r)
  \/ Write(r) \/ DeleteRow(r) \/ EffectFails(r) \/ Complete(r) \/ Hook(r)
ErNext == (\E r \in Requests : ErStep(r)) \/ (\E t \in Tokens : Lapse(t))

(***************************************************************************)
(* Properties                                                              *)
(***************************************************************************)
AllRows == UNION {{<<r, i>> : i \in DOMAIN er.at[r].rows} : r \in Requests}
RowOf(x) == er.at[x[1]].rows[x[2]]

\* A create is refused or makes a record that was not there: of two requests
\* that create one name at once, whole batches included, one wins.
CreatesNeverOverwrite == ~er.over

\* The numbers two requests draw from one counter differ.
NumbersAreDistinct ==
  \A x, y \in AllRows :
    x # y /\ "counter" \in RowOf(x).wrote /\ "counter" \in RowOf(y).wrote /\ RowOf(x).code = "ok" /\ RowOf(y).code = "ok"
      => RowOf(x).seq # RowOf(y).seq

\* A request refused by a rule or for a missing member has written nothing
\* (but the timers its reads settled).
RefusedWritesNothing ==
  \A x \in AllRows : RowOf(x).code \notin {"ok", "error"} => RowOf(x).wrote \subseteq {"settle"}

\* Duplicates inside the window get the first one's answer, unless an effect
\* of the first one failed: its key stays remembered with no answer.
DuplicatesAnswerAlike ==
  \A x, y \in AllRows :
    /\ RowOf(x).token = RowOf(y).token /\ RowOf(x).token # "" /\ RowOf(x).token \notin er.halves
    /\ RowOf(x).code = "ok" /\ RowOf(y).code = "ok" /\ RowOf(x).life = 0 /\ RowOf(y).life = 0
    => RowOf(x).seq = RowOf(y).seq

\* A batch answers for each of its entries, refused ones included, unless an
\* error that is no fault ended it.
BatchesAnswerEveryEntry ==
  \A r \in Requests : Own(r) = "answered" =>
    \/ Len(er.at[r].rows) = Len(Entries(r))
    \/ er.at[r].rows[Len(er.at[r].rows)].code = "error"

\* Every request is answered: whichever way it ends, it lets the next one in.
RequestsAreAnswered == \A r \in Requests : Own(r) \notin {"ask", "answered"} ~> Own(r) = "answered"
=============================================================================
