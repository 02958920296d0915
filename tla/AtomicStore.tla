----------------------------- MODULE AtomicStore -----------------------------
(***************************************************************************)
(* What the store promises (internal/spi: "ScopeTx is an atomic mutation   *)
(* spanning collections in one account and region"): a transaction works   *)
(* on a draft of its scope that nobody else sees, Commit publishes it      *)
(* whole, Abort throws it away.  Reads and snapshots see committed         *)
(* contents only, and need not wait for a transaction.                     *)
(***************************************************************************)
CONSTANTS Scopes, Keys, Values, NoValue, NoScope, Clients, NoClient

VARIABLES
  committed,  \* scope -> its table, or NoScope before its first write
  holder,     \* the client in a transaction, or NoClient
  scope,      \* the scope of the transaction
  draft,      \* its private copy of the scope's table
  seen,       \* client -> answer of its last read
  saved       \* the contents of the last snapshot

vars == <<committed, holder, scope, draft, seen, saved>>

Lookup(t, k) == IF t = NoScope THEN NoValue ELSE t[k]
Assign(t, k, v) == [IF t = NoScope THEN [j \in Keys |-> NoValue] ELSE t EXCEPT ![k] = v]

Init ==
  /\ committed = [s \in Scopes |-> NoScope] /\ saved = committed
  /\ holder = NoClient /\ scope = NoScope /\ draft = NoScope
  /\ seen = [c \in Clients |-> NoValue]

Read(c, s, k) ==
  /\ seen' = [seen EXCEPT ![c] = Lookup(committed[s], k)]
  /\ UNCHANGED <<committed, holder, scope, draft, saved>>

Mutate(s, k, v) ==
  /\ holder = NoClient
  /\ committed' = [committed EXCEPT ![s] = Assign(@, k, v)]
  /\ UNCHANGED <<holder, scope, draft, seen, saved>>

Begin(c, s) ==
  /\ holder = NoClient
  /\ holder' = c /\ scope' = s /\ draft' = committed[s]
  /\ UNCHANGED <<committed, seen, saved>>

ReadDraft(k) ==
  /\ holder # NoClient
  /\ seen' = [seen EXCEPT ![holder] = Lookup(draft, k)]
  /\ UNCHANGED <<committed, holder, scope, draft, saved>>

MutateDraft(k, v) ==
  /\ holder # NoClient
  /\ draft' = Assign(draft, k, v)
  /\ UNCHANGED <<committed, holder, scope, seen, saved>>

End == holder' = NoClient /\ scope' = NoScope /\ draft' = NoScope

Commit ==
  /\ holder # NoClient
  /\ committed' = [committed EXCEPT ![scope] = draft]
  /\ End
  /\ UNCHANGED <<seen, saved>>

Abort == holder # NoClient /\ End /\ UNCHANGED <<committed, seen, saved>>

Snapshot ==
  /\ saved' = committed
  /\ UNCHANGED <<committed, holder, scope, draft, seen>>

Restore ==
  /\ holder = NoClient
  /\ committed' = saved
  /\ UNCHANGED <<holder, scope, draft, seen, saved>>

Next ==
  \/ \E c \in Clients, s \in Scopes, k \in Keys : Read(c, s, k)
  \/ \E s \in Scopes, k \in Keys, v \in Values \cup {NoValue} : Mutate(s, k, v)
  \/ \E c \in Clients, s \in Scopes : Begin(c, s)
  \/ \E k \in Keys : ReadDraft(k)
  \/ \E k \in Keys, v \in Values \cup {NoValue} : MutateDraft(k, v)
  \/ Commit
  \/ Abort
  \/ Snapshot
  \/ Restore

Spec == Init /\ [][Next]_vars
=============================================================================
