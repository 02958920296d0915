----------------------------- MODULE KeyedStore -----------------------------
(***************************************************************************)
(* The in-memory store (internal/store): one mutex over all scopes, and a  *)
(* transaction that writes in place under it and puts back a copy of its   *)
(* scope when its body fails.  A key stands for a collection and a key in  *)
(* it.  Transactions of a collection and of a scope are the same code.     *)
(***************************************************************************)
EXTENDS Integers

CONSTANTS
  Scopes,    \* account and region pairs
  Keys, Values, Clients,
  NoValue,   \* a key without a value
  NoScope,   \* a scope nobody wrote to
  NoClient   \* the mutex is free

VARIABLES
  data,    \* scope -> its table, or NoScope
  holder,  \* the client in a transaction
  scope,   \* the scope of the transaction
  backup,  \* the copy runTxn made of it, NoScope when it did not exist
  seen,    \* client -> answer of its last Get
  saved    \* what the last Snapshot wrote

storeVars == <<data, holder, scope, backup, seen, saved>>
txn == <<holder, scope, backup>>

Table == [Keys -> Values \cup {NoValue}]

ASSUME Distinguished == NoScope \notin Table /\ NoScope \notin Scopes /\ NoClient \notin Clients

BlankTable == [k \in Keys |-> NoValue]
Lookup(s, k) == IF data[s] = NoScope THEN NoValue ELSE data[s][k]

\* Put makes the scope's map when there is none; Delete does not.
Written(t, k, v) == [IF t = NoScope THEN BlankTable ELSE t EXCEPT ![k] = v]
Dropped(t, k) == IF t = NoScope THEN NoScope ELSE [t EXCEPT ![k] = NoValue]

StoreInit ==
  /\ data = [s \in Scopes |-> NoScope]
  /\ holder = NoClient /\ scope = NoScope /\ backup = NoScope
  /\ seen = [c \in Clients |-> NoValue]
  /\ saved = data

-----------------------------------------------------------------------------

\* The mutex is free.
Free == holder = NoClient

Get(c, s, k) ==
  /\ Free
  /\ seen' = [seen EXCEPT ![c] = Lookup(s, k)]
  /\ UNCHANGED <<data, txn, saved>>

Put(s, k, v) ==
  /\ Free
  /\ data' = [data EXCEPT ![s] = Written(@, k, v)]
  /\ UNCHANGED <<txn, seen, saved>>

Delete(s, k) ==
  /\ Free
  /\ data' = [data EXCEPT ![s] = Dropped(@, k)]
  /\ UNCHANGED <<txn, seen, saved>>

\* runTxn: take the mutex and copy the scope.
Begin(c, s) ==
  /\ Free
  /\ holder' = c /\ scope' = s /\ backup' = data[s]
  /\ UNCHANGED <<data, seen, saved>>

\* A transaction reads what it wrote.
TxGet(k) ==
  /\ holder # NoClient
  /\ seen' = [seen EXCEPT ![holder] = Lookup(scope, k)]
  /\ UNCHANGED <<data, txn, saved>>

TxPut(k, v) ==
  /\ holder # NoClient
  /\ data' = [data EXCEPT ![scope] = Written(@, k, v)]
  /\ UNCHANGED <<txn, seen, saved>>

TxDelete(k) ==
  /\ holder # NoClient
  /\ data' = [data EXCEPT ![scope] = Dropped(@, k)]
  /\ UNCHANGED <<txn, seen, saved>>

Release == holder' = NoClient /\ scope' = NoScope /\ backup' = NoScope

Commit ==
  /\ holder # NoClient
  /\ Release
  /\ UNCHANGED <<data, seen, saved>>

\* The body failed: the copy comes back, and a scope that did not exist goes.
\* Mistake: it stays, empty.
RolledBackEmpty == IF backup = NoScope THEN BlankTable ELSE backup
RolledBack == backup

Abort ==
  /\ holder # NoClient
  /\ data' = [data EXCEPT ![scope] = RolledBack]
  /\ Release
  /\ UNCHANGED <<seen, saved>>

\* Snapshot writes and Restore replaces all scopes under the mutex.
Snapshot ==
  /\ Free
  /\ saved' = data
  /\ UNCHANGED <<data, txn, seen>>

Restore ==
  /\ Free
  /\ data' = saved
  /\ UNCHANGED <<txn, seen, saved>>

StoreNext ==
  \/ \E c \in Clients, s \in Scopes, k \in Keys : Get(c, s, k)
  \/ \E s \in Scopes, k \in Keys, v \in Values : Put(s, k, v)
  \/ \E s \in Scopes, k \in Keys : Delete(s, k)
  \/ \E c \in Clients, s \in Scopes : Begin(c, s)
  \/ \E k \in Keys : TxGet(k)
  \/ \E k \in Keys, v \in Values : TxPut(k, v)
  \/ \E k \in Keys : TxDelete(k)
  \/ Commit
  \/ Abort
  \/ Snapshot
  \/ Restore

StoreSpec == StoreInit /\ [][StoreNext]_storeVars

-----------------------------------------------------------------------------
(* Properties. *)

Contents == [Scopes -> Table \cup {NoScope}]

StoreTypeOK ==
  /\ data \in Contents /\ saved \in Contents
  /\ holder \in Clients \cup {NoClient}
  /\ holder # NoClient => scope \in Scopes
  /\ backup \in Table \cup {NoScope}
  /\ seen \in [Clients -> Values \cup {NoValue}]

\* The contents without the transaction in progress, and its draft of the scope.
Committed == IF holder = NoClient THEN data ELSE [data EXCEPT ![scope] = backup]
Draft == IF holder = NoClient THEN NoScope ELSE data[scope]

Atomic == INSTANCE AtomicStore WITH committed <- Committed, draft <- Draft

\* Writing in place and rolling back by copy implements atomic transactions
\* (spi.go: "Txn runs fn atomically"): every behaviour of the store is one of
\* AtomicStore, where a transaction writes a draft that Commit publishes and a
\* failed body (runTxn) leaves no trace, down to whether its scope exists.
ImplementsAtomicStore == Atomic!Spec
=============================================================================
