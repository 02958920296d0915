------------------------------ MODULE MCStorage ------------------------------
(***************************************************************************)
(* The three stores for TLC: the CI/CD run lifecycle (two submission keys, *)
(* two racing workers, one generation named by callers next to those the   *)
(* store assigns), the installation restarted by two binaries, and the     *)
(* keyed store (two clients, two scopes).  They share no state: a          *)
(* behaviour exercises the one `focus` names.                              *)
(***************************************************************************)
EXTENDS CicdLifecycle, Persistence, KeyedStore, TLC

CONSTANTS k1, k2, f1, f2, g1, w1, w2, ok, v1, v2, l1, l2

VARIABLE focus

allvars == <<focus, lifecycleVars, persistenceVars, storeVars>>

MCInit ==
  /\ focus \in {"lifecycle", "persistence", "store"}
  /\ LifecycleInit /\ PersistenceInit /\ StoreInit

MCNext ==
  /\ UNCHANGED focus
  /\ \/ focus = "lifecycle" /\ LifecycleNext /\ UNCHANGED <<persistenceVars, storeVars>>
     \/ focus = "persistence" /\ PersistenceNext /\ UNCHANGED <<lifecycleVars, storeVars>>
     \/ focus = "store" /\ StoreNext /\ UNCHANGED <<lifecycleVars, persistenceVars>>

MCSpec == MCInit /\ [][MCNext]_allvars

Symmetries == Permutations({k1, k2}) \cup Permutations({f1, f2}) \cup Permutations({w1, w2})
=============================================================================
