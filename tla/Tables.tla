------------------------------- MODULE Tables -------------------------------
(***************************************************************************)
(* A collection of records, as a function on the keys that are stored.     *)
(***************************************************************************)
EXTENDS Naturals

NoRows == [k \in {} |-> 0]
Put(f, k, v) == [x \in DOMAIN f \union {k} |-> IF x = k THEN v ELSE f[x]]
Del(f, k) == [x \in DOMAIN f \ {k} |-> f[x]]
DelAll(f, K) == [x \in DOMAIN f \ K |-> f[x]]
MinOf(S) == CHOOSE x \in S : \A y \in S : x <= y
MaxOf(S) == CHOOSE x \in S : \A y \in S : x >= y
=============================================================================
