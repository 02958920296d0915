--------------------------- MODULE DynamoQueries ----------------------------
(***************************************************************************)
(* Condition and update expressions (internal/services/aws/dynamodb/expr). *)
(* An expression is a sequence of tokens, names already substituted; parse *)
(* finds operators outside parentheses, loosest first, and eval computes   *)
(* over an item.  The reference is the tree an expression was written      *)
(* from, with parentheses only where the grammar needs them.               *)
(***************************************************************************)
EXTENDS Tables, FiniteSets, Sequences, Integers
LOCAL INSTANCE SequencesExt
LOCAL INSTANCE Functions

CONSTANTS ExTrees,    \* condition trees
          ExItems,    \* items: attribute names to numbers; a name without a value is missing
          ExUpdates   \* update expressions: sequences of clauses
VARIABLES exTree, exItem, exUpdate

exvars == <<exTree, exItem, exUpdate>>
ExprInit == exTree \in ExTrees /\ exItem \in ExItems /\ exUpdate \in ExUpdates

Node(op, kids) == [op |-> op, val |-> "", kids |-> kids]
Leaf(v) == [op |-> "val", val |-> v, kids |-> <<>>]
Comparators == <<"<>", "<=", ">=", "=", "<", ">">>
Arithmetic == <<"+", "-">>

(***************************************************************************)
(* parse                                                                   *)
(***************************************************************************)
Depth(s, i) == Cardinality({j \in 1..i : s[j] = "("}) - Cardinality({j \in 1..i : s[j] = ")"})
\* The first place where op stands outside parentheses; 0 if there is none.
indexTop(s, op) ==
  LET at == {i \in DOMAIN s : Depth(s, i) = 0 /\ s[i] = op} IN IF at = {} THEN 0 ELSE MinOf(at)
Wrapped(s) ==
  /\ Len(s) >= 2 /\ s[1] = "(" /\ s[Len(s)] = ")"
  /\ \A i \in 1..(Len(s) - 1) : Depth(s, i) > 0
RECURSIVE unwrapParens(_)
unwrapParens(s) == IF Wrapped(s) THEN unwrapParens(SubSeq(s, 2, Len(s) - 1)) ELSE s
Before(s, i) == SubSeq(s, 1, i - 1)
Beyond(s, i) == SubSeq(s, i + 1, Len(s))
FirstOf(s, ops) == SelectInSeq(ops, LAMBDA op : indexTop(s, op) > 0)
\* Between commas outside parentheses.
splitArgs(s) ==
  LET cuts == {0} \union {i \in DOMAIN s : s[i] = "," /\ Depth(s, i) = 0}
      ends(i) == MinOf({j \in cuts \union {Len(s) + 1} : j > i})
      from == SetToSortSeq(cuts, <)
  IN [n \in DOMAIN from |-> SubSeq(s, from[n] + 1, ends(from[n]) - 1)]
\* Which of the operators the whole of s is, loosest first.
Loosest(s) ==
  LET has(op) == indexTop(s, op) > 0 IN
  CASE has("BETWEEN") /\ indexTop(Beyond(s, indexTop(s, "BETWEEN")), "AND") > 0 -> "BETWEEN"
    [] has("OR") -> "OR"
    [] has("AND") -> "AND"
    [] OTHER -> "none"

\* The tree of a token sequence.
RECURSIVE parse(_)
parse(t) ==
  LET s == unwrapParens(t)
      two(op) == Node(op, <<parse(Before(s, indexTop(s, op))), parse(Beyond(s, indexTop(s, op)))>>)
      between == indexTop(s, "BETWEEN")
      rest == Beyond(s, between)
      top == IF \E op \in {"BETWEEN", "AND", "OR"} : indexTop(s, op) > 0 THEN Loosest(s) ELSE "none"
  IN CASE top = "BETWEEN" ->
            Node("BETWEEN", <<parse(Before(s, between)), parse(Before(rest, indexTop(rest, "AND"))),
                              parse(Beyond(rest, indexTop(rest, "AND")))>>)
       [] top \in {"OR", "AND"} -> two(top)
       [] top = "none" /\ s # <<>> /\ s[1] = "NOT" -> Node("NOT", <<parse(Tail(s))>>)
       [] top = "none" /\ (s = <<>> \/ s[1] # "NOT") /\ indexTop(s, "IN") > 0 ->
            LET i == indexTop(s, "IN")
                list == splitArgs(SubSeq(s, i + 2, Len(s) - 1))
            IN Node("IN", <<parse(Before(s, i))>> \o [n \in DOMAIN list |-> parse(list[n])])
       [] OTHER ->
            LET c == FirstOf(s, Comparators)
                a == FirstOf(s, Arithmetic)
            IN IF c > 0 THEN two(Comparators[c])
               ELSE IF a > 0 THEN two(Arithmetic[a])
               ELSE IF Len(s) > 2 /\ s[2] = "("
               THEN LET list == splitArgs(SubSeq(s, 3, Len(s) - 1))
                    IN Node(s[1], [n \in DOMAIN list |-> parse(list[n])])
               ELSE Leaf(IF s = <<>> THEN "" ELSE s[1])

(***************************************************************************)
(* eval: a condition is 1 or 0, an operand its number.  A missing name is  *)
(* its own text, which compares as 0.                                      *)
(***************************************************************************)
Truth(b) == IF b THEN [is |-> "bool", n |-> 0, b |-> TRUE] ELSE [is |-> "bool", n |-> 0, b |-> FALSE]
Number(n) == [is |-> "number", n |-> n, b |-> FALSE]
toFloat(v) == IF v.is = "number" THEN v.n ELSE 0
RECURSIVE eval(_, _)
eval(t, item) ==
  LET k(i) == eval(t.kids[i], item)
      x == toFloat(k(1))
      y == toFloat(k(2))
      name == t.kids[1].val
  IN CASE t.op = "val" -> IF t.val \in DOMAIN item THEN Number(item[t.val])
      ELSE [is |-> "text", n |-> 0, b |-> FALSE]
       [] t.op = "AND" -> Truth(k(1).b /\ k(2).b)
       [] t.op = "OR" -> Truth(k(1).b \/ k(2).b)
       [] t.op = "NOT" -> Truth(~k(1).b)
       [] t.op = "=" -> Truth(x = y) [] t.op = "<>" -> Truth(x # y)
       [] t.op = "<" -> Truth(x < y) [] t.op = ">" -> Truth(x > y)
       [] t.op = "<=" -> Truth(x <= y) [] t.op = ">=" -> Truth(x >= y)
       [] t.op = "BETWEEN" -> Truth(x >= y /\ x <= toFloat(k(3)))
       [] t.op = "IN" -> Truth(\E i \in 2..Len(t.kids) : toFloat(k(i)) = x)
       [] t.op = "attribute_exists" -> Truth(name \in DOMAIN item)
       [] t.op = "attribute_not_exists" -> Truth(name \notin DOMAIN item)
       [] t.op = "+" -> Number(x + y) [] t.op = "-" -> Number(x - y)
       [] t.op = "if_not_exists" -> IF name \in DOMAIN item THEN k(1) ELSE k(2)
EvalBool(s, item) == eval(parse(s), item).b

(***************************************************************************)
(* ApplyUpdate: clause after clause, each on what the ones before left.    *)
(***************************************************************************)
SetTo(item, a) == Put(item, a.name, toFloat(eval(parse(a.rhs), item)))
Added(item, a) == Put(item, a.name, (IF a.name \in DOMAIN item THEN item[a.name]
    ELSE 0) + toFloat(eval(parse(a.rhs), item)))
ApplyClause(item, a) ==
  CASE a.kind = "SET" -> SetTo(item, a)
    [] a.kind = "REMOVE" -> Del(item, a.name)
    [] OTHER -> Added(item, a)
Touched(update) == {update[i].name : i \in DOMAIN update}
ApplyUpdate(update, item) ==
  LET after[i \in 0..Len(update)] == IF i = 0 THEN item ELSE ApplyClause(after[i - 1], update[i])
  IN [item |-> after[Len(update)], touched |-> Touched(update)]
\* returnValues: the touched attributes that the image has.
returnValues(mode, old, new, touched) ==
  LET image == IF mode \in {"ALL_OLD", "UPDATED_OLD"} THEN old ELSE new
  IN IF mode \in {"UPDATED_OLD", "UPDATED_NEW"}
      THEN [k \in DOMAIN image \intersect touched |-> image[k]] ELSE image

(***************************************************************************)
(* Properties                                                              *)
(***************************************************************************)
\* How tightly the grammar binds an operator, and a tree written with the
\* parentheses that takes; `loose` says how a BETWEEN below a connective is
\* written.
Rank(op) == CASE op = "OR" -> 1 [] op = "AND" -> 2 [] op = "NOT" -> 3 [] OTHER -> 4
RECURSIVE Spelled(_, _)
Spelled(t, loose) ==
  LET kid(i) ==
        LET p == Spelled(t.kids[i], loose)
            wrap == \/ Rank(t.kids[i].op) < Rank(t.op)
                    \/ ~loose /\ t.kids[i].op = "BETWEEN"
        IN IF wrap THEN <<"(">> \o p \o <<")">> ELSE p
      infix(op) == kid(1) \o <<op>> \o kid(2)
      listed(from) == FlattenSeq([n \in 1..(Len(t.kids) - from + 1) |->
                                    (IF n = 1 THEN <<>> ELSE <<",">>) \o Spelled(t.kids[from + n - 1], loose)])
  IN CASE t.op = "val" -> <<t.val>>
       [] t.op = "NOT" -> <<"NOT">> \o kid(1)
       [] t.op = "BETWEEN" -> kid(1) \o <<"BETWEEN">> \o kid(2) \o <<"AND">> \o kid(3)
       [] t.op = "IN" -> kid(1) \o <<"IN", "(">> \o listed(2) \o <<")">>
       [] t.op \in {"attribute_exists", "attribute_not_exists", "if_not_exists"} -> <<t.op,
            "(">> \o listed(1) \o <<")">>
       [] OTHER -> infix(t.op)
\* A condition means what its tree means, whatever the item: operators bind as
\* the grammar says and parentheses override them (expr.go parse, eval).
ConditionMeans == EvalBool(Spelled(exTree, FALSE), exItem) = eval(exTree, exItem).b
\* The same with BETWEEN beside AND, OR and NOT and no parentheses around it.
BetweenMeans == EvalBool(Spelled(exTree, TRUE), exItem) = eval(exTree, exItem).b
\* UPDATED_OLD and UPDATED_NEW tell the whole change: the old item with the
\* touched attributes replaced by the new ones is the new item, and the other way.
UpdateToldWhole ==
  LET res == ApplyUpdate(exUpdate, exItem)
      new == returnValues("UPDATED_NEW", exItem, res.item, res.touched)
      old == returnValues("UPDATED_OLD", exItem, res.item, res.touched)
  IN /\ res.item = new @@ DelAll(exItem, res.touched)
     /\ exItem = old @@ DelAll(res.item, res.touched)

-----------------------------------------------------------------------------
(***************************************************************************)
(* Query and Scan page by page, through an index or not, PartiQL reads,    *)
(* and table definitions (dynamodb.go, ddb_extra.go), while another client *)
(* puts and deletes items.                                                 *)
(***************************************************************************)

CONSTANTS PgKeys,     \* table keys, numbers
          PgViews,    \* projections read through: "ALL", "KEYS_ONLY" or "INCLUDE"
          PgLimits, PgWrites
VARIABLES pgItems,    \* items by key: another attribute and whether the filter accepts it
          pgView, pgLimit,
          pgStart,    \* the last LastEvaluatedKey: 0 before the first page, -1 after the last
          pgGot,      \* items returned, in order
          pgWrites,
          pgStable,   \* keys whose item did not change since the first page
          pgLost      \* an item a page ended with was deleted or changed

pgvars == <<pgItems, pgView, pgLimit, pgStart, pgGot, pgWrites, pgStable, pgLost>>

PgItem(k) == [key : {k}, other : {1, 2}, ok : BOOLEAN]
PagingInit ==
  /\ pgItems \in {f \in [PgKeys -> UNION {PgItem(k) : k \in PgKeys}] : \A k \in PgKeys : f[k].key = k}
  /\ pgView \in PgViews /\ pgLimit \in PgLimits
  /\ pgStart = 0 /\ pgGot = <<>> /\ pgWrites = 0 /\ pgStable = PgKeys /\ pgLost = FALSE

\* projectIndex keeps the key attributes of the table and of the index.
projectIndex(it) ==
  [key |-> it.key, other |-> IF pgView = "ALL" THEN it.other ELSE 0]
\* listItems sorts by the marshalled projection: attributes in the order of
\* their names, here another before the key.
Sorts(a, b) == a.other < b.other \/ (a.other = b.other /\ a.key < b.key)
Matched == SetToSortSeq({projectIndex(pgItems[k]) : k \in {j \in DOMAIN pgItems : pgItems[j].ok}}, Sorts)
\* Everything behind the item with the start key; nothing if it is not there.
FromStart(s, k) ==
  IF k = 0 THEN s
  ELSE LET at == {i \in DOMAIN s : s[i].key = k}
       IN IF at = {} THEN <<>> ELSE SubSeq(s, MinOf(at) + 1, Len(s))
LastKey(s) == IF Len(s) > pgLimit THEN s[pgLimit].key ELSE -1
listItems ==
  /\ pgStart # -1
  /\ LET rest == FromStart(Matched, pgStart)
         page == SubSeq(rest, 1, IF Len(rest) > pgLimit THEN pgLimit ELSE Len(rest))
     IN /\ pgGot' = pgGot \o page
        /\ pgStart' = LastKey(rest)
  /\ UNCHANGED <<pgItems, pgView, pgLimit, pgWrites, pgStable, pgLost>>

\* Another client deletes or replaces an item between the pages.
PgDelete(k) ==
  /\ k \in DOMAIN pgItems /\ pgWrites < PgWrites /\ pgStart > 0
  /\ pgItems' = Del(pgItems, k)
  /\ pgWrites' = pgWrites + 1 /\ pgStable' = pgStable \ {k}
  /\ pgLost' = (pgLost \/ k = pgStart)
  /\ UNCHANGED <<pgView, pgLimit, pgStart, pgGot>>
PgPut(k) ==
  /\ pgWrites < PgWrites /\ pgStart > 0
  /\ \E it \in PgItem(k) : pgItems' = Put(pgItems, k, it)
  /\ pgWrites' = pgWrites + 1 /\ pgStable' = pgStable \ {k}
  /\ pgLost' = (pgLost \/ k = pgStart)
  /\ UNCHANGED <<pgView, pgLimit, pgStart, pgGot>>

PagingNext == listItems \/ \E k \in PgKeys : PgDelete(k) \/ PgPut(k)

(***************************************************************************)
(* Properties                                                              *)
(***************************************************************************)
\* Pages miss nothing and repeat nothing: an item that stayed as it was while
\* the pages were read is returned once if the filter accepts it, provided no
\* page's last item was touched (listItems then finds its start no more).
PagesComplete ==
  ~pgLost =>
  /\ pgStart = -1 =>
       \A k \in pgStable : Cardinality({i \in DOMAIN pgGot : pgGot[i].key = k}) = (IF pgItems[k].ok
           THEN 1 ELSE 0)
  /\ \A i, j \in DOMAIN pgGot : pgGot[i].key = pgGot[j].key /\ pgGot[i].key \in pgStable => i = j
=============================================================================
