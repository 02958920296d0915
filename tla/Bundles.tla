------------------------------ MODULE Bundles -------------------------------
(***************************************************************************)
(* Loading a behaviour bundle (bir/load.go): the YAML documents of a       *)
(* directory are decoded in the order of their names and merged into one   *)
(* service, which is then checked (last part below). A document is the     *)
(* record of the keys it gives: scalars ("" when absent), lists and maps;  *)
(* of a map only its keys matter to merging.                               *)
(***************************************************************************)
EXTENDS Tables, Sequences, FiniteSets, Integers
LOCAL INSTANCE SequencesExt

CONSTANTS
  BlScalars,  \* schema, service, provenance, shadow, worker, wrap, missing_input_error
  BlLists,    \* native, quirks
  BlMaps,     \* primitives, resources, errors, limits, operations, missing_input_messages
  BlDocs      \* sequences of documents

VARIABLE bl   \* [docs, at, out, problem]

blvars == <<bl>>

EmptyService ==
  [scalar |-> [f \in BlScalars |-> ""], list |-> [f \in BlLists |-> <<>>], map |-> [f \in BlMaps |-> {}]]
BlInit == bl \in {[docs |-> d, at |-> 1, out |-> EmptyService, problem |-> FALSE] : d \in BlDocs}

(***************************************************************************)
(* merge                                                                   *)
(***************************************************************************)

\* Two documents may not disagree on these; of the other scalars the last wins.
Agreed == BlScalars \intersect {"schema", "service"}
\* The maps that are carried over, each key once.
Carried == BlMaps \ {"missing_input_messages"}

MergeProblem(dst, src) ==
  \/ \E f \in Agreed : src.scalar[f] # "" /\ dst.scalar[f] # "" /\ src.scalar[f] # dst.scalar[f]
  \/ \E f \in Carried : src.map[f] \intersect dst.map[f] # {}

merge(dst, src) ==
  [scalar |-> [f \in BlScalars |-> IF src.scalar[f] = "" THEN dst.scalar[f] ELSE src.scalar[f]],
   list |-> [f \in BlLists |-> dst.list[f] \o src.list[f]],
   map |-> [f \in BlMaps |-> IF f \in Carried THEN dst.map[f] \union src.map[f] ELSE dst.map[f]]]

\* One document.  A conflict is remembered and the others are still read, so
\* that all problems are reported at once.
BlStep ==
  /\ bl.at <= Len(bl.docs)
  /\ LET src == bl.docs[bl.at]
     IN bl' = [bl EXCEPT !.at = @ + 1,
                 !.problem = @ \/ MergeProblem(bl.out, src),
                 !.out = IF MergeProblem(bl.out, src) THEN @ ELSE merge(@, src)]

(***************************************************************************)
(* Properties                                                              *)
(***************************************************************************)
Merged == bl.at > Len(bl.docs) /\ ~bl.problem
Given(f) == {i \in DOMAIN bl.docs : bl.docs[i].scalar[f] # ""}

\* A bundle that loads carries everything its documents say, however it is
\* cut into files: the last value of a scalar, the lists one after another,
\* and the keys of every map, each given by one document only.
SplitIsWhole ==
  Merged =>
    /\ \A f \in BlScalars :
         bl.out.scalar[f] = IF Given(f) = {} THEN "" ELSE bl.docs[MaxOf(Given(f))].scalar[f]
    /\ \A f \in Agreed : \A i \in Given(f) : bl.docs[i].scalar[f] = bl.out.scalar[f]
    /\ \A f \in BlLists : bl.out.list[f] = FlattenSeq([i \in DOMAIN bl.docs |-> bl.docs[i].list[f]])
    /\ \A f \in Carried :
         /\ bl.out.map[f] = UNION {bl.docs[i].map[f] : i \in DOMAIN bl.docs}
         /\ \A i, j \in DOMAIN bl.docs : i # j => bl.docs[i].map[f] \intersect bl.docs[j].map[f] = {}

\* What bir.go says of missing_input_messages: a loaded bundle has the
\* wordings its document gives.
MessagesAreCarried ==
  Merged => bl.out.map["missing_input_messages"] = UNION {bl.docs[i].map["missing_input_messages"] : i \in DOMAIN bl.docs}

-----------------------------------------------------------------------------
(***************************************************************************)
(* What the loader accepts (bir/validate.go, bir/crud.go, bir/fxrefs.go).  *)
(* A bundle here is [resources, errors, members, op]: the resources and    *)
(* the error table it declares, the input members the model gives its one  *)
(* operation, and the operation.  An expression is the set of names it     *)
(* reads ("fx.create" for a member of fx); an absent one is NoExpr.        *)
(*                                                                         *)
(*   resource  [parent, address, asks]: address is how a key is found when *)
(*             none is given: "members" (the input members in asks),       *)
(*             "singleton", "generate" or "none"                           *)
(*   read      [name, res, key]         let     [name, refs]               *)
(*   require   [refs, error]            select  [binding, count, res]      *)
(*   effect    [kind, res, key, refs, each, bind, guarded]                 *)
(*   op        [crud, reads, lets, requires, select, effects, list, output]*)
(*                                                                         *)
(* Sequences of reads and lets are sorted by name.                         *)
(***************************************************************************)

NoExpr == {"absent"}
Refs(e) == e \ NoExpr
NoSelect == [binding |-> "", count |-> "", res |-> ""]
Elems(s) == {s[i] : i \in DOMAIN s}

(***************************************************************************)
(* expandCrud: a verb is a whole operation and stands for its long form.   *)
(***************************************************************************)
Blank(op) ==
  op.reads = <<>> /\ op.lets = <<>> /\ op.requires = <<>> /\ op.select = NoSelect /\ op.effects = <<>> /\ op.list = "" /\ op.output = NoExpr

CrudProblem(b) ==
  LET c == b.op.crud
  IN /\ c.verb # ""
     /\ \/ ~Blank(b.op) \/ c.res \notin DOMAIN b.resources
        \/ (c.verb = "get") # (c.error # "")

expandCrud(op) ==
  LET c == op.crud
      effect == [kind |-> c.verb, res |-> c.res, key |-> NoExpr, refs |-> NoExpr, each |-> FALSE,
          bind |-> "", guarded |-> FALSE]
  IN CASE c.verb = "" -> op
       [] c.verb = "get" ->
            [op EXCEPT !.reads = <<[name |-> "rec", res |-> c.res, key |-> NoExpr]>>,
                       !.requires = <<[refs |-> {"rec_found"}, error |-> c.error]>>, !.output = {"rec"}]
       [] c.verb = "delete" -> [op EXCEPT !.effects = <<effect>>]
       [] OTHER -> [op EXCEPT !.effects = <<effect>>, !.output = {"rec"}]

(***************************************************************************)
(* Validate                                                                *)
(***************************************************************************)
Writes == {"create", "put", "patch"}
opWrites(op) == \E e \in Elems(op.effects) : e.kind \in Writes
opWritesEach(op) == \E e \in Elems(op.effects) : e.kind \in Writes /\ e.each

\* The members of fx that some effect of the operation binds.
fxKeys(op) ==
  UNION {CASE e.kind \in Writes \union {"counter"} -> {"fx." \o e.kind}
           [] e.kind \in {"generate", "execute"} /\ e.bind # "" -> {"fx." \o e.bind}
           [] OTHER -> {} : e \in Elems(op.effects)}

\* The names an expression of the operation may read.
Scope(b) ==
  {"id"} \union DOMAIN b.resources \union fxKeys(b.op)
  \union UNION {{r.name, r.name \o "_found"} : r \in Elems(b.op.reads)}
  \union {l.name : l \in Elems(b.op.lets)}
  \union ({b.op.select.binding, b.op.select.count} \ {""})
  \union (IF opWrites(b.op) THEN {"rec"} ELSE {})
  \union (IF b.op.list # "" \/ opWritesEach(b.op) THEN {"items"} ELSE {})

Compiles(b, e, extra) == Refs(e) \subseteq Scope(b) \union extra

ResourceProblem(b) ==
  \E r \in DOMAIN b.resources : b.resources[r].parent \notin DOMAIN b.resources \union {""}
ReadProblem(b) ==
  \E r \in Elems(b.op.reads) :
    \/ r.res \notin DOMAIN b.resources
    \/ r.key = NoExpr /\ b.resources[r.res].address \in {"none", "generate"}
    \/ ~Compiles(b, r.key, {})
LetProblem(b) == \E l \in Elems(b.op.lets) : ~Compiles(b, l.refs, {})
RequireProblem(b) ==
  \E r \in Elems(b.op.requires) : ~Compiles(b, r.refs, {}) \/ r.error \notin b.errors
SelectProblem(b) == b.op.select # NoSelect /\ (b.op.select.res \notin DOMAIN b.resources \/ b.op.select.binding = "")
ListProblem(b) == b.op.list \notin DOMAIN b.resources \union {""}

\* validateEffect.
EffectProblem(b) ==
  \E e \in Elems(b.op.effects) :
    LET item == IF e.each THEN {"item"} ELSE {}
    IN \/ ~Compiles(b, e.refs, item) \/ ~Compiles(b, e.key, item)
       \/ e.kind \in Writes \union {"delete"} /\ e.res \notin DOMAIN b.resources
       \/ e.kind \in Writes /\ e.each /\ e.key = NoExpr
          /\ ~(e.kind = "create" /\ e.res \in DOMAIN b.resources /\ b.resources[e.res].address = "generate")
       \/ e.kind = "generate" /\ e.bind = ""
OutputProblem(b) == ~Compiles(b, b.op.output, {})

\* checkAddressing: a resource addressed by the request must be addressed by
\* a member the operation declares.
Implicit(b) ==
  {r.res : r \in {x \in Elems(b.op.reads) : x.key = NoExpr}}
  \union {e.res : e \in {x \in Elems(b.op.effects) : x.kind \in Writes \union {"delete"} /\ x.key = NoExpr}}
AddressingProblem(b) ==
  \E r \in Implicit(b) \intersect DOMAIN b.resources :
    /\ b.resources[r].address = "members" /\ b.members # {}
    /\ b.resources[r].asks \intersect b.members = {}

\* checkExecuteNativeMix.
MixProblem(b) ==
  LET kinds == {e.kind : e \in Elems(b.op.effects)}
  IN "execute" \in kinds /\ (kinds # {"execute"} \/ b.op.list # "")

Accepted(b) ==
  /\ ~CrudProblem(b)
  /\ LET l == [b EXCEPT !.op = expandCrud(b.op)]
     IN ~(ResourceProblem(l) \/ ReadProblem(l) \/ LetProblem(l) \/ RequireProblem(l) \/ SelectProblem(l)
          \/ ListProblem(l) \/ EffectProblem(l) \/ OutputProblem(l) \/ AddressingProblem(l) \/ MixProblem(l))

-----------------------------------------------------------------------------
(***************************************************************************)
(* The order in which the engine (engine/engine.go invoke, engine/eval.go) *)
(* binds the names that an accepted operation's expressions read: reads by *)
(* dependency, lets to a fixpoint, requires before and after the select,   *)
(* effects, the list and the output.  An expression fails when a name it   *)
(* reads is not bound yet; a require that evaluates may also refuse.       *)
(***************************************************************************)

CONSTANTS
  EoBundles   \* bundles to run; the accepted ones are loaded

\* eo.names are the bound names, eo.ids the resources with a key in play,
\* eo.todo and eo.stuck one pass over reads or lets, eo.skipped what effects
\* that did nothing would have bound.
VARIABLE eo
eovars == <<eo>>

Pass(e, pc, todo) == [e EXCEPT !.pc = pc, !.todo = todo, !.size = Len(todo), !.stuck = <<>>, !.moved = FALSE]
Fails(e, missing) == [e EXCEPT !.failedAt = e.pc, !.pc = "failed", !.missing = missing]

\* waitsOnSelect: the lets that read the selection, directly or through
\* another such let.
waitsOnSelect(op) ==
  LET lets == Elems(op.lets)
      sel == {op.select.binding, op.select.count} \ {""}
      closed(S) == \A l \in lets : l.refs \intersect (sel \union {x.name : x \in S}) # {} => l \in S
  IN IF op.select = NoSelect THEN {}
     ELSE {l \in lets : \A S \in SUBSET lets : closed(S) => l \in S}
Early(op) == SelectSeq(op.lets, LAMBDA l : l \notin waitsOnSelect(op))
Late(op) == SelectSeq(op.lets, LAMBDA l : l \in waitsOnSelect(op))

\* A condition that names the select's binding, or a let that waits on it, is
\* asked after the select.
AskedLate(op, r) ==
  /\ op.select # NoSelect
  /\ r.refs \intersect ({op.select.binding} \union {l.name : l \in waitsOnSelect(op)}) # {}

\* Mistake: reads run by name alone.
ReadyByName(e, r) == TRUE

\* readIsReady: the collection's parent has a key in play already.
readIsReady(e, r) ==
  e.b.resources[r.res].parent \in {"", r.res} \union e.ids

\* collection: a template that names a parent needs its key, or a binding of
\* the same name.
CollectionNeeds(e, res) == {e.b.resources[res].parent} \ ({"", res} \union e.ids \union e.names)

resolveRead(e, r) ==
  LET missing == (Refs(r.key) \ e.names) \union CollectionNeeds(e, r.res)
  IN IF missing # {} THEN Fails(e, missing)
     ELSE [e EXCEPT !.names = @ \union {r.name, r.name \o "_found"}, !.ids = @ \union {r.res}, !.moved = TRUE]

\* resolveReads, one read at a time; the last one standing runs, ready or not,
\* and so does the first of a pass in which none was.
ReadNext ==
  /\ eo.pc = "reads" /\ eo.todo # <<>>
  /\ LET r == Head(eo.todo)
         e == [eo EXCEPT !.todo = Tail(@)]
     IN eo' = IF ~readIsReady(e, r) /\ e.size > 1 THEN [e EXCEPT !.stuck = Append(@, r)]
         ELSE resolveRead(e, r)
ReadPass ==
  /\ eo.pc = "reads" /\ eo.todo = <<>>
  /\ eo' = IF eo.stuck = <<>> THEN Pass(eo, "lets", Early(eo.b.op))
           ELSE IF eo.moved THEN Pass(eo, "reads", eo.stuck)
           ELSE LET e == resolveRead(eo, Head(eo.stuck))
                IN IF e.pc = "failed" THEN e ELSE Pass(e, "reads", Tail(eo.stuck))

\* resolveLets: whatever can be evaluated now, again while that is progress.
\* Before the select a let that never evaluates waits for the requires.
LetNext ==
  /\ eo.pc \in {"lets", "late lets"} /\ eo.todo # <<>>
  /\ LET l == Head(eo.todo)
         e == [eo EXCEPT !.todo = Tail(@)]
     IN eo' = IF l.refs \subseteq e.names THEN [e EXCEPT !.names = @ \union {l.name}, !.moved = TRUE]
              ELSE [e EXCEPT !.stuck = Append(@, l)]

LetsEnd(e) ==
  LET done(failed) ==
        [e EXCEPT !.letErr = failed, !.todo = e.b.op.requires, !.stuck = <<>>,
                  !.pc = IF e.pc = "lets" THEN "requires" ELSE "late requires"]
  IN CASE e.stuck = <<>> -> done(FALSE)
       [] e.stuck # <<>> /\ e.moved -> Pass(e, e.pc, e.stuck)
       [] e.stuck # <<>> /\ ~e.moved /\ e.pc = "lets" -> done(TRUE)
       [] OTHER -> Fails(e, Head(e.stuck).refs \ e.names)
LetPass == eo.pc \in {"lets", "late lets"} /\ eo.todo = <<>> /\ eo' = LetsEnd(eo)

\* checkRequires, on either side of the select.
RequireNext ==
  /\ eo.pc \in {"requires", "late requires"} /\ eo.todo # <<>>
  /\ LET r == Head(eo.todo)
         e == [eo EXCEPT !.todo = Tail(@)]
     IN IF AskedLate(e.b.op, r) # (e.pc = "late requires") THEN eo' = e
        ELSE IF ~(r.refs \subseteq e.names) THEN eo' = Fails(e, r.refs \ e.names)
        ELSE eo' \in {e, [e EXCEPT !.pc = "refused"]}

\* The held let error is reported once every early require has passed; then
\* runSelect binds the selection.
RequirePass ==
  /\ eo.pc \in {"requires", "late requires"} /\ eo.todo = <<>>
  /\ LET op == eo.b.op
         never == UNION {l.refs : l \in {x \in Elems(Early(op)) : x.name \notin eo.names}} \ eo.names
         picked == [eo EXCEPT !.names = @ \union ({op.select.binding, op.select.count} \ {""})]
         needs == CollectionNeeds(eo, op.select.res)
     IN eo' = CASE eo.pc = "late requires" -> Pass(eo, "effects", op.effects)
                [] eo.pc = "requires" /\ eo.letErr -> Fails(eo, never)
                [] eo.pc = "requires" /\ ~eo.letErr /\ op.select = NoSelect -> Pass(eo, "effects", op.effects)
                [] eo.pc = "requires" /\ ~eo.letErr /\ op.select # NoSelect /\ needs # {} -> Fails(eo, needs)
                [] OTHER -> Pass(picked, "late lets", Late(op))

\* runEffects and the bindings a write leaves: its member of fx, `rec`, and
\* `items` for a for_each.
Runs == Writes \union {"delete", "counter", "generate", "execute"}
Binds(f) ==
  CASE f.kind \in Writes -> {"fx." \o f.kind, "rec"} \union (IF f.each THEN {"items"} ELSE {})
    [] f.kind = "counter" -> {"fx.counter"}
    [] f.kind \in {"generate", "execute"} -> {"fx." \o f.bind}
    [] OTHER -> {}
Needs(e, f) ==
  ((Refs(f.refs) \union Refs(f.key)) \ (e.names \union (IF f.each THEN {"item"} ELSE {})))
  \union (IF f.kind \in Writes \union {"delete"} THEN CollectionNeeds(e, f.res) ELSE {})
EffectNext ==
  /\ eo.pc = "effects" /\ eo.todo # <<>>
  /\ LET f == Head(eo.todo)
         e == [eo EXCEPT !.todo = Tail(@)]
     IN \/ f.guarded /\ eo' = [e EXCEPT !.skipped = @ \union Binds(f)]
        \/ f.kind \notin Runs /\ eo' = Fails(e, {"unsupported"})
        \/ f.kind \in Runs /\ Needs(e, f) # {} /\ eo' = Fails(e, Needs(e, f))
        \/ /\ f.kind \in Runs /\ Needs(e, f) = {}
           /\ eo' = [e EXCEPT !.names = @ \union Binds(f),
                              !.ids = @ \union (IF f.kind \in Writes THEN {f.res} ELSE {})]
        \/ /\ f.kind \in Writes /\ f.each      \* nothing to write
           /\ eo' = [e EXCEPT !.names = @ \union {"items"}, !.skipped = @ \union Binds(f)]

\* runList, then project.
List ==
  /\ eo.pc = "effects" /\ eo.todo = <<>>
  /\ LET l == eo.b.op.list
     IN eo' = CASE l = "" -> [eo EXCEPT !.pc = "output"]
                [] l # "" /\ CollectionNeeds(eo, l) # {} -> Fails(eo, CollectionNeeds(eo, l))
                [] OTHER -> [eo EXCEPT !.pc = "output", !.names = @ \union {"items"}]
Output ==
  /\ eo.pc = "output"
  /\ LET missing == Refs(eo.b.op.output) \ eo.names
     IN eo' = IF missing = {} THEN [eo EXCEPT !.pc = "done"] ELSE Fails(eo, missing)

EoInit ==
  \E b \in EoBundles :
    /\ Accepted(b)
    /\ eo = [b |-> [b EXCEPT !.op = expandCrud(b.op)], pc |-> "reads", todo |-> expandCrud(b.op).reads,
             size |-> Len(expandCrud(b.op).reads), stuck |-> <<>>, moved |-> FALSE, letErr |-> FALSE,
             names |-> {"id"}, ids |-> {}, skipped |-> {}, failedAt |-> "", missing |-> {}]
EoNext == ReadNext \/ ReadPass \/ LetNext \/ LetPass \/ RequireNext \/ RequirePass \/ EffectNext \/ List \/ Output

(***************************************************************************)
(* Properties                                                              *)
(***************************************************************************)

\* What the parts of an operation that have not finished at a phase bind.
StillToBind(b, phase) ==
  LET op == b.op
      lets == {l.name : l \in Elems(op.lets)}
      late == (lets \union {op.select.binding, op.select.count}) \ {""}
      after == UNION {Binds(f) : f \in Elems(op.effects)}
      item == IF op.list # "" THEN {"items"} ELSE {}
  IN CASE phase = "reads" -> UNION {{r.name, r.name \o "_found"} : r \in Elems(op.reads)} \union
      late \union after \union item
       [] phase \in {"lets", "requires", "late lets"} -> late \union after \union item
       [] phase \in {"late requires", "effects"} -> after \union item
       [] OTHER -> {}

\* An operation that validation accepted and that fails for a name at request
\* time fails because it reads the name before the part that binds it, because
\* the effect that binds it did nothing, or because the name is a resource's
\* (validate.go puts those in scope, and the parent of a collection is one):
\* never for a name nothing in the operation binds.
NamesHaveABinder ==
  eo.pc = "failed" =>
    eo.missing \subseteq StillToBind(eo.b, eo.failedAt) \union eo.skipped \union
        DOMAIN eo.b.resources \union {"unsupported"}

\* Reads run in dependency order whatever they are called: a read that fails
\* for its parent's key is one whose chain of parents the operation does not
\* read to its end (resolveReads).
Grounded(b) ==
  LET rs == Elems(b.op.reads)
      closed(S) == \A r \in rs : (\/ b.resources[r.res].parent \in {"", r.res}
                                  \/ \E p \in S : p.res = b.resources[r.res].parent) => r \in S
  IN {r \in rs : \A S \in SUBSET rs : closed(S) => r \in S}
ParentsAreReadFirst ==
  eo.pc = "failed" /\ eo.failedAt = "reads" /\ Grounded(eo.b) = Elems(eo.b.op.reads) =>
    eo.missing \intersect DOMAIN eo.b.resources = {}

\* The lets bound before the requires are all that can be: the least set
\* closed under "every name it reads is a read's or in the set", whatever the
\* lets are called (resolveLets).
LetsAreTheLeastFixpoint ==
  eo.pc = "requires" =>
    LET lets == Elems(Early(eo.b.op))
        given == {"id"} \union UNION {{r.name, r.name \o "_found"} : r \in Elems(eo.b.op.reads)}
        closed(S) == \A l \in lets : l.refs \subseteq given \union {x.name : x \in S} => l \in S
        reachable == {l \in lets : \A S \in SUBSET lets : closed(S) => l \in S}
    IN /\ {l \in lets : l.name \in eo.names} = reachable
       /\ eo.letErr = (reachable # lets)

-----------------------------------------------------------------------------
(***************************************************************************)
(* The tag conditions of Azure blobs (internal/bir/tagexpr.go): a          *)
(* recursive-descent parser whose result is evaluated over an object's     *)
(* tags, and the separate scan that lists the keys an expression reads.    *)
(*                                                                         *)
(* An expression is a sequence of tokens [t, v]: the words "and", "or" and *)
(* "not", parentheses, a bare or quoted name, "@container", an operator    *)
(* and a literal; values are numbers in the order of the strings they      *)
(* stand for.                                                              *)
(***************************************************************************)

CONSTANTS
  TxKeys,       \* tag names
  TxValues,     \* values of tags, and literals
  TxShapes      \* the explored expressions, as trees

\* tx.tree: the expression; tx.tags: key -> value, 0 where there is none;
\* tx.got: what parsing and evaluating its text gives.
VARIABLE tx
txvars == <<tx>>

Token(t, v) == [t |-> t, v |-> v]
At(s, pos, t) == pos <= Len(s) /\ s[pos].t = t
Parsed(ok, pos, val) == [ok |-> ok, pos |-> pos, val |-> val]
Malformed == Parsed(FALSE, 0, FALSE)

\* The evaluator of one comparison: a missing tag matches nothing.
CompareTag(have, op, value) ==
  CASE op = "=" -> have = value
    [] op = "<>" -> have # value
    [] op = ">" -> have > value
    [] op = ">=" -> have >= value
    [] op = "<" -> have < value
    [] OTHER -> have <= value

\* parseComparison, with parseOperand.
ParseComparison(s, pos, tags) ==
  IF /\ pos + 2 <= Len(s) /\ s[pos].t \in {"name", "quoted", "container", "and", "or", "not"}
     /\ s[pos + 1].t = "op" /\ s[pos + 2].t = "lit"
  THEN LET have == IF s[pos].t = "container" THEN tags["@container"]
      ELSE IF s[pos].v \in DOMAIN tags THEN tags[s[pos].v] ELSE 0
       IN Parsed(TRUE, pos + 3, have # 0 /\ CompareTag(have, s[pos + 1].v, s[pos + 2].v))
  ELSE Malformed

RECURSIVE ParseOr(_, _, _), ParseAnd(_, _, _), ParseUnary(_, _, _), MoreAnd(_, _, _), MoreOr(_, _, _)

ParseUnary(s, pos, tags) ==
  LET negated == ParseUnary(s, pos + 1, tags)
      inner == ParseOr(s, pos + 1, tags)
  IN CASE At(s, pos, "not") -> IF negated.ok THEN [negated EXCEPT !.val = ~@] ELSE Malformed
       [] At(s, pos, "(") -> IF inner.ok /\ At(s, inner.pos, ")") THEN [inner EXCEPT !.pos = @ + 1]
            ELSE Malformed
       [] OTHER -> ParseComparison(s, pos, tags)

MoreAnd(s, left, tags) ==
  LET right == ParseUnary(s, left.pos + 1, tags)
  IN IF ~left.ok \/ ~At(s, left.pos, "and") THEN left
     ELSE IF ~right.ok THEN Malformed ELSE MoreAnd(s, Parsed(TRUE, right.pos, left.val /\ right.val), tags)

ParseAnd(s, pos, tags) == MoreAnd(s, ParseUnary(s, pos, tags), tags)

MoreOr(s, left, tags) ==
  LET right == ParseAnd(s, left.pos + 1, tags)
  IN IF ~left.ok \/ ~At(s, left.pos, "or") THEN left
     ELSE IF ~right.ok THEN Malformed ELSE MoreOr(s, Parsed(TRUE, right.pos, left.val \/ right.val), tags)

ParseOr(s, pos, tags) == MoreOr(s, ParseAnd(s, pos, tags), tags)

\* ParseTagExpr: nothing may follow the expression.
ParseTagExpr(s, tags) ==
  LET e == ParseOr(s, 1, tags) IN IF e.ok /\ e.pos = Len(s) + 1 THEN e ELSE Malformed

\* TagExprKeys: quoted keys, and bare words an operator follows.
TagExprKeys(s) ==
  {s[i].v : i \in {i \in DOMAIN s : s[i].t = "quoted" \/ (s[i].t = "name" /\ At(s, i + 1, "op"))}}

(***************************************************************************)
(* Trees: <<"cmp", token, op, value>>, <<"not", t>>, <<"and", l, r>>,      *)
(* <<"or", l, r>>, and the text of a tree with the fewest parentheses.     *)
(***************************************************************************)
Bracketed(text, on) == IF on THEN <<Token("(", "")>> \o text \o <<Token(")", "")>> ELSE text
RECURSIVE TextOfTree(_), Holds(_, _), KeysOf(_)
TextOfTree(e) ==
  CASE e[1] = "cmp" -> <<e[2], Token("op", e[3]), Token("lit", e[4])>>
    [] e[1] = "not" -> <<Token("not", "not")>> \o Bracketed(TextOfTree(e[2]), e[2][1] \in {"and", "or"})
    [] e[1] = "and" -> Bracketed(TextOfTree(e[2]), e[2][1] = "or") \o <<Token("and",
         "and")>> \o Bracketed(TextOfTree(e[3]), e[3][1] = "or")
    [] OTHER -> TextOfTree(e[2]) \o <<Token("or", "or")>> \o TextOfTree(e[3])
Holds(e, tags) ==
  CASE e[1] = "cmp" -> tags[e[2].v] # 0 /\ CompareTag(tags[e[2].v], e[3], e[4])
    [] e[1] = "not" -> ~Holds(e[2], tags)
    [] e[1] = "and" -> Holds(e[2], tags) /\ Holds(e[3], tags)
    [] OTHER -> Holds(e[2], tags) \/ Holds(e[3], tags)
KeysOf(e) == CASE e[1] = "cmp" -> {e[2].v} \ {"@container"} [] e[1] = "not" -> KeysOf(e[2]) [] OTHER -> KeysOf(e[2]) \union KeysOf(e[3])

TxInit ==
  \E e \in TxShapes, f \in [TxKeys -> TxValues \union {0}], c \in TxValues :
    tx = [tree |-> e, tags |-> [k \in TxKeys \union {"@container"} |-> IF k = "@container" THEN c
        ELSE f[k]], got |-> Malformed, keys |-> {}, pc |-> "ask"]
EvaluateTags ==
  /\ tx.pc = "ask"
  /\ tx' = [tx EXCEPT !.pc = "told", !.got = ParseTagExpr(TextOfTree(tx.tree), tx.tags),
       !.keys = TagExprKeys(TextOfTree(tx.tree))]

(***************************************************************************)
(* Properties                                                              *)
(***************************************************************************)

\* An expression written with no more parentheses than it needs is accepted
\* and means what it says, and no expression is accepted with one parenthesis
\* too many or its end cut off.
ExpressionsMeanTheirText ==
  tx.pc = "told" =>
    LET text == TextOfTree(tx.tree) IN
    /\ tx.got.ok /\ tx.got.val = Holds(tx.tree, tx.tags)
    /\ ~ParseTagExpr(Append(text, Token(")", "")), tx.tags).ok
    /\ ~ParseTagExpr(SubSeq(text, 1, Len(text) - 1), tx.tags).ok

\* The scan and the parser agree on what an expression reads: FilterBlobs
\* answers exactly the tags the condition is about.
ScanFindsWhatIsRead == tx.pc = "told" => tx.keys = KeysOf(tx.tree)

\* Loading a bundle: split over files it means what one file means, every name
\* an accepted operation uses is bound before its use, parents are read before
\* what lies in them, and a tag expression means its text, with exactly its
\* keys asked for.
BundlesHold ==
  /\ SplitIsWhole /\ NamesHaveABinder /\ ParentsAreReadFirst
  /\ LetsAreTheLeastFixpoint /\ ExpressionsMeanTheirText
  /\ ScanFindsWhatIsRead
=============================================================================
