-------------------------------- MODULE MCData --------------------------------
(***************************************************************************)
(* S3, DynamoDB and Cloud Storage for TLC.  The parts share no state here: *)
(* a behaviour exercises one of them, chosen by `focus`; three foci look   *)
(* at the objects of an S3 key from a different side each, with the bounds *)
(* that side needs.                                                        *)
(***************************************************************************)
EXTENDS S3Objects, S3PartsAndPages, DynamoItems, DynamoQueries, GcsObjects, TLC

VARIABLE focus

tablevars == <<ddvars, exvars, pgvars, dfvars, gcvars, glvars>>
s3allvars == <<s3vars, mpvars, s3pgvars, rgvars>>
datavars == <<focus, tablevars, s3allvars>>

(***************************************************************************)
(* Values of the constants                                                 *)
(***************************************************************************)
W(k, t, key, c, it) == [kind |-> k, tab |-> t, key |-> key, cond |-> c, item |-> it]
It(n) == [n |-> n, exp |-> Forever]
Brief(n) == [n |-> n, exp |-> 1]
Wr(g, w) == [op |-> "write", at |-> g, w |-> w]
Tx(tok, ws) == [op |-> "transact", at |-> "east", token |-> tok, ws |-> ws]
Tabs0 == [id \in {"east"} \X {"t", "pair", "count"} |-> [view |-> IF id[2] = "t" THEN "images"
    ELSE "off", reps |-> {}]]
Menu(who, calls) == [reqs |-> who, ops |-> calls]
MCFolded == [n \in {3, 4, 6} |-> IF n = 6 THEN 5 ELSE 2]
MCSizes == <<[number |-> 1, size |-> 2], [number |-> 3, size |-> 1]>>

MCDdHome == <<"east", "t">>
MCDdMenus ==
  {Menu({1},
     {Wr("east", W("Put", "t", "a", "", Brief(1))), Wr("east", W("Delete", "t", "a", "", Missing)),
      Wr("east", W("Update", "t", "a", "attribute_exists", Missing)), [op |-> "expire",
          at |-> "east", tab |-> "t"],
      [op |-> "batch", at |-> "east", ws |-> <<W("Put", "t", "b", "", It(2)),
          W("Delete", "t", "a", "", Missing)>>],
      [op |-> "batch", at |-> "east", ws |-> <<W("Put", "t", "b", "", Brief(2)),
          W("Put", "gone", "a", "", It(1))>>],
      [op |-> "statements", at |-> "east", atomic |-> TRUE,
       ws |-> <<W("Put", "t", "b", "", It(1)), W("Put", "gone", "a", "", It(1)),
           W("Delete", "t", "a", "", Missing)>>],
      [op |-> "statements", at |-> "east", atomic |-> FALSE,
       ws |-> <<W("Put", "gone", "a", "", It(1)), W("Update", "t", "b", "", Missing)>>],
      Tx("", <<W("Delete", "t", "a", "attribute_exists", Missing),
          W("Put", "t", "b", "attribute_not_exists", It(1))>>)}),
   Menu({1},
     {[op |-> "replicate", at |-> "east", tab |-> "t", to |-> "west"],
      [op |-> "unreplicate", at |-> "west", tab |-> "t", to |-> "west"],
      [op |-> "unreplicate", at |-> "east", tab |-> "t", to |-> "west"],
      Wr("east", W("Put", "t", "a", "", It(1))), Wr("west", W("Update", "t", "a", "", Missing)),
      Wr("west", W("Delete", "t", "a", "", Missing))}),
   Menu({1},
     {[op |-> "create", at |-> "east", tab |-> "t", view |-> "images"], [op |-> "drop",
         at |-> "east", tab |-> "t"],
      [op |-> "stream", at |-> "east", tab |-> "t", view |-> "keys"],
      [op |-> "kinesis", at |-> "east", tab |-> "t", on |-> TRUE],
      [op |-> "kinesis", at |-> "east", tab |-> "t", on |-> FALSE],
      [op |-> "backup", at |-> "east", tab |-> "t"], [op |-> "restore", at |-> "east", tab |-> "t",
          to |-> "east"],
      Wr("east", W("Put", "t", "a", "", It(1))), Wr("east", W("Update", "t", "a", "", Missing))}),
   Menu({1, 2},
     {Tx("x", <<W("Put", "pair", "a", "attribute_not_exists", It(1)), W("Put", "pair", "b", "", It(1))>>),
      Tx("x", <<W("Update", "pair", "a", "", It(1)), W("Update", "pair", "b", "", It(1))>>),
      Tx("", <<W("Delete", "pair", "a", "", It(1)), W("Delete", "pair", "b", "attribute_exists", It(1))>>),
      Tx("", <<W("Update", "pair", "b", "", It(2)), W("Update", "pair", "a", "attribute_not_exists",
          It(2))>>)}),
   Menu({1, 2},
     {Wr("east", W("Update", "count", "a", "", Missing)),
         Wr("east", W("Delete", "count", "a", "attribute_exists", Missing)),
      [op |-> "batch", at |-> "east", ws |-> <<W("Put", "count", "a", "", It(1))>>]})}

LessN == Node("<", <<Leaf("n"), Leaf(":2")>>)
HasM == Node("attribute_exists", <<Leaf("m")>>)
Atoms ==
  {LessN, HasM, Node("BETWEEN", <<Leaf("n"), Leaf(":1"), Leaf(":2")>>),
      Node("IN", <<Leaf("m"), Leaf(":1"), Leaf(":2")>>)}
Joined(A, B) == {Node(op, <<a, b>>) : op \in {"AND", "OR"}, a \in A, b \in B}
Nots(S) == {Node("NOT", <<a>>) : a \in S}
Shallow == Atoms \union Joined(Atoms, Atoms) \union Nots(Atoms)
MCTrees ==
  Shallow \union Joined(Shallow, {LessN, HasM}) \union Nots(Shallow) \union
      Joined({LessN}, Joined(Atoms, Atoms))
Placeholders == [x \in {":1", ":2"} |-> IF x = ":1" THEN 1 ELSE 2]
MCItems == {f @@ Placeholders : f \in UNION {[D -> 0..2] : D \in SUBSET {"n", "m"}}}
Clause(k, n, rhs) == [kind |-> k, name |-> n, rhs |-> rhs]
Clauses ==
  {Clause("SET", "n", <<":1">>), Clause("SET", "n", <<"n", "+", "m">>),
   Clause("SET", "m", <<"if_not_exists", "(", "m", ",", ":2", ")">>),
   Clause("REMOVE", "n", <<>>), Clause("ADD", "n", <<":2">>), Clause("ADD", "m", <<"n">>)}
MCUpdates == UNION {[1..k -> Clauses] : k \in 1..2}

MCGcData == <<1, 2, 3>>
MCGcOther == {<<7>>, <<>>}
\* A folder's objects are consecutive, as a prefix's names are in an ordered listing.
MCGlFolders ==
  {f \in [1..4 -> 0..2] :
     \A a, b \in 1..4 : a < b /\ f[a] # 0 /\ f[b] # 0 => f[a] < f[b] \/ \A c \in a..b : f[c] = f[a]}

(***************************************************************************)
(* The specification                                                       *)
(***************************************************************************)
ObjectFoci == {"concurrent", "locks", "versions"}
S3Foci == ObjectFoci \union {"multipart", "keys", "ranges"}
Foci == S3Foci \union {"items", "expression", "paging", "definition", "objects", "listing"}
One(S) == {CHOOSE x \in S : TRUE}
Of(f, S) == IF focus = f THEN S ELSE One(S)

NoMultipart == /\ uploads = NoRows /\ mpObj = NoContent /\ mpReq = [r \in MpReqs |-> IdleMp]
               /\ mpOps = 0 /\ stored = {} /\ wrote = {}
NoPaging == /\ listing = "V1" /\ delimiter = FALSE /\ maxKeys = 1 /\ names = {} /\ stable = {}
            /\ token = 0 /\ got = << >> /\ pgEnd = "" /\ pgChanges = 0
NoRanges == ask = [op |-> "none"] /\ answer = NoAnswer

S3Start ==
  /\ S3Init /\ (focus \notin ObjectFoci => vstatus = "")
  /\ IF focus = "multipart" THEN MultipartInit ELSE NoMultipart
  /\ IF focus = "keys" THEN S3PagingInit ELSE NoPaging
  /\ IF focus = "ranges" THEN RangesInit ELSE NoRanges

MCInit ==
  /\ focus \in Foci /\ S3Start
  /\ ddMenu \in Of("items", DdMenus) /\ DynamoInit
  /\ exTree \in Of("expression", ExTrees) /\ exItem \in Of("expression", ExItems)
  /\ exUpdate \in (IF exTree = LessN THEN Of("expression", ExUpdates) ELSE One(ExUpdates)) /\ ExprInit
  /\ pgView \in Of("paging", PgViews) /\ pgLimit \in Of("paging", PgLimits) /\ PagingInit
  /\ focus # "paging" => \A k \in PgKeys : pgItems[k].ok /\ pgItems[k].other = 1
  /\ DefsInit /\ GcsInit
  /\ glFolder \in Of("listing", GlFolders) /\ ListingInit /\ (focus # "listing" => glMax = 1)

On(f) == focus = f /\ UNCHANGED focus
OtherThanObjects == UNCHANGED <<mpvars, s3pgvars, rgvars>>

S3Step ==
  \/ /\ On("concurrent") /\ OtherThanObjects /\ ~raced
     /\ S3Requests(S3Reqs, BOOLEAN) \/ S3Tagging \/ S3Buckets
     /\ ops' < S3Ops
  \/ /\ On("locks") /\ OtherThanObjects /\ ~raced
     /\ S3Requests(S3Reqs, {FALSE}) \/ S3Locks \/ S3Buckets
     /\ ops' < S3Ops
  \/ On("versions") /\ OtherThanObjects /\ ((\E r \in S3Reqs : Alone(r) /\ S3Requests({r}, {FALSE})) \/ S3Listing)
  \/ On("multipart") /\ MultipartNext /\ UNCHANGED <<s3vars, s3pgvars, rgvars>>
  \/ On("keys") /\ S3PagingNext /\ UNCHANGED <<s3vars, mpvars, rgvars>>
  \/ On("ranges") /\ RangesNext /\ UNCHANGED <<s3vars, mpvars, s3pgvars>>

TableStep ==
  \/ On("items") /\ DynamoNext /\ UNCHANGED <<exvars, pgvars, dfvars, gcvars, glvars>>
  \/ On("paging") /\ PagingNext /\ UNCHANGED <<ddvars, exvars, dfvars, gcvars, glvars>>
  \/ On("definition") /\ DefsNext /\ UNCHANGED <<ddvars, exvars, pgvars, gcvars, glvars>>
  \/ On("objects") /\ GcsNext /\ UNCHANGED <<ddvars, exvars, pgvars, dfvars, glvars>>
  \/ On("listing") /\ ListingNext /\ UNCHANGED <<ddvars, exvars, pgvars, dfvars, gcvars>>

MCNext ==
  \/ S3Step /\ UNCHANGED tablevars
  \/ UNCHANGED s3allvars /\ TableStep
MCSpec == MCInit /\ [][MCNext]_datavars

Symmetries == Permutations(S3Reqs) \cup Permutations(MpReqs)

\* What a client reads back: a range and a ranged copy give the same bytes,
\* exactly those asked for, parts tile their object, a Cloud Storage object's
\* record describes the bytes stored, and a listing page by page, in S3,
\* DynamoDB and Cloud Storage, has what stays in place throughout exactly once,
\* with its prefix once, whatever comes and goes beside it.
ReadsHold ==
  /\ RangeExact /\ PartsTile /\ CopyAgreesWithRead /\ UploadWhole /\ RecordMatchesBlob
  /\ PagingComplete /\ ListingComplete /\ PagesComplete /\ ListsOnce

\* Writes of a DynamoDB table: its stream rebuilds it, replicas agree, no
\* concurrent ADD is lost, a transaction is seen whole or not at all and once
\* per token, conditions mean what they say, and capacity goes with the
\* billing mode.
TablesHold ==
  /\ StreamRebuilds /\ ReplicasAgree /\ NoLostAdd /\ TransactionsWhole
  /\ CapacityFollowsMode /\ ConditionMeans /\ UpdateToldWhole
=============================================================================
