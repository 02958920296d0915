------------------------------- MODULE MCEngine ------------------------------
(***************************************************************************)
(* The behaviour engine, its bundles, the services that decide about       *)
(* requests, keys and stacks, and the HTTP edge, for TLC.  The parts share *)
(* no state here: a behaviour exercises one of them, chosen by `focus`.    *)
(***************************************************************************)
EXTENDS EngineHandlers, Bundles, AccessDecisions, Stacks, Recordings, EdgeRouting, S3Replication

VARIABLE focus

enginevars == <<scvars, blvars, eovars, lcvars, rcvars, elvars>>
decidevars == <<imvars, iavars, kmvars, stvars>>
frontvars == <<eqvars, huvars, edvars, cpvars, rpvars, txvars>>
allvars == <<focus, enginevars, decidevars, frontvars>>

(***************************************************************************)
(* Values of the constants                                                 *)
(***************************************************************************)
Timer(d,t) == [deadline |-> d, target |-> t]
Moves(g,t,a,n) == [guard |-> g, target |-> t, arm |-> a, after |-> n]
Stage(timers, on) == [timers |-> timers, on |-> on]
SqsChart == [s \in {"visible","invisible","deleted"} |->
  CASE s = "visible" -> Stage(<<>>, [e \in {"RECEIVE","DELETE"} |-> IF e = "RECEIVE"
      THEN <<Moves({1,2},"invisible","reappear",2)>> ELSE <<Moves({1,2},"deleted","",0)>>])
    [] s = "invisible" -> Stage(<<Timer("reappear","visible")>>,
         [e \in {"CHANGE","DELETE"} |-> IF e = "CHANGE" THEN <<Moves({1},"visible","",0),
         Moves({1,2},"invisible","reappear",1)>> ELSE <<Moves({1,2},"deleted","",0)>>])
    [] OTHER -> Stage(<<>>, NoRows)]
VercelChart == [s \in {"QUEUED","BUILDING","READY","ERROR"} |->
  CASE s = "QUEUED" -> Stage(<<Timer("start","BUILDING")>>,
      [e \in {"CHANGE"} |-> <<Moves({1},"BUILDING","",0), Moves({2},"ERROR","",0)>>])
    [] s = "BUILDING" -> Stage(<<Timer("finish","READY"),Timer("fail","ERROR")>>,
         [e \in {"CHANGE"} |-> <<Moves({2},"ERROR","",0)>>])
    [] OTHER -> Stage(<<>>, NoRows)]
Born(s,d) == [state |-> s, deadlines |-> d]
MCBirths == {Born("visible",NoRows), Born("invisible",[d \in {"reappear"} |-> 1])}
  \union {Born("QUEUED",[d \in {"start",f} |-> IF d = "start" THEN 2
      ELSE n]) : f \in {"finish","fail"}, n \in {1,2,4}}
MCCharts == {SqsChart, VercelChart}
MCEvents == [name : {"RECEIVE","CHANGE","DELETE"}, to : {1,2}]

Doc(sc, na, re, me) == [scalar |-> sc, list |-> [f \in BlLists |-> IF f = "native" THEN na ELSE <<>>],
  map |-> [f \in BlMaps |-> CASE f = "resources" -> re [] f = "missing_input_messages" -> me [] OTHER -> {}]]
MCScalars == {[f \in BlScalars |-> CASE f = "schema" -> s [] f = "shadow" -> sh [] OTHER -> ""] : s \in {"","1","2"}, sh \in {"", "why"}}
OneDoc == {Doc(s,n,r,m) : s \in MCScalars, n \in {<<>>,<<"A">>}, r \in {{},{"q"},{"q","m"}},
    m \in {{},{"Body"}}}
MCDocs == {<<a>> : a \in OneDoc} \union {<<a,b>> : a \in OneDoc, b \in OneDoc}

Resource(p, a, k) == [parent |-> p, address |-> a, asks |-> k]
Declared == [par |-> Resource("", "members", {"Name"}), kid |-> Resource("par", "members", {"Kid"}),
    toy |-> Resource("kid", "singleton", {}), gen |-> Resource("", "generate", {}),
    loop |-> Resource("loop", "members", {"Name"})]
Reads(n, r, k) == [name |-> n, res |-> r, key |-> k]
Let(n, r) == [name |-> n, refs |-> r]
Needed(r) == [refs |-> r, error |-> "Gone"]
Eff(k, r, key, refs, each, bind, g) == [kind |-> k, res |-> r, key |-> key, refs |-> refs,
    each |-> each, bind |-> bind, guarded |-> g]
Plain(k, r, refs) == Eff(k, r, NoExpr, refs, FALSE, "", FALSE)
OpReads == {<<>>, <<Reads("k", "kid", NoExpr), Reads("p", "par", NoExpr)>>,
  <<Reads("a", "toy", NoExpr), Reads("k", "kid", NoExpr), Reads("p", "par", NoExpr)>>,
      <<Reads("k", "kid", NoExpr), Reads("t", "toy", NoExpr)>>,
  <<Reads("k", "kid", {"p"}), Reads("p", "par", NoExpr)>>, <<Reads("p", "par", NoExpr)>>,
      <<Reads("p", "par", {"items"})>>}
OpLets == {<<>>, <<Let("u", {"v"}), Let("v", {"w"}), Let("w", {"id"})>>, <<Let("u", {"v"}), Let("v", {"u"})>>,
  <<Let("u", {"p", "v"}), Let("v", {"p_found"})>>, <<Let("u", {"got", "v"}), Let("v", {"id"})>>,
      <<Let("u", {"items"})>>}
OpRequires == {<<>>, <<Needed({"p_found"}), Needed({"u"})>>, <<Needed({"v"})>>,
    <<Needed({"got"}), Needed({"n"})>>, <<Needed({"rec"})>>, <<Needed({"par"})>>}
OpSelects == {NoSelect, [binding |-> "got", count |-> "n", res |-> "kid"]}
OpEffects == {<<>>, <<Plain("create", "gen", {"id"})>>, <<Plain("put", "kid", NoExpr),
    Plain("counter", "", {"fx.put"})>>,
  <<Eff("put", "par", {"item"}, {"u"}, TRUE, "", FALSE)>>,
      <<Eff("patch", "par", NoExpr, {"rec"}, FALSE, "", TRUE)>>,
  <<Plain("emit", "", NoExpr)>>, <<Eff("generate", "", NoExpr, NoExpr, FALSE, "tok", TRUE),
      Plain("delete", "par", {"fx.tok"})>>,
  <<Eff("execute", "", NoExpr, NoExpr, FALSE, "job", FALSE)>>}
OpLists == {"", "kid"}
OpOutputs == {NoExpr, {"rec"}, {"items"}, {"fx.create"}, {"got"}}
LongForm == [crud : {[verb |-> "", res |-> "", error |-> ""]}, reads : OpReads, lets : OpLets,
    requires : OpRequires, select : OpSelects, effects : OpEffects, list : OpLists, output : OpOutputs]
ShortForm == [crud : [verb : {"get", "create", "put", "delete"}, res : {"par", "gen", "none"},
    error : {"", "Gone"}], reads : {<<>>}, lets : {<<>>}, requires : {<<>>}, select : {NoSelect},
    effects : {<<>>}, list : {""}, output : {NoExpr}]
MCBundles == {[resources |-> Declared, errors |-> {"Gone"}, members |-> m,
    op |-> o] : m \in {{"Name", "Kid"}}, o \in LongForm} \union
  {[resources |-> Declared, errors |-> {"Gone"}, members |-> m, op |-> o] : m \in {{"Name"},
      {"Kid"}}, o \in ShortForm}

Number(v) == [kind |-> "number", value |-> v]
MCInstants == {-1, 2, 9}
MCFirst == {0, 5}
MCSince == {[kind |-> "none", value |-> 0], Number(2 * 8), Number(2 * 8 + 3), [kind |-> "word",
    value |-> 0], Number(12 * 8 + 1)}

Sent(p, k, v, x, n) == [par |-> p, kid |-> k, val |-> v, extra |-> x, new |-> n]
MCSent == {Sent("a", "g1", 1, "", "b"), Sent("b", "", 2, "e", "c"), Sent("a", "g2", 2, "", "g1")}
Does(kind, res, key, each, where, sp, sets, m) == [kind |-> kind, res |-> res, key |-> key,
    each |-> each, where |-> where, spread |-> sp, sets |-> sets, missing |-> m]
Plainly(kind, res, sets) == Does(kind, res, "", <<>>, 0, FALSE, sets, "")
MCOps == {
  [reads |-> <<>>, effects |-> <<Plainly("create", "kid", {}), Plainly("put", "par", {"set"})>>],
  [reads |-> <<[res |-> "par", key |-> ""]>>, effects |-> <<Plainly("patch", "kid", {"set"}),
      Plainly("patch", "par", {"set"})>>],
  [reads |-> <<[res |-> "par", key |-> "b"], [res |-> "kid", key |-> ""]>>,
      effects |-> <<Plainly("patch", "par", {"set"}), Plainly("delete", "kid", {})>>],
  [reads |-> <<>>, effects |-> <<Does("create", "kid", "", <<"a", "b">>, 0, TRUE, {"set"}, ""),
      Does("patch", "kid", "", <<>>, 1, FALSE, {"name"}, "")>>],
  [reads |-> <<>>, effects |-> <<Does("put", "par", "item", <<"a", "b">>, 0, FALSE, {"set"},
      "ignore"), Does("delete", "par", "", <<>>, 2, FALSE, {}, "")>>],
  [reads |-> <<[res |-> "kid", key |-> "g1"]>>, effects |-> <<Does("put", "kid", "", <<>>, 1, TRUE,
      {}, ""), Plainly("patch", "kid", {"set"})>>],
  [reads |-> <<>>, effects |-> <<Does("patch", "kid", "g1", <<>>, 0, FALSE, {"name"}, "ignore"),
      Plainly("put", "kid", {})>>]}

UpTo(S, n) == UNION {[1..k -> S] : k \in 0..n}
MCPatterns == UpTo({"a", "b", "*", "?"}, 3)
MCSubjects == UpTo({"a", "b"}, 4)
MCUnits == {[u \in {"ou", "up"} |-> IF u = "ou" THEN "up" ELSE top] : top \in {"root", "ou"}}
Entry(l, k, n, nr, refs) == [logical |-> l, kind |-> k, name |-> n, nameRef |-> nr, refs |-> refs,
    badConfig |-> FALSE]
MCTemplates ==
  {<<Entry("A", "queue", "shared", "", {}), Entry("B", "table", "", "", {"A"})>>,
   <<Entry("A", "key", "", "", {}), Entry("B", "bucket", "", "", {"A"}),
       Entry("C", "table", "", "A", {"A"})>>,
   <<Entry("A", "table", "", "B", {}), Entry("B", "queue", "shared", "", {})>>,
   <<Entry("A", "key", "", "", {}), [Entry("B", "bucket", "", "", {}) EXCEPT !.badConfig = TRUE]>>,
   <<Entry("B", "queue", "", "", {}), Entry("C", "other", "", "", {})>>}

MCIssued == <<"t1","t2","t3","t4">>
MCDraws == {<<"u1","u2","u3","u4">>, <<"t2","t1","t3","t4">>, <<"t1","t2","t3","t4">>,
    <<"t3","u1","t2","t1">>}

Seg(k, v) == [kind |-> k, v |-> v]
MCAddresses == {<<>>, <<Seg("literal","x")>>, <<Seg("label","L")>>,
    <<Seg("literal","x"),Seg("label","L")>>,<<Seg("label","L"),Seg("literal","x")>>,
  <<Seg("greedy","G")>>, <<Seg("literal","x"),Seg("greedy","G")>>,
      <<Seg("greedy","G"),Seg("literal","x")>>,
      <<Seg("literal","x"),Seg("greedy","G"),Seg("label","L")>>, <<Seg("label","")>>}
MCConstraints == {{}, {<<"k","">>}, {<<"k","1">>}}
MCUriPaths == UNION {[1..n -> {"x","y"}] : n \in 0..3}
MCQueries == {{}, {<<"k","1">>}, {<<"k","2">>}}

Lit(v) == Seg("literal", v)
Op(n, segs) == [name |-> n, method |-> "GET", addresses |-> <<Parse(segs, {})>>]
Svc(id, p, n, prefix, al, t, hosts, ops) == [id |-> id, provider |-> p, name |-> n,
    prefix |-> prefix, aliases |-> al, target |-> t, hosts |-> hosts, ops |-> ops]
Gw == Svc(1, "aws", "apigateway", <<"apigateway">>, {}, "", {}, <<Op(1, <<Lit("restapis")>>)>>)
Gw2 == Svc(2, "aws", "apigatewayv2", <<"apigateway">>, {"apigateway"}, "", {},
    <<Op(2, <<Lit("v2"), Lit("apis")>>)>>)
Dyn == Svc(3, "aws", "dynamodb", <<"dynamodb">>, {}, "DynamoDB", {}, <<Op(3, <<>>)>>)
Ecr == Svc(4, "aws", "ecr", <<"api","ecr">>, {"ecr"}, "Ecr", {}, <<Op(4, <<>>)>>)
Pin == Svc(5, "aws", "pinpoint", <<"pinpoint">>, {"mobiletargeting"}, "", {},
    <<Op(5, <<Lit("v1"), Lit("apps")>>)>>)
S3s == Svc(6, "aws", "s3", <<"s3">>, {}, "", {}, <<Op(6, <<Seg("label","Bucket")>>)>>)
Sqs == Svc(7, "aws", "sqs", <<"sqs">>, {}, "AmazonSQS", {}, <<Op(7, <<>>)>>)
Fly == Svc(8, "fly", "machines", <<>>, {}, "", {<<"api","machines","dev">>},
    <<Op(8, <<Lit("v1"), Lit("apps")>>), Op(11, <<Lit("v1"), Lit("hooks")>>)>>)
Ver == Svc(9, "vercel", "api", <<>>, {}, "", {<<"vercel","com">>},
    <<Op(9, <<Lit("v9"), Lit("projects")>>), Op(12, <<Lit("v1"), Lit("hooks")>>)>>)
Kvs == Svc(10, "vercel", "kv", <<>>, {}, "", {<<"kv","vercel","com">>},
    <<Op(10, <<Lit("get"), Seg("label","k")>>)>>)
All == <<Gw, Gw2, Dyn, Ecr, Pin, S3s, Sqs, Fly, Ver, Kvs>>
Rev(s) == [i \in DOMAIN s |-> s[Len(s) + 1 - i]]
Swap == <<Gw2, Ver, Gw, Kvs, Ecr, Fly, Sqs, S3s, Pin, Dyn>>
MCListings == {All, Rev(All), Swap}
MCFips == [l \in {"dynamodb-fips", "ecr-fips"} |-> IF l = "dynamodb-fips" THEN "dynamodb" ELSE "ecr"]
AwsTail == <<"us", "amazonaws", "com">>
BareRequest == [host |-> <<"localhost">>, scope |-> "", target |-> "", op |-> 0, action |-> "",
    arn |-> "", method |-> "GET", parts |-> <<>>, query |-> {}]
Hosts == {<<"localhost">>, <<"api">>, <<"api","us","amazonaws","com">>, <<"apigateway">> \o AwsTail,
    <<"dynamodb">> \o AwsTail, <<"kv","vercel","com">>, <<"a","kv","vercel","com">>,
    <<"vercel","com">>, <<"api","ecr">> \o AwsTail, <<"b","s3">> \o AwsTail, <<"queue","us">>}
Parts == {<<>>, <<"restapis">>, <<"v2","apis">>, <<"v1","apps">>, <<"v1","hooks">>,
    <<"v9","projects">>, <<"000","q">>, <<"b">>, <<"get","k">>, <<"storage","b">>}
AnyRequest == {[from |-> 0, req |-> [BareRequest EXCEPT !.host = h, !.parts = p, !.scope = s,
    !.action = a, !.op = IF a = "" THEN 0 ELSE 3]] : h \in Hosts, p \in Parts,
    s \in {"", "apigateway", "pinpoint"}, a \in {"", "Unsubscribe"}}
Meant(n, r) == [from |-> n, req |-> r]
Sdk(n, hosts, scopes, parts) == {Meant(n, [BareRequest EXCEPT !.host = h, !.parts = parts,
    !.scope = s]) : h \in hosts, s \in scopes}
MCEdSent == AnyRequest \union
  Sdk(1, {<<"apigateway">> \o AwsTail, <<"localhost">>}, {"apigateway"}, <<"restapis">>) \union
  Sdk(2, {<<"apigateway">> \o AwsTail, <<"localhost">>}, {"apigateway"}, <<"v2","apis">>) \union
  Sdk(3, {<<"dynamodb">> \o AwsTail, <<"dynamodb-fips">> \o AwsTail, <<"localhost">>}, {"dynamodb"},
      <<>>) \union
  Sdk(4, {<<"api","ecr">> \o AwsTail, <<"api","ecr-fips">> \o AwsTail, <<"localhost">>}, {"ecr"}, <<>>) \union
  Sdk(5, {<<"pinpoint">> \o AwsTail, <<"localhost">>}, {"mobiletargeting"}, <<"v1","apps">>) \union
  Sdk(6, {<<"b","s3">> \o AwsTail, <<"s3">> \o AwsTail, <<"localhost">>}, {"s3"}, <<"b">>) \union
  Sdk(8, {<<"api","machines","dev">>, <<"localhost">>}, {""}, <<"v1","apps">>) \union
  Sdk(9, {<<"vercel","com">>, <<"api","vercel","com">>, <<"localhost">>}, {""}, <<"v9","projects">>) \union
  Sdk(10, {<<"kv","vercel","com">>, <<"mine","kv","vercel","com">>, <<"localhost">>}, {""},
      <<"get","k">>) \union
  {Meant(3, [BareRequest EXCEPT !.target = t, !.op = 3]) : t \in {"DynamoDB", "streams"}} \union
  {Meant(7, [BareRequest EXCEPT !.action = "Send", !.parts = <<"000","q">>, !.op = 7])}
Asked(kind, where, c, p, e, v, n, k, a, o, d) == [pc |-> "none", answer |-> "", journal |-> 0,
    kind |-> kind, s3 |-> where = "s3", placed |-> where # "nowhere", exempt |-> where = "iam",
   chunked |-> c, presign |-> p, expired |-> e, validates |-> v # "never", signed |-> v = "signed",
       enabled |-> n, known |-> k, allowed |-> a, op |-> o, directive |-> d]
MCServed == {Asked(kind, w, c, FALSE, e, v, n, TRUE, a, o, d) : kind \in {"plain", "options"},
    w \in {"s3", "iam", "sqs", "nowhere"}, c \in {"no", "torn"}, e \in BOOLEAN,
    v \in {"never", "signed", "unsigned"}, n \in BOOLEAN,
     a \in SUBSET {"read", "write", "tag"}, o \in {"CopyObject", "read"}, d \in {"", "REPLACE"}}
  \union {Asked(kind, "s3", "whole", p, FALSE, "never", TRUE, k, {"read"}, o,
      "") : kind \in {"plain", "internal", "diag"}, p \in BOOLEAN, k \in BOOLEAN, o \in {"read", "unknown"}}

Word(v) == [field |-> "word", v |-> v]
Ask(m, p, q, a, b) == [method |-> m, path |-> p, query |-> q, auth |-> a, reqbody |-> b]
Fake == [field |-> "===", v |-> <<"GET", <<"x">>, <<>>, <<>>>>]
MCProxied == {Ask("GET", <<"x">>, <<>>, "A1", <<>>), Ask("GET", <<"x">>, <<>>, "A2", <<Word("b")>>),
    Ask("GET", <<"x", "S">>, <<<<"token","T">>, <<"a","S">>>>, "", <<Word("S")>>)}
MCHeard == {[status |-> 1, headers |-> <<"A1">>, respbody |-> <<Fake, Word("S")>>], [status |-> 2,
    headers |-> <<>>, respbody |-> <<Word("A1"), [field |-> "status", v |-> 7]>>]}

Rule(to, tag, m, on) == [to |-> to, tag |-> tag, markers |-> m, on |-> on]
MCRules == {<<>>, <<Rule("b1", "", TRUE, TRUE)>>, <<Rule("b1", "t", FALSE, TRUE),
    Rule("b2", "", FALSE, TRUE)>>, <<Rule("b2","",TRUE,FALSE), Rule("b1","u",FALSE,TRUE)>>}

Atoms == {<<"cmp", Token("name","k"), "=", 1>>, <<"cmp", Token("quoted","j"), "<>", 1>>,
    <<"cmp", Token("container","@container"), ">=", 2>>}
Grow(S) == S \union {<<"not", a>> : a \in S} \union {<<o, a, b>> : o \in {"and","or"}, a \in S, b \in S}
MCShapes == Grow(Atoms) \union {<<o, a, b>> : o \in {"and","or"}, a \in Grow(Atoms), b \in Atoms} \union
    {<<"not", a>> : a \in Grow(Atoms)} \union {<<o, a, b>> : o \in {"and","or"}, b \in Grow(Atoms),
    a \in Atoms}

(***************************************************************************)
(* The specification                                                       *)
(***************************************************************************)
Foci == {"chart", "load", "order", "cursor", "records", "list", "glob", "statement", "authorize",
    "keys", "stacks",
         "replay", "uri", "edge", "serve", "cassette", "replicas", "tags"}
One(S) == {CHOOSE x \in S : TRUE}

MCInit ==
  /\ focus \in Foci
  /\ ScInit /\ (focus # "chart" => scChart = SqsChart /\ scRec.state = "visible")
  /\ IF focus = "load" THEN BlInit ELSE bl = [docs |-> <<>>, at |-> 1, out |-> EmptyService,
       problem |-> FALSE]
  /\ IF focus = "order" THEN EoInit ELSE eo = [pc |-> "done"]
  /\ LcInit /\ (focus # "cursor" => lc.seq = 0)
  /\ RcInit
  /\ IF focus = "list" THEN ElInit
     ELSE el = [rows |-> NoRows, ties |-> {}, token |-> 0, served |-> <<>>, at |-> "idle",
         pages |-> 0, steady |-> {}, changes |-> 0, hollow |-> FALSE, narrow |-> 0]
  /\ IF focus = "glob" THEN GmInit ELSE gm = GmBegin(<<>>, <<>>)
  /\ IF focus = "statement" THEN ImInit ELSE im = [verdict |-> "none"]
  /\ IaInit /\ (focus # "authorize" => iaKey = "none" /\ iaMember = {} /\ iaParent \in One(IaTrees))
  /\ KmInit /\ StInit
  /\ IF focus = "replay" THEN EqInit ELSE eq = [phase |-> "none"]
  /\ IF focus = "uri" THEN HuInit ELSE hu = [pc |-> "none"]
  /\ CASE focus = "edge" -> EdInit [] focus = "serve" -> EsInit [] OTHER -> ed = [pc |-> "none"] /\ es = [pc |-> "none"]
  /\ CpInit /\ (focus # "cassette" => cp.mode = "off")
  /\ RpInit /\ (focus # "replicas" => rp.rules = <<>>)
  /\ IF focus = "tags" THEN TxInit ELSE tx = [pc |-> "none"]

On(f) == focus = f /\ UNCHANGED focus
EngineStep ==
  \/ On("chart") /\ ScNext /\ UNCHANGED <<blvars, eovars, lcvars, rcvars, elvars>>
  \/ On("load") /\ BlStep /\ UNCHANGED <<scvars, eovars, lcvars, rcvars, elvars>>
  \/ On("order") /\ EoNext /\ UNCHANGED <<scvars, blvars, lcvars, rcvars, elvars>>
  \/ On("cursor") /\ LcNext /\ UNCHANGED <<scvars, blvars, eovars, rcvars, elvars>>
  \/ On("records") /\ RcNext /\ UNCHANGED <<scvars, blvars, eovars, lcvars, elvars>>
  \/ On("list") /\ ElNext /\ UNCHANGED <<scvars, blvars, eovars, lcvars, rcvars>>
DecideStep ==
  \/ On("glob") /\ GmStep /\ UNCHANGED <<iavars, kmvars, stvars>>
  \/ On("statement") /\ EvaluateStatement /\ UNCHANGED <<iavars, kmvars, stvars>>
  \/ On("authorize") /\ IaNext /\ UNCHANGED <<imvars, kmvars, stvars>>
  \/ On("keys") /\ KmNext /\ UNCHANGED <<imvars, iavars, stvars>>
  \/ On("stacks") /\ StNext /\ UNCHANGED <<imvars, iavars, kmvars>>
FrontStep ==
  \/ On("replay") /\ EqNext /\ UNCHANGED <<huvars, edvars, cpvars, rpvars, txvars>>
  \/ On("uri") /\ Route /\ UNCHANGED <<eqvars, edvars, cpvars, rpvars, txvars>>
  \/ On("edge") /\ Place /\ UNCHANGED <<eqvars, huvars, cpvars, rpvars, txvars>>
  \/ On("serve") /\ EsNext /\ UNCHANGED <<eqvars, huvars, cpvars, rpvars, txvars>>
  \/ On("cassette") /\ CpNext /\ UNCHANGED <<eqvars, huvars, edvars, rpvars, txvars>>
  \/ On("replicas") /\ RpNext /\ UNCHANGED <<eqvars, huvars, edvars, cpvars, txvars>>
  \/ On("tags") /\ EvaluateTags /\ UNCHANGED <<eqvars, huvars, edvars, cpvars, rpvars>>
MCNext ==
  \/ EngineStep /\ UNCHANGED <<decidevars, frontvars>>
  \/ UNCHANGED <<enginevars, frontvars>> /\ DecideStep
  \/ UNCHANGED <<enginevars, decidevars>> /\ FrontStep
MCSpec == MCInit /\ [][MCNext]_allvars

\* Records of the engine: timers applied on reading leave what timers applied
\* in time would, a record lies under the key it names, effects write the row
\* they read, and walks of listings and cursors serve what stays in place
\* once.
RecordsHold ==
  /\ LazyIsEager /\ RowsAreWhereTheySay /\ EffectsStayOnTheirRow
  /\ WalkServesWhatStays /\ OwnCursorsAreRead /\ JoinsAreOwn
  /\ ListingIsComplete /\ NoItemTwice

\* authorization, keys and stacks: patterns and statements mean what their
\* grammar says, a decision over policies that do not change is the one they
\* give, a ciphertext opens under the key that made it only, and what a stack
\* made is among its resources.
DecisionsHold ==
  /\ GlobMeans /\ StatementMeans /\ SteadyPoliciesDecide
  /\ BlobsBelongToTheirKey /\ MadeIsListed

\* No step of a stack's deletion removes what the rest still refers to, no
\* patch touches a field it does not name, and no deletion reaches beyond the
\* bucket and the replicas its rules name.
EngineSteps == ReferredToLast /\ PatchesKeepTheRest /\ DeletesStayLocal
=============================================================================
