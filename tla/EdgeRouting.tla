---------------------------- MODULE EdgeRouting -----------------------------
(***************************************************************************)
(* Matching a request's path and query against the address patterns of a   *)
(* service model (internal/proto/aws/httpuri/httpuri.go).                  *)
(*                                                                         *)
(* A pattern is a sequence of segments [kind, v], kind "literal", "label"  *)
(* or "greedy", and a set of query constraints <<key, value>>, where the   *)
(* value "" asks only for the key.  An operation is [name, method,         *)
(* addresses]; names are numbers, so that they have an order.              *)
(***************************************************************************)
EXTENDS Integers, Sequences, FiniteSets
LOCAL INSTANCE SequencesExt
LOCAL INSTANCE FiniteSetsExt

CONSTANTS
  HuAddresses,  \* sequences of segments of the explored patterns
  HuConstraints,\* sets of query constraints of the explored patterns
  HuPaths,      \* paths of the explored requests
  HuQueries     \* queries of the explored requests

\* The operations of a model in the order it lists them, and a request.
VARIABLE hu
huvars == <<hu>>

Kinds(segments, k) == {i \in DOMAIN segments : segments[i].kind = k}

\* Parse: what matching and ranking need to know of a pattern.
Parse(segments, query) ==
  [segments |-> segments, query |-> query, literals |-> Cardinality(Kinds(segments, "literal")),
   greedy |-> Kinds(segments, "greedy") # {},
   bad |-> \E i \in DOMAIN segments : segments[i].kind # "literal" /\ segments[i].v = ""]

Satisfies(query, constraints) ==
  \A c \in constraints : \E q \in query : q[1] = c[1] /\ c[2] \in {"", q[2]}

\* One segment of match: a greedy label leaves what the segments after it
\* still need.
MatchSegment(p, parts, m, i) ==
  LET seg == p.segments[i]
      take == IF seg.kind = "greedy" THEN Len(parts) - m.at - (Len(p.segments) - i) ELSE 1
  IN IF ~m.ok \/ take < 1 \/ m.at + take > Len(parts) \/ (seg.kind = "literal" /\ parts[m.at + 1] # seg.v)
     THEN [m EXCEPT !.ok = FALSE]
     ELSE [m EXCEPT !.at = @ + take,
                    !.bound = IF seg.kind = "literal" THEN @ ELSE @ \union
                        {<<seg.v, SubSeq(parts, m.at + 1, m.at + take)>>}]

\* Pattern.match
MatchPattern(p, parts, query) ==
  LET walked == FoldLeft(LAMBDA m, i : MatchSegment(p, parts, m, i), [ok |-> TRUE, at |-> 0, bound |-> {}],
                         [i \in DOMAIN p.segments |-> i])
  IN IF p.bad \/ ~Satisfies(query, p.query) \/ ~walked.ok \/ walked.at # Len(parts)
     THEN [ok |-> FALSE, bound |-> {}] ELSE [ok |-> TRUE, bound |-> walked.bound]

\* Claims: some address other than the root matches.
ClaimsPath(op, parts, query) ==
  \E i \in DOMAIN op.addresses : op.addresses[i].segments # <<>> /\ MatchPattern(op.addresses[i],
      parts, query).ok

\* Bind: the labels by the first address that matches.
Bind(op, parts, query) ==
  LET hit == SelectSeq(op.addresses, LAMBDA p : MatchPattern(p, parts, query).ok)
  IN IF hit = <<>> THEN {} ELSE MatchPattern(hit[1], parts, query).bound

\* Match's order: the most constrained pattern, then the operation's name.
Beats(a, b) ==
  LET rank(c) == <<Cardinality(c.p.query), c.p.literals, IF c.p.greedy THEN 0 ELSE 1, -c.op.name>>
  IN \E k \in 1..4 : rank(a)[k] > rank(b)[k] /\ \A j \in 1..k - 1 : rank(a)[j] = rank(b)[j]

\* Match: the candidates in the order listed, stably sorted.
NoOperation == [op |-> [name |-> 0, method |-> "", addresses |-> <<>>], p |-> Parse(<<>>, {})]
MatchOperation(ops, method, parts, query) ==
  LET listed == FlattenSeq([i \in DOMAIN ops |-> [j \in DOMAIN ops[i].addresses |-> [op |-> ops[i],
      p |-> ops[i].addresses[j]]]])
      found == SelectSeq(listed, LAMBDA c : c.op.method = method /\ MatchPattern(c.p, parts, query).ok)
  IN FoldLeft(LAMBDA best, c : IF best = NoOperation \/ Beats(c, best) THEN c ELSE best, NoOperation, found)

HuInit ==
  \E a, b \in HuAddresses, ca, cb \in HuConstraints, parts \in HuPaths, query \in HuQueries :
    hu = [ops |-> <<[name |-> 1, method |-> "GET", addresses |-> <<Parse(a, ca), Parse(b, cb)>>],
                    [name |-> 2, method |-> "GET", addresses |-> <<Parse(b, ca)>>]>>,
          parts |-> parts, query |-> query, got |-> NoOperation, bound |-> {}, pc |-> "route"]
Route ==
  /\ hu.pc = "route"
  /\ LET best == MatchOperation(hu.ops, "GET", hu.parts, hu.query)
     IN hu' = [hu EXCEPT !.pc = "routed", !.got = best, !.bound = Bind(best.op, hu.parts, hu.query)]

(***************************************************************************)
(* Properties                                                              *)
(***************************************************************************)

\* How a pattern with at most one greedy label can cover a path.
Covers(p, parts) ==
  {len \in [DOMAIN p.segments -> 1..Len(parts)] :
     LET start(i) == MapThenSumSet(LAMBDA j : len[j], 1..i - 1)
     IN /\ start(Len(p.segments) + 1) = Len(parts)
        /\ \A i \in DOMAIN p.segments :
             /\ p.segments[i].kind # "greedy" => len[i] = 1
             /\ p.segments[i].kind = "literal" => parts[start(i) + 1] = p.segments[i].v}

\* match accepts a path exactly when it can be cut into the pattern's segments,
\* a greedy label in the middle taking what the others leave.
PatternsMeanTheirPaths == hu.pc = "routed" =>
  \A i \in DOMAIN hu.ops : \A j \in DOMAIN hu.ops[i].addresses :
    LET p == hu.ops[i].addresses[j]
    IN Cardinality(Kinds(p.segments, "greedy")) <= 1 =>
         (MatchPattern(p, hu.parts, hu.query).ok <=> ~p.bad /\ Satisfies(hu.query,
             p.query) /\ Covers(p, hu.parts) # {})

\* Match's comment: "the choice does not depend on the order the model happens
\* to list operations in".
ChoiceIgnoresListing ==
  hu.pc = "routed" => MatchOperation(Reverse(hu.ops), "GET", hu.parts, hu.query).op = hu.got.op

-----------------------------------------------------------------------------
(***************************************************************************)
(* The HTTP edge (internal/edge/edge.go, internal/edge/resolve.go): which  *)
(* service of the bundle a request is for, and what the request passes     *)
(* before a pack answers it.                                               *)
(*                                                                         *)
(* A service is [id, provider, name, prefix, aliases, target, hosts, ops]: *)
(* id a number that gives the identifiers' order; name a label; prefix     *)
(* and hosts sequences of labels.  A request is [host, scope, target,      *)
(* action, arn, method, parts, query, ...]; scope is the service named in  *)
(* the credential scope.  Tests for a substring of the path are tests for  *)
(* one of its parts.                                                       *)
(***************************************************************************)

CONSTANTS
  EdBundles,    \* the orders the services may be listed in
  EdFips,       \* from a FIPS label to the label it marks
  EdAccounts,   \* path parts with the shape of an account number
  EdSent,       \* requests: [from, req], from the service meant or 0
  EdServed      \* requests to an s3-like and another service, with their faults

\* ed.bundle: the services in order; ed.sent: the request and whom it is for;
\* ed.got: the service chosen.  es: a request on its way through ServeHTTP.
VARIABLES ed, es
edvars == <<ed, es>>

NoService == [id |-> 0]
First(seq) == IF seq = <<>> THEN NoService ELSE seq[1]
ServiceByID(bundle, provider, name) == First(SelectSeq(bundle,
    LAMBDA s : s.provider = provider /\ s.name = name))
Aws(bundle, name) == ServiceByID(bundle, "aws", name)
Has(seq, x) == \E i \in DOMAIN seq : seq[i] = x

\* endpointHost: "-fips" counts only where a label ends with it and another
\* follows.
EndpointHost(host) ==
  [i \in DOMAIN host |-> IF i < Len(host) /\ host[i] \in DOMAIN EdFips THEN EdFips[host[i]] ELSE host[i]]
HostLabel(host) == IF host = <<>> THEN "" ELSE EndpointHost(host)[1]

\* serviceByHostPrefix: of the dotted prefixes the host begins with, the
\* longest, the first listed of equals.
ServiceByHostPrefix(bundle, host) ==
  LET fits == SelectSeq(bundle, LAMBDA s : Len(s.prefix) > 1 /\ IsPrefix(s.prefix, EndpointHost(host)))
  IN First(SelectSeq(fits, LAMBDA s : \A i \in DOMAIN fits : Len(fits[i].prefix) <= Len(s.prefix)))

AnswersTo(s, label) == s.prefix = <<label>> \/ label \in s.aliases

\* claims: the model describes the request, by target, action or path.
Claims(s, r) ==
  CASE r.target # "" -> s.target = r.target \/ \E i \in DOMAIN s.ops : s.ops[i].name = r.op
    [] r.target = "" /\ r.action # "" -> \E i \in DOMAIN s.ops : s.ops[i].name = r.op
    [] OTHER -> MatchOperation(s.ops, r.method, r.parts, r.query) # NoOperation

\* serviceByLabel: the one that claims the request, the namesake, the first
\* by identifier.  (clientSpellings adds two more labels to two services.)
ServiceByLabel(bundle, r, label) ==
  LET candidates == SetToSortSeq({s \in ToSet(bundle) : s.name = label \/ AnswersTo(s, label)},
      LAMBDA a, b : a.id < b.id)
      claimed == SelectSeq(candidates, LAMBDA s : Claims(s, r))
      namesake == SelectSeq(candidates, LAMBDA s : s.name = label)
  IN CASE label = "" \/ candidates = <<>> -> NoService
       [] Len(candidates) > 1 /\ Len(claimed) = 1 -> claimed[1]
       [] Len(candidates) > 1 /\ Len(claimed) # 1 /\ namesake # <<>> -> namesake[1]
       [] OTHER -> candidates[1]

ResolveByModel(bundle, r) ==
  LET byPrefix == ServiceByHostPrefix(bundle, r.host)
      byLabel == ServiceByLabel(bundle, r, HostLabel(r.host))
  IN CASE byPrefix # NoService -> byPrefix
       [] byPrefix = NoService /\ byLabel # NoService -> byLabel
       [] OTHER -> ServiceByLabel(bundle, r, r.scope)

\* serviceByDeclaredHost: the longest declared host the request's is or is
\* below, the first identifier of equals; never an AWS service.
ServiceByDeclaredHost(bundle, host) ==
  LET h == EndpointHost(host)
      fits == {<<s, d>> \in UNION {{<<s,
          d>> : d \in s.hosts} : s \in ToSet(bundle)} : s.provider # "aws" /\ IsSuffix(d, h)}
      best == {x \in fits : \A y \in fits : Len(y[2]) <= Len(x[2])}
  IN IF h = <<>> \/ best = {} THEN NoService ELSE (CHOOSE x \in best : \A y \in best : x[1].id <= y[1].id)[1]

\* serviceByPath: the only service whose operations match, or none.
ServiceByPath(bundle, r) ==
  LET found == SelectSeq(bundle, LAMBDA s :
                 s.provider \notin {"aws", "azure"} /\ \E i \in DOMAIN s.ops : s.ops[i].method = r.method /\ ClaimsPath(s.ops[i], r.parts, r.query))
  IN IF Len(found) = 1 THEN found[1] ELSE NoService

SqsQueuePath(parts) ==
  \/ Len(parts) = 2 /\ parts[1] \in EdAccounts
  \/ Len(parts) = 4 /\ parts[1] = "queue" /\ parts[3] \in EdAccounts

AwsAddressed(r) == r.target # "" \/ r.scope # "" \/ (Len(r.host) > 1 /\ SubSeq(r.host,
    Len(r.host) - 1, Len(r.host)) = <<"amazonaws", "com">>)

\* The last resorts of demux, in order: what the path tells, or the host.
Begins(r, words) == r.parts # <<>> /\ r.parts[1] \in words
Mentions(r, word) == Has(r.parts, word) \/ Has(r.host, word)
ByPathPart(bundle, r) ==
  LET storage == \E i \in 1..Len(r.parts) - 1 : <<r.parts[i],
      r.parts[i + 1]>> \in {<<"storage", "v1">>, <<"upload", "storage">>}
      tells == <<<<storage, "gcp", "storage">>, <<Has(r.parts, "2015-03-31"), "aws", "lambda">>,
                 <<Begins(r, {"restapis", "apikeys", "usageplans"}) \/ Has(r.parts,
                     "_user_request_"), "aws", "apigateway">>,
                 <<Has(r.parts, "2013-04-01") \/ Has(r.host, "route53"), "aws", "route53">>,
                 <<Has(r.parts, "2020-05-31") \/ Has(r.host, "cloudfront"), "aws", "cloudfront">>,
                 <<Mentions(r, "eks") \/ r.scope = "eks", "aws", "eks">>,
                 <<\E w \in {"_doc", "_search", "opensearch"} : Has(r.parts, w), "aws", "es">>,
                 <<r.target = "" /\ r.action = "", "aws", "s3">>>>
      hits == SelectSeq(tells, LAMBDA f : f[1])
  IN IF hits = <<>> THEN NoService ELSE ServiceByID(bundle, hits[1][2], hits[1][3])

\* X-Amz-Target, by the models' target prefixes and then their endpoints.
ByTarget(bundle, r) ==
  LET exact == SelectSeq(bundle, LAMBDA s : s.target # "" /\ s.target = r.target)
  IN CASE r.target = "" -> NoService
       [] r.target = "streams" -> Aws(bundle, "dynamodb")
       [] r.target \notin {"", "streams"} /\ exact # <<>> -> exact[1]
       [] OTHER -> First(SelectSeq(bundle, LAMBDA s : s.prefix = <<r.target>>))

\* Mistake: the providers' models are asked even when the request names AWS.
ProvidersFirst(bundle, r) ==
  LET byHost == ServiceByDeclaredHost(bundle, r.host)
      byPath == ServiceByPath(bundle, r)
  IN IF byHost # NoService THEN byHost ELSE byPath

\* The providers' resolvers, behind the guard on AWS addressing.
ByProvider(bundle, r) ==
  LET byHost == ServiceByDeclaredHost(bundle, r.host)
      byPath == ServiceByPath(bundle, r)
  IN CASE AwsAddressed(r) /\ ResolveByModel(bundle, r) # NoService -> NoService
       [] ~(AwsAddressed(r) /\ ResolveByModel(bundle, r) # NoService) /\ byHost # NoService -> byHost
       [] OTHER -> byPath

Demux(bundle, r) ==
  LET h == r.host
      steps == <<IF \E i \in 1..Len(h) - 1 : h[i] = "s3" THEN Aws(bundle, "s3") ELSE NoService,
                 ByTarget(bundle, r),
                 IF r.action # "" /\ (SqsQueuePath(r.parts) \/ \E i \in 1..Len(h) - 1 : h[i] = "queue") THEN Aws(bundle, "sqs") ELSE NoService,
                 IF r.action \in {"ConfirmSubscription", "Unsubscribe"} /\ r.arn = "sns"
                     THEN Aws(bundle, "sns") ELSE NoService,
                 ByProvider(bundle, r), ResolveByModel(bundle, r),
                 IF r.action = "" /\ r.method = "GET" /\ SqsQueuePath(r.parts)
                     THEN Aws(bundle, "sqs") ELSE NoService>>
      hits == SelectSeq(steps, LAMBDA s : s # NoService)
  IN IF hits # <<>> THEN hits[1] ELSE ByPathPart(bundle, r)

EdInit ==
  /\ \E b \in EdBundles, s \in EdSent : ed = [bundle |-> b, sent |-> s, got |-> NoService, pc |-> "arrived"]
  /\ es = [pc |-> "none"]
Place ==
  /\ ed.pc = "arrived" /\ UNCHANGED es
  /\ ed' = [ed EXCEPT !.pc = "placed", !.got = Demux(ed.bundle, ed.sent.req)]

(***************************************************************************)
(* ServeHTTP.  es: the request's [kind, s3, placed, exempt, chunked,       *)
(* presign, expired, validates, signed, enabled, known, allowed, op,       *)
(* directive] and how far it came.  kind "internal", "options" or "diag"   *)
(* is answered by the edge itself, chunked is "no", "whole" or "torn",     *)
(* exempt a service the authorizer is not asked about, allowed what it     *)
(* grants.                                                                 *)
(***************************************************************************)
FirstTrue(checks) == SelectSeq(checks, LAMBDA c : c[1])
AnswerOr(checks, pass) ==
  LET failed == FirstTrue(checks)
  IN IF failed = <<>> THEN pass ELSE es' = [es EXCEPT !.pc = "answered", !.answer = failed[1][2]]

\* Up to the codec: what the edge answers itself, torn chunks and presigned
\* faults (S3 only), expiry, then the signature when it is to be validated.
Admit ==
  /\ es.pc = "arrived" /\ UNCHANGED ed
  /\ AnswerOr(<<<<es.kind \in {"internal", "diag"} \/ (es.kind = "options" /\ ~es.s3), "edge">>,
                <<es.s3 /\ es.chunked = "torn", "SignatureDoesNotMatch">>,
                <<es.s3 /\ es.presign, "AuthFault">>,
                <<es.expired, "Expired">>,
                <<es.s3 /\ es.validates /\ ~es.signed, "SignatureDoesNotMatch">>>>,
              es' = [es EXCEPT !.pc = "admitted"])

\* authorizationChecks: a copy reads its source and writes its destination,
\* and tags it when the tags are replaced.
AuthorizationChecks(r) ==
  IF r.s3 /\ r.op = "CopyObject" THEN {"read", "write"} \union
      (IF r.directive = "REPLACE" THEN {"tag"} ELSE {}) ELSE {r.op}

\* From the codec to the pack: an unknown service or operation, a disabled
\* service, the authorizer, then the pack, or the mock for what no pack
\* serves, and the journal.
Dispatch ==
  /\ es.pc = "admitted" /\ UNCHANGED ed
  /\ AnswerOr(<<<<~es.placed, "unknown service">>,
                <<es.op = "unknown", "RouteFault">>,
                <<~es.enabled, "NotImplemented">>,
                <<~es.exempt /\ ~(AuthorizationChecks(es) \subseteq es.allowed), "AccessDenied">>>>,
              es' = [es EXCEPT !.pc = "invoked", !.answer = IF es.known THEN "pack"
                  ELSE "mock", !.journal = @ + 1])

EsInit ==
  /\ \E r \in EdServed : es = [r EXCEPT !.pc = "arrived"]
  /\ ed = [pc |-> "none"]
EsNext == Admit \/ Dispatch

(***************************************************************************)
(* Properties                                                              *)
(***************************************************************************)

\* A request a client addresses to a service, by endpoint, FIPS endpoint,
\* credential scope, target, declared host or path, is given to that service,
\* however the bundle is ordered and whatever the others are called.
RequestsReachTheirService ==
  ed.pc = "placed" /\ ed.sent.from # 0 => ed.got.id = ed.sent.from

\* Who answers "does not depend on the order the bundle lists services in":
\* nor does a request that two services would claim.
PlacementIgnoresOrder ==
  ed.pc = "placed" => \A b \in EdBundles : Demux(b, ed.sent.req) = ed.got

\* What reaches a pack has passed every check its operation needs: a copy the
\* read and the write, with the tags it sets; S3's signature was checked, and
\* the journal has the request once.
InvokedWasAllowed ==
  es.pc = "invoked" =>
    /\ es.placed /\ es.enabled /\ ~es.expired /\ (es.s3 /\ es.validates => es.signed)
    /\ es.journal = 1
    /\ ~es.exempt => IF es.s3 /\ es.op = "CopyObject"
                     THEN {"read", "write"} \subseteq es.allowed /\ (es.directive = "REPLACE" => "tag" \in es.allowed)
                     ELSE es.op \in es.allowed

\* The HTTP edge: a path goes to the operation whose pattern it fits best, a
\* request to the service it was meant for, both whatever the order of
\* listing, and a pack is invoked only for a request that passed its checks.
EdgeHolds ==
  /\ PatternsMeanTheirPaths /\ ChoiceIgnoresListing
  /\ RequestsReachTheirService /\ PlacementIgnoresOrder /\ InvokedWasAllowed
=============================================================================
