-------------------------- MODULE AccessDecisions ---------------------------
(***************************************************************************)
(* Which statements of a policy speak about a request                      *)
(* (iam/authorizer.go): the wildcard matcher, a loop that goes back to     *)
(* the last star, and the condition operators.  A pattern and a subject    *)
(* are sequences of characters because the loop is about them.             *)
(***************************************************************************)
EXTENDS Tables, Integers, Sequences, FiniteSets
LOCAL INSTANCE SequencesExt

CONSTANTS
  GmPatterns, GmSubjects,  \* sequences of characters; "*" and "?" are the wildcards of a pattern
  ImValues                 \* the values a condition key may have

VARIABLES
  gm,   \* globMatch: [pat, s, p, i, star, retry, verdict]; offsets from 0 as in the code
  im    \* one statement against one request, and whether it matched

imvars == <<gm, im>>

(***************************************************************************)
(* globMatch                                                               *)
(***************************************************************************)
GmBegin(pat, s) == [pat |-> pat, s |-> s, p |-> 0, i |-> 0, star |-> -1, retry |-> 0, verdict |-> "none"]
AtPattern(c) == gm.p < Len(gm.pat) /\ gm.pat[gm.p + 1] \in c

GmAdvance ==
  /\ gm.verdict = "none" /\ gm.i < Len(gm.s) /\ AtPattern({"?", gm.s[gm.i + 1]})
  /\ gm' = [gm EXCEPT !.p = @ + 1, !.i = @ + 1]

GmStar ==
  /\ gm.verdict = "none" /\ gm.i < Len(gm.s) /\ ~AtPattern({"?", gm.s[gm.i + 1]}) /\ AtPattern({"*"})
  /\ gm' = [gm EXCEPT !.star = gm.p, !.retry = gm.i, !.p = @ + 1]

\* The last star takes one more character; without one there is no match.
GmRetry ==
  /\ gm.verdict = "none" /\ gm.i < Len(gm.s) /\ ~AtPattern({"?", gm.s[gm.i + 1], "*"})
  /\ gm' = IF gm.star >= 0 THEN [gm EXCEPT !.retry = @ + 1, !.i = gm.retry + 1, !.p = gm.star + 1]
           ELSE [gm EXCEPT !.verdict = "no"]

\* Stars left over at the end match nothing.
GmEnd ==
  /\ gm.verdict = "none" /\ gm.i >= Len(gm.s)
  /\ gm' = IF AtPattern({"*"}) THEN [gm EXCEPT !.p = @ + 1]
           ELSE [gm EXCEPT !.verdict = IF gm.p = Len(gm.pat) THEN "yes" ELSE "no"]

(***************************************************************************)
(* Statements                                                              *)
(***************************************************************************)

\* One entry of a Condition block: [op, ifExists, expected, key]; the
\* request's value of the key, or NoValue.
NoValue == -1
NumericOps == {"NumericEquals", "NumericNotEquals", "NumericLessThan", "NumericLessThanEquals",
    "NumericGreaterThan", "NumericGreaterThanEquals"}
NumericMatch(op, a, expected) ==
  CASE op = "NumericNotEquals" -> a \notin expected
    [] op = "NumericEquals" -> a \in expected
    [] op = "NumericLessThan" -> \E b \in expected : a < b
    [] op = "NumericLessThanEquals" -> \E b \in expected : a <= b
    [] op = "NumericGreaterThan" -> \E b \in expected : a > b
    [] op = "NumericGreaterThanEquals" -> \E b \in expected : a >= b

\* conditionsMatch, for one operator and key.  Patterns are the sets of
\* values they match.
EntryMatches(e, actual) ==
  LET present == actual # NoValue
      equal == actual \in e.expected
  IN \/ ~present /\ e.op # "Null" /\ e.ifExists
     \/ CASE e.op \in {"StringEquals", "ArnEquals", "StringLike", "ArnLike"} -> present /\ equal
          [] e.op \in {"StringNotEquals", "ArnNotEquals", "StringNotLike",
               "ArnNotLike"} -> ~(present /\ equal)
          [] e.op \in NumericOps -> present /\ NumericMatch(e.op, actual, e.expected)
          [] e.op = "Null" -> e.wantNull # present
          [] OTHER -> FALSE

ConditionsMatch(entries, values) == \A e \in entries : EntryMatches(e, values[e.key])

\* A clause names its member ("Action", "NotAction", or "" when the statement
\* has neither) and whether its patterns match; `none` when the list is empty.
ActionMatches(c) == ~c.none /\ c.hit
StatementActionMatches(c) == IF c.member = "Action" THEN ActionMatches(c) ELSE ~ActionMatches(c)
ResourceMatches(c) == c.none \/ c.hit
StatementResourceMatches(c) == IF c.member = "Resource" THEN ResourceMatches(c) ELSE ~ResourceMatches(c)

EffectMatch(st, values) ==
  /\ StatementActionMatches(st.action)
  /\ StatementResourceMatches(st.resource)
  /\ ConditionsMatch(st.conditions, values)

EvaluateStatement ==
  /\ im.verdict = "none"
  /\ im' = [im EXCEPT !.verdict = IF EffectMatch(im.st, im.values) THEN "yes" ELSE "no"]
  /\ UNCHANGED gm

GmStep == (GmAdvance \/ GmStar \/ GmRetry \/ GmEnd) /\ UNCHANGED im

(***************************************************************************)
(* The inputs                                                              *)
(***************************************************************************)
ImKeys == {"k", "l"}
ImEntries ==
  [op : {"StringEquals", "StringNotLike", "NumericLessThan", "NumericNotEquals", "Null", "Bool"},
   ifExists : BOOLEAN, expected : {{1}, {1, 2}, {}}, wantNull : BOOLEAN, key : ImKeys]
ImClauses(yes, no) == [member : {yes, no}, none : {FALSE}, hit : BOOLEAN] \union
    [member : {no}, none : {TRUE}, hit : {FALSE}]
ImStatements ==
  [action : ImClauses("Action", "NotAction"), resource : ImClauses("Resource", "NotResource"),
      conditions : {{}}]
  \union [action : {[member |-> "Action", none |-> FALSE, hit |-> TRUE]},
          resource : {[member |-> "Resource", none |-> FALSE, hit |-> TRUE]},
          conditions : {{e} : e \in ImEntries} \union {{e,
              f} : e \in {x \in ImEntries : x.key = "k" /\ x.expected = {1}},
              f \in {x \in ImEntries : x.key = "l" /\ x.op = "StringEquals"}}]
GmInit == \E pat \in GmPatterns, s \in GmSubjects : gm = GmBegin(pat, s)
ImInit == \E st \in ImStatements, v \in [ImKeys -> ImValues \union {NoValue}] : im = [st |-> st,
    values |-> v, verdict |-> "none"]

(***************************************************************************)
(* Properties                                                              *)
(***************************************************************************)

\* What a pattern means: a star stands for any run of characters.
RECURSIVE Denotes(_, _)
Denotes(pat, s) ==
  IF pat = <<>> THEN s = <<>>
  ELSE IF Head(pat) = "*" THEN Denotes(Tail(pat), s) \/ (s # <<>> /\ Denotes(pat, Tail(s)))
  ELSE s # <<>> /\ Head(pat) \in {"?", Head(s)} /\ Denotes(Tail(pat), Tail(s))

\* The loop that goes back only to the last star finds a match exactly when
\* there is one, for every pattern and every subject without a star in it.
GlobMeans == gm.verdict # "none" => (gm.verdict = "yes" <=> Denotes(gm.pat, gm.s))

\* A statement speaks about a request when its action, resource and every
\* condition do: a Not-member where its counterpart would not, a negated
\* operator where its plain one does not even if the key is missing, an
\* IfExists operator also when it is missing, and an operator the code does
\* not know never.
StatementMeans ==
  im.verdict # "none" =>
    LET st == im.st
        plain(e) == CASE e.op = "StringNotLike" -> "in" [] e.op = "NumericNotEquals" -> "notin" [] OTHER -> e.op
        says(e) ==
          LET v == im.values[e.key]
          IN CASE e.op = "Bool" -> v = NoValue /\ e.ifExists
               [] e.op = "Null" -> e.wantNull <=> v = NoValue
               [] e.op \notin {"Bool", "Null"} /\ v = NoValue -> e.ifExists \/ plain(e) = "in"
               [] e.op \notin {"Bool", "Null"} /\ v # NoValue ->
                    CASE plain(e) \in {"in", "notin"} -> v \notin e.expected
                      [] plain(e) = "StringEquals" -> v \in e.expected
                      [] OTHER -> \E b \in e.expected : v < b
    IN im.verdict = "yes" <=>
         /\ st.action.hit = (st.action.member = "Action")
         /\ ~st.resource.none /\ st.resource.hit = (st.resource.member = "Resource")
         /\ \A e \in st.conditions : says(e)

-----------------------------------------------------------------------------
(***************************************************************************)
(* Authorisation of one request (iam/authorizer.go) while the policies it  *)
(* reads are being changed.  The authorizer reads the store record by      *)
(* record: the access key, the user's inline policies, the attachments,    *)
(* each attached policy and its default version, the groups and theirs,    *)
(* and last the service control policies.  What a document says of the     *)
(* request is all that matters of it.                                      *)
(***************************************************************************)

CONSTANTS
  IaGroups, IaPolicies,  \* groups and managed policies
  IaUnits, IaTrees,      \* organisational units; unit -> its parent, a unit or "root"
  IaMaxChanges           \* bound on administrative steps

VARIABLES
  iaKey,       \* the access key: "none", "Active", "Inactive"
  iaInline,    \* iamup, iamgp: holder -> document
  iaAttached,  \* iamuatt, iamgable: holder -> set of policies
  iaPolicy,    \* iampolicy: policy -> [doc, default]
  iaVersions,  \* iampolver: policy -> version -> document
  iaMember,    \* iamug: the user's groups
  iaParent,    \* oou: unit -> its parent; the account hangs from "ou"
  iaScp,       \* oattach, opolicy: target -> document
  iaReq,       \* the request being authorised
  iaLeft,      \* the second effect of a CreatePolicyVersion under way
  iaChanges,
  iaSteady,    \* ghost: the places that have denied since the request began
  iaSteadyYes, \* ghost: the places that have allowed it since then
  iaClean      \* ghost: since then no document anywhere has denied, and there is no control policy

iavars == <<iaKey, iaInline, iaAttached, iaPolicy, iaVersions, iaMember, iaParent, iaScp, iaReq,
    iaLeft, iaChanges, iaSteady, iaSteadyYes, iaClean>>
iaStore == <<iaKey, iaInline, iaAttached, iaPolicy, iaVersions, iaMember, iaParent, iaScp, iaLeft, iaChanges>>

\* "empty" is a document without statements, which is not loaded.
IaDocs == {"none", "empty", "silent", "allow", "deny"}
Loaded(doc) == doc \notin {"none", "empty"}
Holders == {"user"} \union IaGroups
Idle == [pc |-> "idle", todo |-> <<>>, docs |-> {}, answer |-> ""]

IaInit ==
  /\ iaKey \in {"none", "Active"} /\ iaMember \in {{}, IaGroups}
  /\ iaInline \in [Holders -> {"none"}] /\ iaAttached = [h \in Holders |-> {}]
  /\ iaPolicy = [p \in IaPolicies |-> [doc |-> "silent", default |-> 1]]
  /\ iaVersions = [p \in IaPolicies |-> NoRows]
  /\ iaParent \in IaTrees
  /\ iaScp = [t \in {"root", "account"} \union IaUnits |-> "none"]
  /\ iaReq = Idle /\ iaLeft = <<>> /\ iaChanges = 0
  /\ iaSteady = {} /\ iaSteadyYes = {} /\ iaClean = FALSE

(***************************************************************************)
(* Reading                                                                 *)
(***************************************************************************)

\* loadSCPDocs: the root, the units above the account as far as they are not
\* seen twice, and the account.
RECURSIVE Above(_, _)
Above(u, seen) == IF u = "root" \/ u \in seen THEN seen ELSE Above(iaParent[u], seen \union {u})
Targets == {"root", "account"} \union Above("ou", {})

\* The document an attached policy stands for: its default version's when
\* that is another than v1 and is found, else the one it was created with.
EffectiveDoc(p) ==
  IF p \notin DOMAIN iaPolicy THEN "none"
  ELSE LET v == iaPolicy[p].default
       IN IF v # 1 /\ v \in DOMAIN iaVersions[p] THEN iaVersions[p][v] ELSE iaPolicy[p].doc

Places(effect) ==
  {<<"inline", h>> : h \in {x \in {"user"} \union iaMember : iaInline[x] = effect}}
  \union {q \in {"attached"} \X ({"user"} \union iaMember) \X IaPolicies \X (1..IaMaxChanges + 1) :
            q[3] \in iaAttached[q[2]] /\ q[3] \in DOMAIN iaPolicy /\ iaPolicy[q[3]].default = q[4] /\ EffectiveDoc(q[3]) = effect}
ScpPlaces(effect) == {<<"scp", t>> : t \in {x \in Targets : iaScp[x] = effect}}
NothingDenies ==
  /\ \A h \in Holders : iaInline[h] # "deny"
  /\ \A p \in DOMAIN iaPolicy : iaPolicy[p].doc # "deny"
  /\ \A p \in IaPolicies, v \in 1..IaMaxChanges + 1 : v \in DOMAIN iaVersions[p] => iaVersions[p][v] # "deny"
  /\ \A t \in DOMAIN iaScp : ~Loaded(iaScp[t])

\* What holds after the step is compared with what has held since the request began.
Watch ==
  /\ iaSteady' = iaSteady \intersect (Places("deny") \union ScpPlaces("deny"))'
  /\ iaSteadyYes' = iaSteadyYes \intersect Places("allow")'
  /\ iaClean' = (iaClean /\ NothingDenies')

\* principal: a request signed with an inactive key is refused at once.
Authorize ==
  /\ iaReq.pc = "idle"
  /\ iaReq' = IF iaKey = "Inactive" THEN [Idle EXCEPT !.pc = "done", !.answer = "denied"]
              ELSE [Idle EXCEPT !.pc = "load", !.todo = <<<<"inline", "user">>, <<"list", "user">>,
                  <<"groups">>>>]
  /\ iaSteady' = (Places("deny") \union
       ScpPlaces("deny")) /\ iaSteadyYes' = Places("allow") /\ iaClean' = NothingDenies
  /\ UNCHANGED iaStore

With(docs, doc) == IF Loaded(doc) THEN docs \union {doc} ELSE docs
\* Mistake: an attached policy is its first version.
LoadFirstVersion ==
  /\ iaReq.pc = "load" /\ iaReq.todo # <<>>
  /\ LET at == Head(iaReq.todo)
         rest == Tail(iaReq.todo)
         next(todo, docs) == [iaReq EXCEPT !.todo = todo, !.docs = docs]
     IN iaReq' =
          CASE at[1] = "inline" -> next(rest, With(iaReq.docs, iaInline[at[2]]))
            [] at[1] = "list" -> next([i \in 1..Cardinality(iaAttached[at[2]]) |-> <<"policy",
                 SetToSeq(iaAttached[at[2]])[i]>>] \o rest, iaReq.docs)
            [] at[1] = "policy" ->
                 IF at[2] \notin DOMAIN iaPolicy THEN next(rest, iaReq.docs)
                 ELSE next(rest, With(iaReq.docs, iaPolicy[at[2]].doc))
            [] at[1] = "groups" ->
                 next(FlattenSeq([i \in 1..Cardinality(iaMember) |-> LET g == SetToSeq(iaMember)[i] IN <<<<"inline", g>>, <<"list", g>>>>]), iaReq.docs)
  /\ UNCHANGED iaStore

\* The next record: a list brings the records it names, a policy its default version.
LoadDoc ==
  /\ iaReq.pc = "load" /\ iaReq.todo # <<>>
  /\ LET at == Head(iaReq.todo)
         rest == Tail(iaReq.todo)
         next(todo, docs) == [iaReq EXCEPT !.todo = todo, !.docs = docs]
     IN iaReq' =
          CASE at[1] = "inline" -> next(rest, With(iaReq.docs, iaInline[at[2]]))
            [] at[1] = "list" -> next([i \in 1..Cardinality(iaAttached[at[2]]) |-> <<"policy",
                 SetToSeq(iaAttached[at[2]])[i]>>] \o rest, iaReq.docs)
            [] at[1] = "policy" ->
                 IF at[2] \notin DOMAIN iaPolicy THEN next(rest, iaReq.docs)
                 ELSE IF iaPolicy[at[2]].default = 1 THEN next(rest, With(iaReq.docs, iaPolicy[at[2]].doc))
                 ELSE next(<<<<"version", at[2], iaPolicy[at[2]].default,
                     iaPolicy[at[2]].doc>>>> \o rest, iaReq.docs)
            [] at[1] = "version" ->
                 next(rest, With(iaReq.docs, IF at[3] \in DOMAIN iaVersions[at[2]]
                     THEN iaVersions[at[2]][at[3]] ELSE at[4]))
            [] at[1] = "groups" ->
                 next(FlattenSeq([i \in 1..Cardinality(iaMember) |-> LET g == SetToSeq(iaMember)[i] IN <<<<"inline", g>>, <<"list", g>>>>]), iaReq.docs)
  /\ UNCHANGED iaStore

\* decideWithContext: Deny wins, then no document at all or an Allow.
DecideDocs(docs) == "deny" \notin docs /\ (docs = {} \/ "allow" \in docs)

LoadSCPDocs ==
  /\ iaReq.pc = "load" /\ iaReq.todo = <<>>
  /\ LET scps == {iaScp[t] : t \in {x \in Targets : Loaded(iaScp[x])}}
         good == DecideDocs(iaReq.docs) /\ (scps = {} \/ DecideDocs(scps))
     IN iaReq' = [iaReq EXCEPT !.pc = "done", !.answer = IF good THEN "allowed" ELSE "denied"]
  /\ UNCHANGED iaStore

(***************************************************************************)
(* Administration (behavior/aws/iam, behavior/aws/organizations)           *)
(***************************************************************************)
CountChange == iaChanges < IaMaxChanges /\ iaChanges' = iaChanges + 1 /\ iaReq.pc # "done" /\ UNCHANGED <<iaReq, iaParent>>

PutPolicyDocument(h, doc) ==
  /\ CountChange /\ iaInline' = [iaInline EXCEPT ![h] = doc]
  /\ UNCHANGED <<iaKey, iaAttached, iaPolicy, iaVersions, iaMember, iaScp, iaLeft>>
AttachPolicy(h, p, on) ==
  /\ CountChange /\ iaAttached' = [iaAttached EXCEPT ![h] = IF on THEN @ \union {p} ELSE @ \ {p}]
  /\ UNCHANGED <<iaKey, iaInline, iaPolicy, iaVersions, iaMember, iaScp, iaLeft>>
UpdateAccessKey(status) ==
  /\ CountChange /\ iaKey # "none" /\ iaKey' = status
  /\ UNCHANGED <<iaInline, iaAttached, iaPolicy, iaVersions, iaMember, iaScp, iaLeft>>
PutGroups(groups) ==
  /\ CountChange /\ iaMember' = groups
  /\ UNCHANGED <<iaKey, iaInline, iaAttached, iaPolicy, iaVersions, iaScp, iaLeft>>
AttachScp(t, doc) ==
  /\ CountChange /\ iaScp' = [iaScp EXCEPT ![t] = doc]
  /\ UNCHANGED <<iaKey, iaInline, iaAttached, iaPolicy, iaVersions, iaMember, iaLeft>>

\* CreatePolicyVersion names the new version as the default before it stores it.
CreatePolicyVersion(p, doc, asDefault) ==
  /\ CountChange /\ p \in DOMAIN iaPolicy /\ iaLeft = <<>>
  /\ LET v == MaxOf(DOMAIN iaVersions[p] \union {iaPolicy[p].default, 1}) + 1
     IN /\ iaPolicy' = IF asDefault THEN [iaPolicy EXCEPT ![p].default = v] ELSE iaPolicy
        /\ iaLeft' = <<p, v, doc>>
  /\ UNCHANGED <<iaKey, iaInline, iaAttached, iaVersions, iaMember, iaScp>>
StorePolicyVersion ==
  /\ iaLeft # <<>> /\ iaLeft' = <<>>
  /\ iaVersions' = [iaVersions EXCEPT ![iaLeft[1]] = Put(@, iaLeft[2], iaLeft[3])]
  /\ UNCHANGED <<iaKey, iaInline, iaAttached, iaPolicy, iaMember, iaParent, iaScp, iaReq, iaChanges>>
SetDefaultPolicyVersion(p, v) ==
  /\ CountChange /\ p \in DOMAIN iaPolicy /\ v \in DOMAIN iaVersions[p] \union {1} /\ iaLeft = <<>>
  /\ iaPolicy' = [iaPolicy EXCEPT ![p].default = v]
  /\ UNCHANGED <<iaKey, iaInline, iaAttached, iaVersions, iaMember, iaScp, iaLeft>>
DeletePolicyVersion(p, v) ==
  /\ CountChange /\ v \in DOMAIN iaVersions[p] /\ ~(p \in DOMAIN iaPolicy /\ iaPolicy[p].default = v)
  /\ iaVersions' = [iaVersions EXCEPT ![p] = Del(@, v)]
  /\ UNCHANGED <<iaKey, iaInline, iaAttached, iaPolicy, iaMember, iaScp, iaLeft>>
DeletePolicy(p) ==
  /\ CountChange /\ p \in DOMAIN iaPolicy /\ iaLeft = <<>> /\ iaPolicy' = Del(iaPolicy, p)
  /\ UNCHANGED <<iaKey, iaInline, iaAttached, iaVersions, iaMember, iaScp, iaLeft>>

IaStep ==
  \/ LoadDoc \/ LoadSCPDocs \/ StorePolicyVersion
  \/ \E h \in Holders, doc \in IaDocs : PutPolicyDocument(h, doc)
  \/ \E h \in Holders, p \in IaPolicies, on \in BOOLEAN : AttachPolicy(h, p, on)
  \/ \E status \in {"Active", "Inactive"} : UpdateAccessKey(status)
  \/ \E groups \in SUBSET IaGroups : PutGroups(groups)
  \/ \E t \in {"ou", "account"}, doc \in {"none", "allow", "deny"} : AttachScp(t, doc)
  \/ \E p \in IaPolicies, doc \in {"allow", "deny"}, asDefault \in BOOLEAN : CreatePolicyVersion(p,
       doc, asDefault)
  \/ \E p \in IaPolicies, v \in 1..IaMaxChanges + 1 : SetDefaultPolicyVersion(p,
       v) \/ DeletePolicyVersion(p, v)
  \/ \E p \in IaPolicies : DeletePolicy(p)
IaNext == Authorize \/ (IaStep /\ Watch)

(***************************************************************************)
(* Properties                                                              *)
(***************************************************************************)

\* However the policies change while a request is authorised, a Deny that
\* was in force from beginning to end, in one place, denies it; and an Allow
\* that was, allows it when nothing has denied meanwhile.
SteadyPoliciesDecide ==
  iaReq.pc = "done" /\ iaReq.todo = <<>> /\ iaReq.answer # "" =>
    /\ iaReq.answer = "allowed" => iaSteady = {}
    /\ iaReq.answer = "denied" /\ iaKey = "none" => ~(iaClean /\ iaSteadyYes # {})

-----------------------------------------------------------------------------
(***************************************************************************)
(* The cryptography of KMS (kms/kms.go) over the keys and aliases that     *)
(* behavior/aws/kms keeps.  A ciphertext carries the id of its key; a      *)
(* caller may name a key by an alias that is moved meanwhile.  Material is *)
(* a number; sealing pairs it with the plaintext.  A request reads the     *)
(* alias and the key in two steps.                                         *)
(***************************************************************************)

CONSTANTS
  KmIds,      \* keys
  KmAliases,  \* aliases
  KmMaxSteps  \* bound on requests and changes

VARIABLES
  kmKeys,    \* kms: id -> [state, material]
  kmAlias,   \* kmsalias: alias -> id
  kmBlobs,   \* what callers hold: [id, material, plain, mac]
  kmReq,     \* the request being served
  kmFresh,   \* the next material
  kmImport,  \* an import under way: the key and the record it will put
  kmSteps

kmvars == <<kmKeys, kmAlias, kmBlobs, kmReq, kmFresh, kmImport, kmSteps>>

NoReq == [op |-> "none"]
KmInit ==
  /\ kmKeys = NoRows /\ kmAlias = NoRows /\ kmBlobs = {} /\ kmReq = NoReq /\ kmFresh = 1 /\ kmImport = <<>> /\ kmSteps = 0
KmStep == kmSteps < KmMaxSteps /\ kmSteps' = kmSteps + 1

(***************************************************************************)
(* Keys and aliases                                                        *)
(***************************************************************************)
CreateKey(id) ==
  /\ KmStep /\ id \notin DOMAIN kmKeys
  /\ kmKeys' = Put(kmKeys, id, [state |-> "Enabled", material |-> kmFresh]) /\ kmFresh' = kmFresh + 1
  /\ UNCHANGED <<kmAlias, kmBlobs, kmReq, kmImport>>
SetKeyState(id, state) ==
  /\ KmStep /\ id \in DOMAIN kmKeys
  /\ kmKeys' = [kmKeys EXCEPT ![id].state = state]
  /\ UNCHANGED <<kmAlias, kmBlobs, kmReq, kmFresh, kmImport>>
UpdateAlias(a, id) ==
  /\ KmStep /\ kmAlias' = Put(kmAlias, a, id)
  /\ UNCHANGED <<kmKeys, kmBlobs, kmReq, kmFresh, kmImport>>
DeleteAlias(a) ==
  /\ KmStep /\ a \in DOMAIN kmAlias /\ kmAlias' = Del(kmAlias, a)
  /\ UNCHANGED <<kmKeys, kmBlobs, kmReq, kmFresh, kmImport>>

\* The record is read, and put back whole with the new material.
ImportKeyMaterial(id) ==
  /\ KmStep /\ id \in DOMAIN kmKeys /\ kmImport = <<>>
  /\ kmImport' = <<id, [kmKeys[id] EXCEPT !.material = kmFresh]>> /\ kmFresh' = kmFresh + 1
  /\ UNCHANGED <<kmKeys, kmAlias, kmBlobs, kmReq>>
PutImported ==
  /\ kmImport # <<>> /\ kmKeys' = Put(kmKeys, kmImport[1], kmImport[2]) /\ kmImport' = <<>>
  /\ UNCHANGED <<kmAlias, kmBlobs, kmReq, kmFresh, kmSteps>>

(***************************************************************************)
(* Requests                                                                *)
(***************************************************************************)

\* resolve: an alias that is not there stands for itself.
Resolve(name) == IF name \in DOMAIN kmAlias THEN kmAlias[name] ELSE name

\* The id a ciphertext carries wins over the KeyId of the request.
Begin(op, name, plain, blob) ==
  /\ KmStep /\ kmReq.op = "none"
  /\ op \in {"Decrypt", "ReEncrypt", "Verify"} => blob \in kmBlobs /\ (blob.kind = "mac" <=> op = "Verify")
  /\ kmReq' = [op |-> op, pc |-> "material", name |-> name, plain |-> plain, blob |-> blob,
               id |-> IF op \in {"Decrypt", "ReEncrypt"} THEN blob.id ELSE Resolve(name), answer |-> "none"]
  /\ UNCHANGED <<kmKeys, kmAlias, kmBlobs, kmFresh, kmImport>>

Material(id) ==
  CASE id \notin DOMAIN kmKeys -> "NotFound"
    [] id \in DOMAIN kmKeys /\ kmKeys[id].state \in {"Disabled", "PendingDeletion"} -> "Disabled"
    [] OTHER -> "ok"

KmEnds(answer) == kmReq' = [kmReq EXCEPT !.pc = "done", !.answer = answer]
Seals(id, plain, kind) == [kind |-> kind, id |-> id, material |-> kmKeys[id].material, plain |-> plain]

\* Encrypt, GenerateDataKey, GenerateDataKeyPair; Sign and GenerateMac.
Seal ==
  /\ kmReq.op \in {"Encrypt", "GenerateDataKey", "Sign"} /\ kmReq.pc = "material"
  /\ LET m == Material(kmReq.id)
     IN /\ kmBlobs' = IF m = "ok" THEN kmBlobs \union {Seals(kmReq.id, kmReq.plain,
         IF kmReq.op = "Sign" THEN "mac" ELSE "ct")} ELSE kmBlobs
        /\ KmEnds(m)
  /\ UNCHANGED <<kmKeys, kmAlias, kmFresh, kmSteps, kmImport>>

Open ==
  /\ kmReq.op \in {"Decrypt", "ReEncrypt"} /\ kmReq.pc = "material"
  /\ LET m == Material(kmReq.id)
         opened == m = "ok" /\ kmKeys[kmReq.id].material = kmReq.blob.material
     IN kmReq' =
          IF opened /\ kmReq.op = "ReEncrypt"
          THEN [kmReq EXCEPT !.op = "Encrypt", !.plain = kmReq.blob.plain, !.id = Resolve(kmReq.name)]
          ELSE [kmReq EXCEPT !.pc = "done", !.plain = kmReq.blob.plain,
                             !.answer = CASE opened -> "ok" [] m = "ok" /\ ~opened -> "InvalidCiphertext" [] OTHER -> m]
  /\ UNCHANGED <<kmKeys, kmAlias, kmBlobs, kmFresh, kmSteps, kmImport>>

\* Verify and VerifyMac answer under the key the request names.
Verify ==
  /\ kmReq.op = "Verify" /\ kmReq.pc = "material"
  /\ LET m == Material(kmReq.id)
     IN KmEnds(IF m # "ok" THEN m
             ELSE IF kmReq.blob.material = kmKeys[kmReq.id].material /\ kmReq.blob.plain = kmReq.plain THEN "valid" ELSE "invalid")
  /\ UNCHANGED <<kmKeys, kmAlias, kmBlobs, kmFresh, kmSteps, kmImport>>

Return == kmReq.op # "none" /\ kmReq.pc = "done" /\ kmReq' = NoReq /\ UNCHANGED <<kmKeys, kmAlias,
    kmBlobs, kmFresh, kmSteps, kmImport>>

Plains == {"a", "b"}
NoBlob == [kind |-> "none", id |-> "", material |-> 0, plain |-> ""]
KmNext ==
  \/ \E id \in KmIds : CreateKey(id) \/ ImportKeyMaterial(id)
  \/ \E id \in KmIds, state \in {"Enabled", "Disabled", "PendingDeletion"} : SetKeyState(id, state)
  \/ \E a \in KmAliases, id \in KmIds : UpdateAlias(a, id)
  \/ \E a \in KmAliases : DeleteAlias(a)
  \/ \E name \in KmIds \union KmAliases, plain \in Plains :
       \/ \E op \in {"Encrypt", "Sign"} : Begin(op, name, plain, NoBlob)
       \/ \E op \in {"Decrypt", "ReEncrypt", "Verify"}, blob \in kmBlobs : Begin(op, name, plain, blob)
  \/ Seal \/ Open \/ Verify \/ Return \/ PutImported

(***************************************************************************)
(* Properties                                                              *)
(***************************************************************************)

\* A ciphertext is bound to the key that made it, whatever its alias was
\* moved to since and through whatever alias it was made: a decryption
\* yields the plaintext or fails, and it fails only if that key is unusable
\* or its material was replaced; a signature is valid only for its message
\* and under its key.
BlobsBelongToTheirKey ==
  kmReq.op # "none" /\ kmReq.pc = "done" =>
    /\ kmReq.op = "Decrypt" /\ kmReq.answer = "ok" => kmReq.plain = kmReq.blob.plain
    /\ kmReq.op = "Decrypt" /\ kmReq.answer = "InvalidCiphertext" =>
         \E m \in 1..kmFresh : m > kmReq.blob.material /\ kmKeys[kmReq.blob.id].material = m
    /\ kmReq.op = "Verify" /\ kmReq.answer = "valid" => kmReq.plain = kmReq.blob.plain /\ kmReq.id = kmReq.blob.id
=============================================================================
