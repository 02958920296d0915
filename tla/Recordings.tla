----------------------------- MODULE Recordings -----------------------------
(***************************************************************************)
(* The record and replay proxy (internal/proxy/proxy.go, scrub.go): a      *)
(* transport in one of five modes over a cassette, a map of interactions   *)
(* kept in memory and written to a plain-text file.                        *)
(*                                                                         *)
(* A path is a sequence of words.  The file is a sequence of lines         *)
(* [field, v]; so is a body, and a line of a body may look like a line of  *)
(* the file.  Paths hold no line breaks.                                   *)
(***************************************************************************)
EXTENDS Integers, Sequences, FiniteSets
LOCAL INSTANCE SequencesExt

CONSTANTS
  CpClients,    \* requests in flight
  CpRequests,   \* [method, path, query, auth, reqbody]; query a sequence of <<name, word>>
  CpAnswers,    \* [status, headers, respbody]: what the real service answers
  CpSecrets,    \* words that are secrets of the environment or match a pattern
  CpModes,      \* modes the proxy is started in
  CpMaxRequests,\* requests made
  CpMaxRestarts \* times the process is started again

\* cp.mem: the cassette in memory; cp.file: the file; cp.tmp and cp.flushing:
\* a Flush under way, which holds the cassette's mutex.  cp.heard and
\* cp.flushed are history: what the service answered, and what was flushed.
VARIABLE cp
cpvars == <<cp>>

NothingRecorded == [k \in {} |-> 0]
Redacted == "[SCRUBBED]"

(***************************************************************************)
(* Scrubbing                                                               *)
(***************************************************************************)
ReplaceSecrets(word, secrets) == IF word \in secrets THEN Redacted ELSE word
ScrubWords(text, secrets) == [i \in DOMAIN text |-> ReplaceSecrets(text[i], secrets)]
ScrubLines(body, secrets) == [i \in DOMAIN body |-> [body[i] EXCEPT !.v = IF body[i].field = "word"
    THEN ReplaceSecrets(@, secrets) ELSE @]]
SecretQueryParam(name) == name = "token"

\* scrubQuery: the values scrubbed, in the order of the names.
ScrubQuery(q, secrets) ==
  SetToSortSeq({<<q[i][1], IF SecretQueryParam(q[i][1]) THEN Redacted
      ELSE ReplaceSecrets(q[i][2], secrets)>> : i \in DOMAIN q},
               LAMBDA a, b : a[1] = "a" /\ b[1] # "a")

\* harvestSecrets: the environment's and the credentials of headers and query.
HarvestSecrets(i) ==
  CpSecrets \union ({i.auth} \ {""}) \union
      {i.query[k][2] : k \in {k \in DOMAIN i.query : SecretQueryParam(i.query[k][1])}}

\* applyScrub: everything but the key, which is computed before.
ApplyScrub(i) ==
  LET s == HarvestSecrets(i)
  IN [i EXCEPT !.path = ScrubWords(@, s), !.query = ScrubQuery(@, s), !.auth = IF @ = "" THEN ""
      ELSE Redacted, !.reqbody = ScrubLines(@, s),
               !.headers = ScrubWords(@, s), !.respbody = ScrubLines(@, s)]

\* lookupKey; the body stands for its digest.
LookupKey(r) == <<r.method, ScrubWords(r.path, CpSecrets), ScrubQuery(r.query, CpSecrets), r.reqbody>>

(***************************************************************************)
(* The file                                                                *)
(***************************************************************************)
Line(field, v) == <<[field |-> field, v |-> v]>>
WriteInteraction(k, i) ==
  Line("===", k) \o Line("method", i.method) \o Line("path", i.path) \o Line("query",
      i.query) \o Line("auth", i.auth)
  \o Line("reqbody", Len(i.reqbody)) \o i.reqbody \o Line("status", i.status) \o Line("headers", i.headers)
  \o Line("respbody", Len(i.respbody)) \o i.respbody
TextOf(mem) == FoldLeft(LAMBDA t, k : t \o WriteInteraction(k, mem[k]), <<>>, SetToSeq(DOMAIN mem))

Unread == [method |-> "", path |-> <<>>, query |-> <<>>, auth |-> "", reqbody |-> <<>>,
    status |-> 0, headers |-> <<>>, respbody |-> <<>>]
Opened(p, k) == [p EXCEPT !.cur = k, !.map = [x \in DOMAIN p.map \union {k} |-> IF x = k
    THEN Unread ELSE p.map[x]]]

\* parseCassette at one line, with readBlock for the bodies.
ParseLine(p, file, at) ==
  LET l == file[at]
  IN CASE at < p.next -> p
       [] at >= p.next /\ l.field = "===" -> Opened(p, l.v)
       [] at >= p.next /\ l.field \in {"reqbody", "respbody"} ->
            IF at + l.v > Len(file) THEN [p EXCEPT !.error = TRUE]
            ELSE [p EXCEPT !.map[p.cur][l.field] = SubSeq(file, at + 1, at + l.v), !.next = at + l.v + 1]
       [] at >= p.next /\ l.field \in DOMAIN Unread \ {"reqbody",
            "respbody"} -> [p EXCEPT !.map[p.cur][l.field] = l.v]
       [] OTHER -> p
ParseCassette(file) ==
  FoldLeft(LAMBDA p, at : ParseLine(p, file, at), [map |-> NothingRecorded, cur |-> <<>>,
      next |-> 1, error |-> FALSE], [i \in DOMAIN file |-> i])

(***************************************************************************)
(* Requests                                                                *)
(***************************************************************************)
Interaction(r, a) == [method |-> r.method, path |-> r.path, query |-> r.query, auth |-> r.auth,
    reqbody |-> r.reqbody,
                      status |-> a.status, headers |-> a.headers, respbody |-> a.respbody]
NoCall == [pc |-> "idle"]
Answered(c, src, r, a) == [cp EXCEPT !.calls[c] = [pc |-> "answered", src |-> src, req |-> r, ans |-> a]]
Recorded(k) == [status |-> cp.mem[k].status, headers |-> cp.mem[k].headers, respbody |-> cp.mem[k].respbody]

\* RoundTrip: off and a miss in replay are errors; hybrid replays what it has.
RoundTrip(c, r) ==
  /\ cp.calls[c].pc # "forward" /\ cp.calls[c].pc # "append" /\ ~cp.flushing /\ cp.asked < CpMaxRequests
  /\ LET k == LookupKey(r)
         hit == cp.mode \in {"replay", "hybrid"} /\ k \in DOMAIN cp.mem
     IN CASE hit -> cp' = [Answered(c, "cassette", r, Recorded(k)) EXCEPT !.asked = @ + 1]
          [] ~hit /\ cp.mode \in {"off",
               "replay"} -> cp' = [cp EXCEPT !.calls[c] = [pc |-> "failed"], !.asked = @ + 1]
          [] OTHER -> cp' = [cp EXCEPT !.calls[c] = [pc |-> "forward", req |-> r], !.asked = @ + 1]

\* forward: the service answers, or the connection fails.
Forward(c) ==
  /\ cp.calls[c].pc = "forward"
  /\ \/ \E a \in CpAnswers :
          IF cp.mode = "passthrough" THEN cp' = Answered(c, "service", cp.calls[c].req, a)
          ELSE cp' = [cp EXCEPT !.calls[c] = [pc |-> "append", req |-> cp.calls[c].req, ans |-> a],
                                !.heard = @ \union {<<cp.calls[c].req, a>>}]
     \/ cp' = [cp EXCEPT !.calls[c] = [pc |-> "failed"]]

\* record: the scrubbed interaction replaces what the key held; the caller
\* gets the answer as it came.
AppendInteraction(c) ==
  /\ cp.calls[c].pc = "append" /\ ~cp.flushing
  /\ LET r == cp.calls[c].req
         k == LookupKey(r)
         stored == ApplyScrub(Interaction(r, cp.calls[c].ans))
     IN cp' = [Answered(c, "service", r, cp.calls[c].ans) EXCEPT
                 !.mem = [x \in DOMAIN cp.mem \union {k} |-> IF x = k THEN stored ELSE cp.mem[x]]]

\* Mistake: Flush writes the file itself.
FlushInPlace ==
  /\ ~cp.flushing /\ cp.mem # cp.flushed
  /\ \E n \in 0..Len(TextOf(cp.mem)) : cp' = [cp EXCEPT !.flushing = TRUE, !.tmp = TextOf(cp.mem),
       !.file = SubSeq(TextOf(cp.mem), 1, n)]

\* Flush writes beside the file and renames, all under the mutex.
FlushWrite ==
  /\ ~cp.flushing /\ cp.mem # cp.flushed
  /\ cp' = [cp EXCEPT !.flushing = TRUE, !.tmp = TextOf(cp.mem)]
FlushRename ==
  /\ cp.flushing
  /\ cp' = [cp EXCEPT !.flushing = FALSE, !.file = cp.tmp, !.tmp = <<>>, !.flushed = cp.mem]

\* The process dies, and starts in some mode: NewFileCassette.
Restart ==
  /\ cp.restarts < CpMaxRestarts
  /\ \E m \in CpModes :
       cp' = [cp EXCEPT !.restarts = @ + 1, !.mode = m, !.mem = ParseCassette(cp.file).map,
           !.flushing = FALSE,
                        !.flushed = ParseCassette(cp.file).map, !.calls = [c \in CpClients |-> NoCall]]

CpInit ==
  \E m \in CpModes :
    cp = [mode |-> m, mem |-> NothingRecorded, file |-> <<>>, tmp |-> <<>>, flushing |-> FALSE,
        flushed |-> NothingRecorded,
          calls |-> [c \in CpClients |-> NoCall], heard |-> {}, asked |-> 0, restarts |-> 0]
CpNext ==
  \/ \E c \in CpClients : (\E r \in CpRequests : RoundTrip(c, r)) \/ Forward(c) \/ AppendInteraction(c)
  \/ FlushWrite \/ FlushRename \/ Restart

(***************************************************************************)
(* Properties                                                              *)
(***************************************************************************)

\* A replayed answer is one the service gave to the same request: the same
\* method, path and parameters up to what is secret, and the same body.
ReplayIsFaithful ==
  \A c \in CpClients : cp.calls[c].pc = "answered" /\ cp.calls[c].src = "cassette" =>
    \E h \in cp.heard :
      /\ h[1].method = cp.calls[c].req.method /\ h[1].reqbody = cp.calls[c].req.reqbody
      /\ ScrubWords(h[1].path, CpSecrets) = ScrubWords(cp.calls[c].req.path, CpSecrets)
      /\ ApplyScrub(Interaction(h[1], h[2])).respbody = cp.calls[c].ans.respbody

\* Whenever the process dies, the file holds what the last Flush wrote, whole,
\* whatever the bodies look like.
FlushedIsReadBack ==
  LET read == ParseCassette(cp.file) IN ~read.error /\ read.map = cp.flushed

\* No secret of the environment or of a configured pattern is in the file, and
\* no credential of a request in what is stored of it.
NothingSecretIsStored ==
  LET words(lines) == {lines[i].v : i \in {i \in DOMAIN lines : lines[i].field = "word"}}
      of(k) == {h \in cp.heard : LookupKey(h[1]) = k}
  IN /\ words(cp.file) \intersect CpSecrets = {}
     /\ \A k \in DOMAIN cp.mem :
          /\ {k[2][i] : i \in DOMAIN k[2]} \intersect CpSecrets = {}
          /\ \E h \in of(k) : h[1].auth \notin words(cp.mem[k].respbody) \union ToSet(cp.mem[k].headers)

-----------------------------------------------------------------------------
(***************************************************************************)
(* The gate between a hand-written pack and the bundle that replaces it    *)
(* (equivalence/equivalence.go, equivalence/trace.go): a recording of the  *)
(* pack, whose inputs are linked to the answers they come from, is         *)
(* replayed against the bundle and the answers are compared up to the      *)
(* names of generated identifiers.                                         *)
(*                                                                         *)
(* Both handlers keep named items under identifiers they issue.  An answer *)
(* gives, per member, the leaves in the order compare visits them; the     *)
(* member `created` is a map of an id and a name.  The candidate may have  *)
(* a quirk.                                                                *)
(***************************************************************************)

CONSTANTS
  EqNames,      \* names a caller gives
  EqDraws,      \* sequences of identifiers the candidate may draw
  EqIssued,     \* the sequence the reference draws
  EqQuirks,     \* what may be different about the candidate
  EqMaxSteps    \* length of a recording

\* eq.steps: the recording, [op, arg, out, fault, exempt]; eq.said: the
\* candidate's answers; eq.bound and eq.used: the unifier; eq.diffs.
VARIABLE eq
eqvars == <<eq>>

Tokens == UNION {{d[i] : i \in DOMAIN d} : d \in EqDraws \union {EqIssued}}
Members == <<"created", "id", "ids", "name">>
NoAnswer == [m \in {"created", "id", "ids", "name"} |-> <<>>]
Ref(i, m, k) == [from |-> i, member |-> m, at |-> k]
IsRef(a) == a.from # 0
Literal(v) == [from |-> 0, member |-> v, at |-> 0]
Nothing == ""

(***************************************************************************)
(* A handler: [items, left, quirk], items a sequence of [id, name].        *)
(***************************************************************************)
Outcome(h, out, fault) == [h |-> h, out |-> out, fault |-> fault]
Item(h, id) == SelectSeq(h.items, LAMBDA x : x.id = id)
Made(h, id, name) ==
  CASE h.quirk = "wrap" -> [NoAnswer EXCEPT !["created"] = <<id, name>>]
    [] h.quirk = "drop" -> [NoAnswer EXCEPT !["id"] = <<id>>]
    [] OTHER -> [NoAnswer EXCEPT !["id"] = <<id>>, !["name"] = <<name>>]
Serve(h, op, v) ==
  CASE op = "create" ->
         IF \E i \in DOMAIN h.items : h.items[i].name = v THEN Outcome(h, NoAnswer, "Exists")
         ELSE LET again == h.quirk = "reuse" /\ h.items # <<>>
                  id == IF again THEN h.items[1].id ELSE h.left[1]
              IN Outcome([h EXCEPT !.items = Append(@, [id |-> id, name |-> v]), !.left = IF again
                  THEN @ ELSE Tail(@)],
                         Made(h, id, v), "")
    [] op = "get" ->
         LET found == Item(h, v)
             shown == IF h.quirk = "swap" THEN h.items[Len(h.items)] ELSE found[1]
         IN IF found = <<>> THEN Outcome(h, NoAnswer, IF h.quirk = "lenient" THEN "" ELSE "NotFound")
            ELSE Outcome(h, [NoAnswer EXCEPT !["id"] = <<shown.id>>, !["name"] = <<shown.name>>], "")
    [] op = "delete" -> Outcome([h EXCEPT !.items = SelectSeq(@, LAMBDA x : x.id # v)], NoAnswer, "")
    [] OTHER -> Outcome(h, [NoAnswer EXCEPT !["ids"] = [i \in DOMAIN h.items |-> h.items[i].id]], "")

(***************************************************************************)
(* Recording                                                               *)
(***************************************************************************)

\* Record: one more request, with a name or an identifier of an earlier answer.
Record(op, v) ==
  /\ eq.phase = "record" /\ Len(eq.steps) < EqMaxSteps
  /\ LET o == Serve(eq.pack, op, v)
     IN eq' = [eq EXCEPT !.pack = o.h,
                 !.steps = Append(@, [op |-> op, arg |-> Literal(v), out |-> o.out, fault |-> o.fault,
                                      exempt |-> IF op = "create" /\ o.fault = "" THEN eq.excuse ELSE {}])]

\* indexOutput: where a value was first answered.
Origin(steps, v) ==
  LET spots == {Ref(i, m, k) : i \in 1..Len(steps), m \in DOMAIN NoAnswer, k \in 1..EqMaxSteps}
      holds == {r \in spots : r.at \in DOMAIN steps[r.from].out[r.member] /\ steps[r.from].out[r.member][r.at] = v}
  IN {r \in holds : \A q \in holds : r.from <= q.from}

\* linkValue: a value the caller has supplied itself before stays a literal;
\* one an earlier answer issued becomes a reference to it.
LinkValue(steps, i) ==
  LET a == steps[i].arg
      from == Origin(SubSeq(steps, 1, i - 1), a.member)
      supplied == {steps[j].arg : j \in 1..i - 1}
  IN IF a \in supplied \/ from = {} THEN a ELSE CHOOSE r \in from : TRUE

\* NewFile: linkInputs over the steps in order, each seeing the inputs
\* already linked.
LinkInputs(steps) ==
  FoldLeft(LAMBDA s, i : [s EXCEPT ![i].arg = LinkValue(s, i)], steps, [i \in DOMAIN steps |-> i])
NewFile ==
  /\ eq.phase = "record" /\ eq.steps # <<>>
  /\ eq' = [eq EXCEPT !.phase = "replay", !.steps = LinkInputs(@)]

(***************************************************************************)
(* Replay                                                                  *)
(***************************************************************************)

\* lookupPath: the member, or the one wrapper that carries it.
LookupPath(out, r) ==
  IF r.at \in DOMAIN out[r.member] THEN out[r.member][r.at]
  ELSE IF out["created"] # <<>> /\ r.member \in {"id", "name"}
      THEN out["created"][IF r.member = "id" THEN 1 ELSE 2]
  ELSE Nothing
ResolveInput(a) == IF IsRef(a) THEN LookupPath(eq.said[a.from].out, a) ELSE a.member

\* unify: a substitution that contradicts an earlier one, in either direction,
\* is a difference.
Unify(u, w, g) ==
  IF \E p \in u.pairs : (p[1] = w) # (p[2] = g) THEN [u EXCEPT !.bad = TRUE]
  ELSE [u EXCEPT !.pairs = @ \union {<<w, g>>}]

CompareLeaf(u, w, g) ==
  CASE w = g -> u
    [] w # g /\ w \in Tokens /\ g \in Tokens -> Unify(u, w, g)
    [] OTHER -> [u EXCEPT !.bad = TRUE]

\* compare, one member; leaves that cannot be paired are one difference.
CompareMember(u, m, want, got) ==
  LET paired == FoldLeft(LAMBDA x, i : CompareLeaf(x, want[i], got[i]), [u EXCEPT !.bad = FALSE],
      [i \in DOMAIN want |-> i])
  IN IF Len(want) # Len(got) THEN [u EXCEPT !.paths = @ \union {m}]
     ELSE [paired EXCEPT !.paths = IF paired.bad THEN @ \union {m} ELSE @]
Compare(pairs, want, got) ==
  FoldLeft(LAMBDA u, m : CompareMember(u, m, want[m], got[m]), [pairs |-> pairs, paths |-> {},
      bad |-> FALSE], Members)

UnusedExemptions(exempt, paths) == exempt \ paths

\* Replay: the class of the outcome is always compared, then the fault or the
\* answer, less what the step's exemptions excuse.
Replay ==
  /\ eq.phase = "replay"
  /\ LET i == Len(eq.said) + 1
         s == eq.steps[i]
         o == Serve(eq.bundle, s.op, ResolveInput(s.arg))
         u == Compare(eq.pairs, s.out, o.out)
         judged == CASE (s.fault = "") # (o.fault = "") -> {"fault"}
                     [] s.fault # "" /\ o.fault # "" -> (IF s.fault = o.fault THEN {}
                          ELSE {"fault.code"}) \union UnusedExemptions(s.exempt, {})
                     [] OTHER -> (u.paths \ s.exempt) \union UnusedExemptions(s.exempt, u.paths)
     IN eq' = [eq EXCEPT !.bundle = o.h, !.said = Append(@, [out |-> o.out, fault |-> o.fault]),
                         !.pairs = IF s.fault = "" /\ o.fault = "" THEN u.pairs ELSE @,
                         !.diffs = @ \union {<<i, p>> : p \in judged},
                         !.phase = IF i = Len(eq.steps) THEN "judged" ELSE "replay"]

EqInit ==
  \E d \in EqDraws, q \in EqQuirks, x \in {{}, {"name"}, {"created", "id", "name"}} :
    eq = [phase |-> "record", steps |-> <<>>, said |-> <<>>, pairs |-> {}, diffs |-> {}, excuse |-> x,
          pack |-> [items |-> <<>>, left |-> EqIssued, quirk |-> "none"],
          bundle |-> [items |-> <<>>, left |-> d, quirk |-> q]]
EqNext ==
  \/ \E v \in EqNames : Record("create", v)
  \/ \E i \in DOMAIN eq.pack.items : \E op \in {"get", "delete"} : Record(op, eq.pack.items[i].id)
  \/ \E v \in {EqIssued[i] : i \in DOMAIN EqIssued} : eq.pack.items # <<>> /\ v \notin {eq.pack.left[i] : i \in DOMAIN eq.pack.left} /\ Record("get", v)
  \/ Record("list", Nothing)
  \/ NewFile \/ Replay

(***************************************************************************)
(* Properties                                                              *)
(***************************************************************************)
Judged == eq.phase = "judged"

\* A candidate that does the same with identifiers of its own, in whatever
\* order it draws them, passes; so does one whose only difference is excused.
EquivalentPasses ==
  /\ Judged
  /\ \/ eq.bundle.quirk = "none" /\ eq.excuse = {}
     \/ eq.bundle.quirk = "drop" /\ eq.excuse = {"name"}
     \/ eq.bundle.quirk = "wrap" /\ eq.excuse = {"created", "id", "name"}
  => eq.diffs = {}

\* What passes differs from the recording by a one-to-one change of
\* identifiers in what is compared, answers with a fault where the recording
\* does, and needs every exemption it was given.
PassedMeansRenaming ==
  Judged /\ eq.diffs = {} =>
    LET compared == {<<i, m>> \in (DOMAIN eq.steps) \X (DOMAIN NoAnswer) : m \notin eq.steps[i].exempt /\ eq.steps[i].fault = ""}
        pairs == UNION {{<<eq.steps[x[1]].out[x[2]][k],
            eq.said[x[1]].out[x[2]][k]>> : k \in DOMAIN eq.said[x[1]].out[x[2]]} : x \in compared}
        changed == {p \in pairs : p[1] # p[2]}
    IN /\ \A x \in compared : Len(eq.steps[x[1]].out[x[2]]) = Len(eq.said[x[1]].out[x[2]])
       /\ \A p, q \in changed : (p[1] = q[1]) = (p[2] = q[2])
       /\ \A i \in DOMAIN eq.steps : eq.steps[i].fault = eq.said[i].fault
       /\ \A i \in DOMAIN eq.steps : \A m \in eq.steps[i].exempt : eq.steps[i].out[m] # eq.said[i].out[m]

\* The package comment: the binding "catches a swapped or reused identifier".
\* No identifier of a candidate that passes stands for two of the recording's.
ReuseIsCaught ==
  Judged /\ eq.diffs = {} /\ eq.excuse = {} =>
    \A i, j \in DOMAIN eq.steps :
      eq.steps[i].out["id"] # <<>> /\ eq.steps[j].out["id"] # <<>> /\ eq.said[i].out["id"] = eq.said[j].out["id"]
      => eq.steps[i].out["id"] = eq.steps[j].out["id"]

\* Recording and replaying: an equivalent implementation passes and a pass
\* means equal up to a renaming of identifiers; the proxy replays what it
\* recorded, a flushed cassette is read back whole after any crash, and no
\* secret is in it.
RecordingsHold ==
  /\ EquivalentPasses /\ PassedMeansRenaming /\ ReplayIsFaithful
  /\ FlushedIsReadBack /\ NothingSecretIsStored
=============================================================================
