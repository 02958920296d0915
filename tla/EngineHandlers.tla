--------------------------- MODULE EngineHandlers ---------------------------
(***************************************************************************)
(* What the engine's handlers do to records and lists: lifecycles and      *)
(* effects first, cursors, pages and list operations after them.           *)
(***************************************************************************)
EXTENDS Tables, Sequences, FiniteSets, Integers
LOCAL INSTANCE SequencesExt
LOCAL INSTANCE FiniteSetsExt

(***************************************************************************)
(* Lifecycles of records (engine/statechart.go).  No callback is ever      *)
(* scheduled: a deadline sits on the record and whoever looks at the       *)
(* record next fires it.  The module keeps, next to the record as it is    *)
(* stored, the record an eager scheduler would have: one that is looked at *)
(* on every tick of the clock.                                             *)
(***************************************************************************)
CONSTANTS
  ScCharts,   \* state -> [timers: sequence of [deadline, target], on: event -> transitions]
  ScBirths,   \* the records charts are entered with
  ScEvents,   \* events with their context: [name, to]
  ScEnd       \* the last tick of the clock

VARIABLES
  scChart, scNow,
  scRec,    \* the record as stored: [state, deadlines]
  scEager   \* the record as if looked at on every tick

scvars == <<scChart, scNow, scRec, scEager>>

setDeadline(rec, name, at) == [rec EXCEPT !.deadlines = Put(@, name, at)]

(***************************************************************************)
(* settle: fires the first expired timer of the state, again and again.    *)
(***************************************************************************)
Expired(chart, rec, now) ==
  LET timers == chart[rec.state].timers
  IN {i \in DOMAIN timers : timers[i].deadline \in DOMAIN rec.deadlines /\ now >= rec.deadlines[timers[i].deadline]}

FireOne(chart, rec, now) ==
  LET t == chart[rec.state].timers[MinOf(Expired(chart, rec, now))]
  IN [state |-> t.target, deadlines |-> Del(rec.deadlines, t.deadline)]

Hops(chart, rec, now) ==
  LET after[n \in 0..(Cardinality(DOMAIN chart) + 1)] ==
        IF n = 0 THEN rec
        ELSE IF Expired(chart, after[n - 1], now) = {} THEN after[n - 1]
        ELSE FireOne(chart, after[n - 1], now)
  IN after

\* The loop is bounded by the number of states; a deadline is removed as it
\* fires, so no chart with fewer armed deadlines than that reaches the bound.
settle(chart, rec, now) == Hops(chart, rec, now)[Cardinality(DOMAIN chart) + 1]

(***************************************************************************)
(* sendEvent: settle, then take the first transition whose guard holds.    *)
(* An event the state does not handle is ignored.                          *)
(***************************************************************************)
Transitions(chart, rec, e) ==
  LET on == chart[rec.state].on
  IN IF e.name \in DOMAIN on THEN SelectSeq(on[e.name], LAMBDA t : e.to \in t.guard) ELSE <<>>

runAction(rec, t, now) ==
  IF t.arm = "" THEN rec ELSE setDeadline(rec, t.arm, now + t.after)

sendEvent(chart, rec, e, now) ==
  LET settled == settle(chart, rec, now)
      ts == Transitions(chart, settled, e)
  IN IF ts = <<>> THEN settled
     ELSE [runAction(settled, Head(ts), now) EXCEPT !.state = Head(ts).target]

(***************************************************************************)
(* Behaviour                                                               *)
(***************************************************************************)
ScInit ==
  /\ scChart \in ScCharts /\ scNow = 0
  /\ scRec \in {b \in ScBirths : b.state \in DOMAIN scChart} /\ scEager = settle(scChart, scRec, 0)

Tick ==
  /\ scNow < ScEnd /\ scNow' = scNow + 1 /\ scEager' = settle(scChart, scEager, scNow + 1)
  /\ UNCHANGED <<scChart, scRec>>

\* loadRecord, a list or a select looks at the record and stores it settled.
Look ==
  /\ scRec' = settle(scChart, scRec, scNow) /\ scRec' # scRec
  /\ UNCHANGED <<scChart, scNow, scEager>>

Send(e) ==
  /\ scRec' = sendEvent(scChart, scRec, e, scNow) /\ scEager' = sendEvent(scChart, scEager, e, scNow)
  /\ UNCHANGED <<scChart, scNow>>

ScNext == Tick \/ Look \/ \E e \in ScEvents : Send(e)

(***************************************************************************)
(* Properties                                                              *)
(***************************************************************************)

\* A look after any time shows what looking on every tick would have shown:
\* behaviour is a function of the clock reading at the observation.  It holds
\* for charts in which at most one timer of a state is armed, as all charts of
\* the bundles are; of two expired timers of one state the first listed
\* fires, not the first due.
LazyIsEager == settle(scChart, scRec, scNow) = settle(scChart, scEager, scNow)

-----------------------------------------------------------------------------
(***************************************************************************)
(* What the effects of an operation do to stored records (engine/eval.go   *)
(* write, writeOne, writeWhere, spread, recordValue, remove, removeWhere,  *)
(* carriedKey, resourceKey).  There are two resources.  "par" is addressed *)
(* by a request member.  "kid" has generated identifiers and keys its rows *)
(* by a member of the record, `name`, which its schema sets to the id.     *)
(*                                                                         *)
(*   request  [par, kid, val, extra, new]: the members that address the    *)
(*            two, a value, a member to spread ("" when absent), a name    *)
(*   read     [res, key]         effect  [kind, res, key, each, where,     *)
(*            spread, sets, missing]: sets are the members the effect      *)
(*            assigns ("set" the value, "name" the new name)               *)
(***************************************************************************)

CONSTANTS
  RcRequests,   \* requests
  RcOps,        \* operations: [reads, effects]
  RcMaxOps      \* how many operations run

VARIABLE rc
rcvars == <<rc>>

RcTables == {"par", "kid"}
keyed(res) == res = "kid"
Empty == [name |-> "", made |-> 0, set |-> 0, extra |-> ""]
Keys(t) == DOMAIN t
PutRow(t, k, r) == [x \in DOMAIN t \union {k} |-> IF x = k THEN r ELSE t[x]]
CutRow(t, S) == [x \in DOMAIN t \ S |-> t[x]]

(***************************************************************************)
(* Addressing                                                              *)
(***************************************************************************)

\* carriedKey: only the resource's own resolved key carries over.
carriedKey(w, ids, id) == IF w.key # "" THEN "" ELSE ids[w.res]

resourceKey(res, key, item) ==
  IF key = "item" THEN item ELSE IF key # "" THEN key ELSE rc.in[res]

\* The key a write looks its row up under: the row of a resource that keys on
\* a member is found as a read would find it.
AddressOf(w, item, create, ids, id, fresh) ==
  LET k0 == IF create /\ keyed(w.res) THEN fresh ELSE carriedKey(w, ids, id)
      k == IF k0 = "" THEN resourceKey(w.res, w.key, item) ELSE k0
      again == resourceKey(w.res, w.key, item)
  IN IF ~create /\ keyed(w.res) /\ again # "" THEN again ELSE k

(***************************************************************************)
(* Records                                                                 *)
(***************************************************************************)
spread(w, r) == IF w.spread /\ rc.in.extra # "" THEN [r EXCEPT !.extra = rc.in.extra] ELSE r
Schema(res, r, id) ==
  [r EXCEPT !.made = rc.in.val, !.name = IF keyed(res) THEN id ELSE @]

\* A patch of a row that exists evaluates only the effect's own members.
Filled(w, r, id, found) ==
  IF w.kind = "patch" /\ found THEN r ELSE Schema(w.res, r, id)

\* recordValue for each member of the effect's record.
Assigned(w, r) ==
  [r EXCEPT !.set = IF "set" \in w.sets THEN rc.in.val ELSE @,
            !.name = IF "name" \in w.sets THEN rc.in.new ELSE @]

\* Mistake: the row is stored under the key it was found by.
StoredWhereFound(w, r, k) == k

StoredUnder(w, r, k) == IF keyed(w.res) THEN r.name ELSE k

(***************************************************************************)
(* writeOne on a state [tab, ids, id, fresh, touched, wrote]               *)
(***************************************************************************)
writeOne(s, w, item) ==
  LET create == w.kind = "create"
      k == AddressOf(w, item, create, s.ids, s.id, s.fresh[1])
      t == s.tab[w.res]
      found == ~create /\ k \in Keys(t)
      r == Assigned(w, Filled(w, spread(w, IF found THEN t[k] ELSE Empty), k, found))
      at == StoredUnder(w, r, k)
      used == IF create /\ keyed(w.res) THEN Tail(s.fresh) ELSE s.fresh
  IN IF ~create /\ ~found /\ w.missing = "ignore" THEN [s EXCEPT !.id = k]
     ELSE [s EXCEPT !.tab[w.res] = PutRow(t, at, r), !.ids[w.res] = at, !.id = at, !.fresh = used,
                    !.touched = @ \union {<<w.res, at>>}, !.wrote = Append(@, r)]

\* for_each: one write per element.
writeEach(s, w) == FoldLeft(LAMBDA x, item : writeOne(x, w, item), s, w.each)

\* writeWhere: every row the predicate accepts, in the listing taken before the first
\* write; a row whose key changes leaves its old place.
writeWhere(s, w) ==
  LET t0 == s.tab[w.res]
      hits == SetToSeq({k \in Keys(t0) : t0[k].made = w.where})
      one(x, k) ==
        LET r0 == spread(w, t0[k])
            r == Assigned(w, IF w.kind = "patch" THEN r0 ELSE Schema(w.res, r0, k))
            at == StoredUnder(w, r, k)
            t == IF at # k THEN CutRow(x.tab[w.res], {k}) ELSE x.tab[w.res]
        IN [x EXCEPT !.tab[w.res] = PutRow(t, at, r), !.id = k, !.touched = @ \union
            {<<w.res, at>>, <<w.res, k>>}]
  IN FoldLeft(one, s, hits)

\* remove and removeWhere.
remove(s, w) ==
  LET t == s.tab[w.res]
      k == LET c == carriedKey(w, s.ids, s.id) IN IF c = "" THEN resourceKey(w.res, w.key, "") ELSE c
      doomed == IF w.where # 0 THEN {x \in Keys(t) : t[x].made = w.where} ELSE {k}
  IN [s EXCEPT !.tab[w.res] = CutRow(t, doomed), !.touched = @ \union {<<w.res, x>> : x \in doomed}]

effect(s, w) ==
  CASE w.kind = "delete" -> remove(s, w)
    [] w.kind # "delete" /\ w.where # 0 -> writeWhere(s, w)
    [] w.kind # "delete" /\ w.where = 0 /\ w.each # <<>> -> writeEach(s, w)
    [] OTHER -> writeOne(s, w, "")

(***************************************************************************)
(* An operation runs under the engine's lock: its reads, then its effects. *)
(***************************************************************************)
BeginOp(op, in) ==
  /\ rc.op = <<>> /\ rc.ran < RcMaxOps
  /\ rc' = [rc EXCEPT !.op = op.effects, !.reads = op.reads, !.in = in, !.ran = @ + 1,
       !.ids = [r \in RcTables |-> ""],
                      !.id = "", !.touched = {}, !.wrote = <<>>, !.before = rc.tab,
                          !.said = [r \in RcTables |-> ""]]
Load ==
  /\ rc.reads # <<>>
  /\ LET r == Head(rc.reads)
         k == resourceKey(r.res, r.key, "")
     IN rc' = [rc EXCEPT !.reads = Tail(@), !.ids[r.res] = k, !.id = k, !.said[r.res] = k]
Step ==
  /\ rc.reads = <<>> /\ rc.op # <<>>
  /\ LET w == Head(rc.op)
         s == effect([rc EXCEPT !.touched = {}], w)
     IN rc' = [s EXCEPT !.op = Tail(rc.op), !.last = w, !.before = rc.tab,
         !.said[w.res] = s.ids[w.res], !.spoken = rc.said]

RcInit == rc =
  [tab |-> [r \in RcTables |-> <<>>], ids |-> [r \in RcTables |-> ""], id |-> "",
      fresh |-> <<"g1", "g2", "g3", "g4", "g5", "g6">>,
   op |-> <<>>, reads |-> <<>>, in |-> [par |-> "", kid |-> "", val |-> 0, extra |-> "",
       new |-> ""], ran |-> 0,
   touched |-> {}, wrote |-> <<>>, before |-> [r \in RcTables |-> <<>>], last |-> [kind |-> "none"],
   said |-> [r \in RcTables |-> ""], spoken |-> [r \in RcTables |-> ""]]
RcNext == (\E op \in RcOps, in \in RcRequests : BeginOp(op, in)) \/ Load \/ Step

(***************************************************************************)
(* Properties                                                              *)
(***************************************************************************)

\* Rows of a resource that keys on a member are stored under it, however the
\* member came to its value.
RowsAreWhereTheySay ==
  \A k \in Keys(rc.tab["kid"]) : rc.tab["kid"][k].name = k

\* Updating operations keep what creation stored: a patch of a row that exists
\* leaves every member that it does not assign as it was.
PatchesKeepTheRest ==
  [][Step /\ rc.op[1].kind = "patch" /\ rc.op[1].sets = {"set"} /\ ~rc.op[1].spread =>
       \A res \in RcTables : \A k \in Keys(rc.tab[res]) \intersect Keys(rc'.tab[res]) :
         rc'.tab[res][k] = [rc.tab[res][k] EXCEPT !.set = rc'.tab[res][k].set]]_rcvars

\* An effect that names no key touches the row of its own resource that the
\* operation has been talking about (the key its last read or write of that
\* resource resolved), or else the one the request names: never a row under
\* another resource's key.
EffectsStayOnTheirRow ==
  LET w == rc.last
  IN w.kind \in {"put", "patch", "delete"} /\ w.key = "" /\ w.where = 0 /\ "name" \notin w.sets =>
       \A x \in rc.touched : x[2] \in {rc.spoken[w.res], rc.in[w.res]}

(***************************************************************************)
(* Cursors and pages of a listing (engine/cursor.go, page.go,              *)
(* cursor_cel.go): newest first by instant and creation sequence, a cursor *)
(* being the instant with the item's slot in the fraction.  A cursor is    *)
(* kept as an integer scaled by 2^LcSlotBits.  The float64 has LcFloatBits *)
(* bits instead of 53, so that slots run out at small instants.            *)
(***************************************************************************)
CONSTANTS
  LcFloatBits,    \* bits of the mantissa (floatBits)
  LcSlotBits,     \* most fraction bits of a cursor (maxSlotBits)
  LcInstants,     \* instants items are made at; the clock may step back
  LcFirst,        \* the sequence counter may start at any of these
  LcMost,         \* how many items are made in all
  LcLimits,       \* page sizes
  LcSince         \* `since` cursors a walk may carry, as text

VARIABLE lc
lcvars == <<lc>>

ASSUME LcAssumption ==
  /\ LcSlotBits \in Nat /\ LcFloatBits \in Nat /\ LcMost \in Nat
  /\ LcInstants \subseteq Int /\ LcFirst \subseteq Nat /\ LcLimits \subseteq Nat \ {0}

Unit == 2 ^ LcSlotBits

\* slotBits, slotCount, slotOf.
Magnitude(ms) == IF ms < 0 THEN -ms ELSE ms
BitLen(m) == CHOOSE k \in 0..(LcFloatBits + 1) : m < 2 ^ k /\ (k = 0 \/ m >= 2 ^ (k - 1))
slotBits(ms) == Min({Max({LcFloatBits - BitLen(Magnitude(ms)), 0}), LcSlotBits})
slotCount(ms) == 2 ^ slotBits(ms) - 1
slotOf(ms, seq) == IF slotCount(ms) = 0 THEN 0 ELSE 1 + (seq % slotCount(ms))

\* pageCursor.
pageCursor(e) == e.ms * Unit + slotOf(e.ms, e.seq) * (Unit \div 2 ^ slotBits(e.ms))

\* parseCursor and cursorOf: a number, clamped; a fraction that is no slot of
\* its instant is refused, and so is anything else that is not a number.
Refused == "refused"
Unset == [set |-> FALSE, ms |-> 0, slot |-> 0]
cursorOf(f) ==
  LET c == Min({Max({f, -(2 ^ LcFloatBits) * Unit}), 2 ^ LcFloatBits * Unit})
      ms == c \div Unit
      places == (c % Unit) * 2 ^ slotBits(ms)
  IN IF places % Unit # 0 THEN [error |-> Refused]
     ELSE [cursor |-> [set |-> TRUE, ms |-> ms, slot |-> places \div Unit]]
parseCursor(t) ==
  CASE t.kind = "none" -> [cursor |-> Unset]
    [] t.kind = "number" -> cursorOf(t.value)
    [] OTHER -> [error |-> Refused]

\* boundOf: the sequence the slot stands for among the items left.
boundOf(c, items) ==
  LET run == {e.seq : e \in {x \in items : x.ms = c.ms}}
      n == slotCount(c.ms)
      lo == IF run = {} THEN 0 ELSE Min(run)
      at == lo + ((c.slot - 1 - lo) % n)
      seq == IF c.slot = 0 THEN 0
             ELSE IF run # {} /\ at > Max(run) /\ lo - (at - n) < at - Max(run) THEN at - n ELSE at
  IN [set |-> c.set, ms |-> c.ms, slot |-> c.slot, seq |-> seq]
olderThan(b, e) == ~b.set \/ e.ms < b.ms \/ (b.slot # 0 /\ e.ms = b.ms /\ e.seq < b.seq)
newerThan(b, e) == ~b.set \/ e.ms > b.ms \/ (b.slot # 0 /\ e.ms = b.ms /\ e.seq > b.seq)

\* pageOf.
Newer(a, b) == a.ms > b.ms \/ (a.ms = b.ms /\ a.seq > b.seq)
pageOf(items, newer, older, limit) ==
  LET keep == {e \in items : newerThan(boundOf(newer, items), e) /\ olderThan(boundOf(older, items), e)}
      sorted == SetToSortSeq(keep, Newer)
      size == Min({limit, Len(sorted)})
  IN [page |-> SubSeq(sorted, 1, size),
      next |-> IF Len(sorted) > limit THEN [kind |-> "number", value |-> pageCursor(sorted[limit])]
               ELSE [kind |-> "none", value |-> 0]]

(***************************************************************************)
(* A client walks a listing while items come and go.                       *)
(***************************************************************************)
MakeItem(ms) ==
  /\ lc.made < LcMost /\ lc.at # "end"
  /\ lc' = [lc EXCEPT !.items = @ \union {[ms |-> ms, seq |-> lc.seq]}, !.seq = @ + 1, !.made = @ + 1,
                      !.seen = @ \union {[ms |-> ms, seq |-> lc.seq]}]
DropItem(e) ==
  /\ lc.at # "end"
  /\ lc' = [lc EXCEPT !.items = @ \ {e}, !.steady = @ \ {e}]

\* The first page: validCursors refuses a cursor that does not read.
StartWalk(limit, since) ==
  /\ lc.at = "idle"
  /\ LET s == parseCursor(since)
     IN IF "error" \in DOMAIN s THEN lc' = [lc EXCEPT !.at = "end", !.refused = TRUE]
        ELSE LET p == pageOf(lc.items, s.cursor, Unset, limit)
             IN lc' = [lc EXCEPT !.at = IF p.next.kind = "none" THEN "end" ELSE "walk", !.limit = limit,
                                 !.next = p.next, !.served = p.page, !.steady = lc.items, !.since = s.cursor]
WalkOn ==
  /\ lc.at = "walk"
  /\ LET c == parseCursor(lc.next)
     IN IF "error" \in DOMAIN c THEN lc' = [lc EXCEPT !.at = "end", !.refused = TRUE]
        ELSE LET p == pageOf(lc.items, lc.since, c.cursor, lc.limit)
             IN lc' = [lc EXCEPT !.at = IF p.next.kind = "none" THEN "end" ELSE "walk",
                                 !.next = p.next, !.served = @ \o p.page]

LcInit == \E f \in LcFirst :
  lc = [items |-> {}, seq |-> f, made |-> 0, seen |-> {}, at |-> "idle", limit |-> 0, since |-> Unset,
        next |-> [kind |-> "none", value |-> 0], served |-> <<>>, steady |-> {}, refused |-> FALSE]
LcNext ==
  \/ \E ms \in LcInstants : MakeItem(ms)
  \/ \E e \in lc.items : DropItem(e)
  \/ \E limit \in LcLimits, since \in LcSince : StartWalk(limit, since)
  \/ WalkOn

\* The runs of one instant stay within half the slots, the ceiling the code
\* states (page.go boundOf).
ShortRuns ==
  \A ms \in {e.ms : e \in lc.seen} :
    LET run == {e.seq : e \in {x \in lc.seen : x.ms = ms}}
    IN Max(run) - Min(run) + 1 <= Max({1, slotCount(ms) \div 2})

\* A walk that follows `next` to the end serves every item that was there all
\* along and is newer than `since`, none twice and newest first, whatever was
\* deleted (the item the cursor names included) or made while it walked.
WalkServesWhatStays ==
  ShortRuns =>
    /\ \A i, j \in DOMAIN lc.served : i < j => Newer(lc.served[i], lc.served[j])
    /\ lc.at = "end" /\ ~lc.refused =>
         {e \in lc.steady : newerThan(boundOf(lc.since, lc.items),
             e)} \subseteq {lc.served[i] : i \in DOMAIN lc.served}

\* A cursor that a page answered is one the next request may send: it is
\* never refused.
OwnCursorsAreRead == lc.at = "walk" => "cursor" \in DOMAIN parseCursor(lc.next)

-----------------------------------------------------------------------------
(***************************************************************************)
(* A list operation (engine/eval.go runList, resolveListReads, project)    *)
(* and the client that pages through it while records come, go and expire. *)
(* A record is [live, timer, tie]: timer says that its timer has run out   *)
(* (the list then settles it and writes it back, no longer live), tie is   *)
(* the key of the row the filter joins ("" when there is none).  The       *)
(* filter keeps an item whose joined row is found.                         *)
(***************************************************************************)

CONSTANTS
  ElKeys,       \* keys of the listed collection: a set of numbers
  ElTies,       \* keys of the joined collection
  ElLimits,     \* page sizes
  ElMaxChanges, \* bound: changes by others
  ElMaxPages    \* bound: pages a client asks for

VARIABLE el
elvars == <<el>>

ASSUME ElAssumption == ElKeys \subseteq Nat \ {0} /\ ElLimits \subseteq Nat \ {0}

\* The store's List: keys after the given one, in order, and whether more
\* are left.
Page(after, limit) ==
  LET all == SetToSortSeq({k \in DOMAIN el.rows : k > after}, <)
  IN [keys |-> SubSeq(all, 1, Min({limit, Len(all)})), more |-> Len(all) > limit]

\* resolveListReads and the filter: the join is loaded for this candidate.
Keeps(k, seen) == el.rows[k].tie \in el.ties

\* The token of a page is its last kept item; a page that keeps nothing has
\* an empty one.
TokenOf(kept) == IF kept = <<>> THEN 0 ELSE kept[Len(kept)]

\* runList and project: settle, filter, answer.
Answer(after, limit) ==
  LET p == Page(after, limit)
      listed == {p.keys[i] : i \in DOMAIN p.keys}
      before(k) == {j \in listed : j < k}
      kept == SelectSeq(p.keys, LAMBDA k : Keeps(k, before(k)))
  IN [kept |-> kept, more |-> p.more, token |-> TokenOf(kept), listed |-> listed]

Settled(S) == [k \in DOMAIN el.rows |-> IF k \in S THEN [el.rows[k] EXCEPT !.live = FALSE,
    !.timer = FALSE] ELSE el.rows[k]]

\* One page; the client goes on while it is given a token, and stops at the
\* empty one.
Turn(limit) ==
  /\ el.at \in {"idle", "walk"} /\ el.pages < ElMaxPages
  /\ LET a == Answer(el.token, limit)
         due == {k \in a.listed : el.rows[k].timer}
     IN el' = [el EXCEPT !.rows = Settled(due), !.pages = @ + 1,
                         !.served = @ \o [i \in DOMAIN a.kept |-> [key |-> a.kept[i],
                             tie |-> el.rows[a.kept[i]].tie]],
                         !.token = a.token, !.hollow = @ \/ (a.more /\ a.kept = <<>>),
                         !.steady = IF el.at = "idle"
                             THEN {k \in DOMAIN el.rows : el.rows[k].tie \in el.ties} ELSE @,
                         !.at = IF a.more /\ a.token # 0 THEN "walk" ELSE "end"]

\* A key narrows the list to one record, or to none.
Narrow(k) ==
  /\ el.at = "idle"
  /\ el' = [el EXCEPT !.at = "end", !.narrow = k,
                      !.served = IF k \in DOMAIN el.rows /\ Keeps(k, {})
                          THEN <<[key |-> k, tie |-> el.rows[k].tie]>> ELSE <<>>,
                      !.rows = Settled({k} \intersect {x \in DOMAIN el.rows : el.rows[x].timer})]

Change ==
  /\ el.changes < ElMaxChanges /\ el.at # "end"
  /\ \/ \E k \in DOMAIN el.rows :
          el' = [el EXCEPT !.rows = [x \in DOMAIN @ \ {k} |-> @[x]], !.steady = @ \ {k}, !.changes = @ + 1]
     \/ \E k \in ElKeys \ DOMAIN el.rows, t \in ElTies \union {""} :
          el' = [el EXCEPT !.rows = [x \in DOMAIN @ \union {k} |-> IF x = k
              THEN [live |-> TRUE, timer |-> FALSE, tie |-> t] ELSE @[x]],
                           !.changes = @ + 1]
     \/ \E t \in el.ties :
          el' = [el EXCEPT !.ties = @ \ {t}, !.steady = {k \in @ : el.rows[k].tie # t}, !.changes = @ + 1]
     \/ \E k \in DOMAIN el.rows :
          /\ el.rows[k].live /\ ~el.rows[k].timer
          /\ el' = [el EXCEPT !.rows[k].timer = TRUE, !.changes = @ + 1]

ElInit ==
  \E S \in SUBSET ElKeys : \E ties \in [S -> ElTies \union {""}] :
    el = [rows |-> [k \in S |-> [live |-> TRUE, timer |-> FALSE, tie |-> ties[k]]], ties |-> ElTies,
        token |-> 0, served |-> <<>>,
          at |-> "idle", pages |-> 0, steady |-> {}, changes |-> 0, hollow |-> FALSE, narrow |-> 0]
ElNext == (\E limit \in ElLimits : Turn(limit)) \/ (\E k \in ElKeys : Narrow(k)) \/ Change

Served == {el.served[i].key : i \in DOMAIN el.served}

\* A client that follows the tokens to the end has been served every item
\* that passed the filter all along, unless a page of dropped items gave it an
\* empty token (runList); items made or removed meanwhile change nothing.
ListingIsComplete ==
  el.at = "end" /\ el.narrow = 0 /\ ~el.hollow => el.steady \subseteq Served

\* No item is served twice.
NoItemTwice == Cardinality(Served) = Len(el.served)

\* Every item served passed the filter with its own joined row: what was
\* joined for the candidate before it is gone. (Ties are only removed, so an
\* item whose tie is empty never passes.)
JoinsAreOwn == \A i \in DOMAIN el.served : el.served[i].tie # ""

=============================================================================
