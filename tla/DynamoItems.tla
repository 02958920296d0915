---------------------------- MODULE DynamoItems -----------------------------
(***************************************************************************)
(* Items, streams and replicas of DynamoDB tables                          *)
(* (internal/services/aws/dynamodb).  A write changes the item in one      *)
(* transaction of the store and tells the other regions and the stream     *)
(* about it afterwards, one store operation at a time, so that requests    *)
(* overlap anywhere in between.  A table is known by its region and name.  *)
(***************************************************************************)
EXTENDS Tables, FiniteSets, Sequences, Integers
LOCAL INSTANCE SequencesExt

CONSTANTS DdKeys, DdReqs,
          DdInit,    \* tables at the start: rows as in ddTab
          DdMenus,   \* requests a behaviour may make, and who may make them
          DdOps,     \* bound on requests
          DdTokenLife,
          DdHome     \* the region and the name of the table whose stream is read
VARIABLES ddTab,     \* tables: the stream's view ("off" if none) and the replicas
          ddItem,    \* items:T by <<region, table, key>>: number and expiry
          ddGlob,    \* ddbglobal: source region and replicas of a global table
          ddSeq,     \* ddbseq
          ddLog,     \* ddbstream:T by <<region, table, number>>
          ddDest,    \* kinesisdest: the tables whose destination is ACTIVE
          ddKin,     \* records of the destination's Kinesis stream
          ddTok,     \* ddbtx-tokens
          ddBackup,  \* the backup taken last
          ddNow,
          ddReq,     \* requests under way
          ddRead,    \* records a reader of the stream was given, and its iterator
          ddMenu, ddOps,
          ddRaced,   \* two requests overlapped
          ddSilent,  \* items changed while the stream was off, or by a restore
          ddAdds,    \* ADDs applied, by item
          ddDone     \* times each token's transaction was applied while it lived

ddvars == <<ddTab, ddItem, ddGlob, ddSeq, ddLog, ddDest, ddKin, ddTok, ddBackup, ddNow,
            ddReq, ddRead, ddMenu, ddOps, ddRaced, ddSilent, ddAdds, ddDone>>
ddstore == <<ddTab, ddItem, ddGlob, ddSeq, ddLog, ddDest, ddKin, ddTok, ddBackup>>
ddghosts == <<ddSilent, ddAdds, ddDone>>

Missing == [n |-> 0, exp |-> -1]     \* no item
Idle == [pc |-> "idle"]
Forever == 99
Get(f, k, d) == IF k \in DOMAIN f THEN f[k] ELSE d
ItemAt(g, t, k) == Get(ddItem, <<g, t, k>>, Missing)
Stored(items, id, it) == IF it = Missing THEN Del(items, id) ELSE Put(items, id, it)

DynamoInit ==
  /\ ddTab = DdInit /\ ddItem = NoRows /\ ddGlob = NoRows /\ ddSeq = NoRows /\ ddLog = NoRows
  /\ ddDest = {} /\ ddKin = <<>> /\ ddTok = NoRows /\ ddBackup = NoRows /\ ddNow = 0
  /\ ddReq = [r \in DdReqs |-> Idle] /\ ddRead = [next |-> 1, recs |-> <<>>]
  /\ ddMenu \in DdMenus /\ ddOps = 0 /\ ddRaced = FALSE /\ ddSilent = FALSE
  /\ ddAdds = NoRows /\ ddDone = NoRows

AllIdle == \A r \in DdReqs : ddReq[r] = Idle
\* A request o, with its region and table, enters at step pc.
Starts(r, o, req) ==
  /\ ddReq[r] = Idle /\ r \in ddMenu.reqs /\ ddOps < DdOps /\ o \in ddMenu.ops
  /\ ddOps' = ddOps + 1
  /\ ddReq' = [ddReq EXCEPT ![r] = req]
  /\ ddRaced' = (ddRaced \/ (~AllIdle /\ req # Idle))
  /\ UNCHANGED <<ddMenu, ddNow, ddRead>>
Steps(r, req) ==
  /\ ddReq' = [ddReq EXCEPT ![r] = req]
  /\ UNCHANGED <<ddMenu, ddOps, ddNow, ddRead, ddRaced>>
\* What a request does when an item write is done: the events it owes, then the
\* writes it has left.
Owing(o, evs, todo) == [pc |-> "emit", o |-> o, evs |-> evs, todo |-> todo]

\* conditionOK, over the conditions the properties need.
conditionOK(cond, old) ==
  CASE cond = "attribute_not_exists" -> old = Missing
    [] cond = "attribute_exists" -> old # Missing
    [] OTHER -> TRUE
Written(kind, w, old) ==
  CASE kind = "Put" -> w.item
    [] kind = "Update" -> [n |-> old.n + 1, exp |-> IF old = Missing THEN Forever ELSE old.exp]
    [] OTHER -> Missing
EventOf(kind, old) == IF kind = "Delete" THEN "REMOVE" ELSE IF old = Missing THEN "INSERT" ELSE "MODIFY"
Event(o, w, old) ==
  [tab |-> w.tab, key |-> w.key, ev |-> EventOf(w.kind, old), item |-> Written(w.kind, w, old), old |-> old]
Counting(g, w) ==
  IF w.kind = "Update" THEN Put(ddAdds, <<g, w.tab, w.key>>, Get(ddAdds, <<g, w.tab, w.key>>, 0) + 1)
  ELSE IF w.kind = "ConditionCheck" THEN ddAdds ELSE Del(ddAdds, <<g, w.tab, w.key>>)

(***************************************************************************)
(* PutItem, UpdateItem, DeleteItem: the table is looked up, then the item  *)
(* is read, the condition checked and the item written in one transaction. *)
(***************************************************************************)
ddWrite(r) ==
  \E o \in ddMenu.ops :
    /\ o.op = "write" /\ <<o.at, o.w.tab>> \in DOMAIN ddTab
    /\ Starts(r, o, [pc |-> "apply", o |-> o, w |-> o.w, todo |-> <<>>])
    /\ UNCHANGED <<ddstore, ddghosts>>
ApplyWrite(r) ==
  /\ ddReq[r].pc = "apply"
  /\ LET o == ddReq[r].o
         w == ddReq[r].w
         old == ItemAt(o.at, w.tab, w.key)
     IN IF conditionOK(w.cond, old)
        THEN /\ ddItem' = Stored(ddItem, <<o.at, w.tab, w.key>>, Written(w.kind, w, old))
             /\ ddAdds' = Counting(o.at, w)
             /\ Steps(r, Owing(o, <<Event(o, w, old)>>, ddReq[r].todo))
        ELSE Steps(r, Idle) /\ UNCHANGED <<ddItem, ddAdds>>
  /\ UNCHANGED <<ddTab, ddGlob, ddSeq, ddLog, ddDest, ddKin, ddTok, ddBackup, ddSilent, ddDone>>

\* ExecuteStatement, BatchExecuteStatement and ExecuteTransaction: each statement
\* is a request of its own; a transaction stops at the first that faults.
partiql(r) ==
  \E o \in ddMenu.ops :
    /\ o.op = "statements"
    /\ Starts(r, o, [pc |-> "statement", o |-> o, todo |-> o.ws])
    /\ UNCHANGED <<ddstore, ddghosts>>
partiqlStatement(r) ==
  /\ ddReq[r].pc = "statement"
  /\ LET o == ddReq[r].o
         w == Head(ddReq[r].todo)
         left == Tail(ddReq[r].todo)
     IN Steps(r, IF <<o.at, w.tab>> \in DOMAIN ddTab THEN [pc |-> "apply", o |-> o, w |-> w, todo |-> left]
                 ELSE IF o.atomic \/ left = <<>> THEN Idle ELSE [pc |-> "statement", o |-> o, todo |-> left])
  /\ UNCHANGED <<ddstore, ddghosts>>

(***************************************************************************)
(* BatchWriteItem: request by request, the table looked up when its turn   *)
(* comes, the old item read first and the new one put without a            *)
(* transaction.  The tables' order is that of a map.                       *)
(***************************************************************************)
BatchWriteItem(r) ==
  \E o \in ddMenu.ops :
    /\ o.op = "batch"
    /\ \E ws \in {o.ws, Reverse(o.ws)} : Starts(r, o, [pc |-> "batch", o |-> o, todo |-> ws])
    /\ UNCHANGED <<ddstore, ddghosts>>
BatchLoad(r) ==
  /\ ddReq[r].pc = "batch"
  /\ LET o == ddReq[r].o
         w == Head(ddReq[r].todo)
     IN IF <<o.at, w.tab>> \in DOMAIN ddTab
        THEN Steps(r, [pc |-> "batchPut", o |-> o, todo |-> ddReq[r].todo, old |-> ItemAt(o.at,
            w.tab, w.key)])
        ELSE Steps(r, Idle)
  /\ UNCHANGED <<ddstore, ddghosts>>
BatchPut(r) ==
  /\ ddReq[r].pc = "batchPut"
  /\ LET o == ddReq[r].o
         w == Head(ddReq[r].todo)
     IN /\ ddItem' = Stored(ddItem, <<o.at, w.tab, w.key>>, Written(w.kind, w, ddReq[r].old))
        /\ ddAdds' = Counting(o.at, w)
        /\ Steps(r, Owing(o, <<Event(o, w, ddReq[r].old)>>, Tail(ddReq[r].todo)))
  /\ UNCHANGED <<ddTab, ddGlob, ddSeq, ddLog, ddDest, ddKin, ddTok, ddBackup, ddSilent, ddDone>>

(***************************************************************************)
(* TransactWriteItems: one transaction over the scope.  A token that was   *)
(* seen with the same items and has not expired is answered without        *)
(* applying them again; a failed condition cancels all of them.            *)
(***************************************************************************)
Lives(token) == token \in DOMAIN ddTok /\ ddTok[token].expires > ddNow
Cancelled(o) == \E i \in DOMAIN o.ws : ~conditionOK(o.ws[i].cond, ItemAt(o.at, o.ws[i].tab, o.ws[i].key))
Applicable(o) == SelectSeq(o.ws, LAMBDA w : w.kind # "ConditionCheck")
AfterWrites(o) ==
  LET w(id) == CHOOSE i \in DOMAIN o.ws : <<o.at, o.ws[i].tab, o.ws[i].key>> = id
      ids == {<<o.at, o.ws[i].tab,
          o.ws[i].key>> : i \in {j \in DOMAIN o.ws : o.ws[j].kind # "ConditionCheck"}}
      new(id) == Written(o.ws[w(id)].kind, o.ws[w(id)], Get(ddItem, id, Missing))
      left == {id \in ids : new(id) # Missing}
  IN [id \in (DOMAIN ddItem \ ids) \union left |-> IF id \in ids THEN new(id) ELSE ddItem[id]]
TokenForgotten(o) == ddTok        \* mistake: the token is not kept
TokenKept(o) ==
  IF o.token = "" THEN ddTok ELSE Put(ddTok, o.token, [ws |-> o.ws, expires |-> ddNow + DdTokenLife])
transactWriteItems(r) ==
  \E o \in ddMenu.ops :
    /\ o.op = "transact" /\ ~Lives(o.token)
    /\ \A i \in DOMAIN o.ws : <<o.at, o.ws[i].tab>> \in DOMAIN ddTab
    /\ ~Cancelled(o)
    /\ ddItem' = AfterWrites(o)
    /\ ddTok' = TokenKept(o)
    /\ ddDone' = IF o.token = "" THEN ddDone
                 ELSE Put(ddDone, o.token, IF o.token \in DOMAIN ddTok /\ ~Lives(o.token) THEN 1
                                           ELSE Get(ddDone, o.token, 0) + 1)
    /\ ddAdds' = DelAll(ddAdds, {<<o.at, o.ws[i].tab, o.ws[i].key>> : i \in DOMAIN o.ws})
    /\ LET ws == Applicable(o)
       IN Starts(r, o, Owing(o, [i \in DOMAIN ws |-> Event(o, ws[i],
           ItemAt(o.at, ws[i].tab, ws[i].key))], <<>>))
    /\ UNCHANGED <<ddTab, ddGlob, ddSeq, ddLog, ddDest, ddKin, ddBackup, ddSilent>>

(***************************************************************************)
(* ExpireItems lists the items, then deletes each one that had expired,    *)
(* if it is still there.                                                   *)
(***************************************************************************)
Expired(g, t) == {k \in DdKeys : ItemAt(g, t, k) # Missing /\ ItemAt(g, t, k).exp <= ddNow}
ExpireItems(r) ==
  \E o \in ddMenu.ops :
    /\ o.op = "expire" /\ <<o.at, o.tab>> \in DOMAIN ddTab /\ Expired(o.at, o.tab) # {}
    /\ LET ks == SetToSeq(Expired(o.at, o.tab))
       IN Starts(r, o, [pc |-> "expire", o |-> o,
                        todo |-> [i \in DOMAIN ks |-> [kind |-> "Delete", tab |-> o.tab,
                            key |-> ks[i], cond |-> "",
                                                       item |-> ItemAt(o.at, o.tab, ks[i])]]])
    /\ UNCHANGED <<ddstore, ddghosts>>
ExpireDelete(r) ==
  /\ ddReq[r].pc = "expire"
  /\ LET o == ddReq[r].o
         w == Head(ddReq[r].todo)
         id == <<o.at, w.tab, w.key>>
     IN /\ ddItem' = Del(ddItem, id)
        /\ ddAdds' = Del(ddAdds, id)
        /\ Steps(r, IF id \in DOMAIN ddItem THEN Owing(o, <<Event(o, w, w.item)>>, Tail(ddReq[r].todo))
                    ELSE IF Tail(ddReq[r].todo) = <<>> THEN Idle
                    ELSE [ddReq[r] EXCEPT !.todo = Tail(@)])
  /\ UNCHANGED <<ddTab, ddGlob, ddSeq, ddLog, ddDest, ddKin, ddTok, ddBackup, ddSilent, ddDone>>

(***************************************************************************)
(* emitStream: for every region of the table, first the replica's item,    *)
(* then a number from ddbseq, the record, and the Kinesis destination.     *)
(***************************************************************************)
globalTableIdentities(g, t) ==
  IF <<g, t>> \in DOMAIN ddGlob THEN <<ddGlob[<<g, t>>].source>> \o SetToSeq(ddGlob[<<g,
      t>>].group) ELSE <<g>>
\* The events are told; the request goes on with its writes, or is answered.
Told(req) ==
  IF req.todo = <<>> THEN Idle
  ELSE [pc |-> CASE req.o.op = "expire" -> "expire" [] req.o.op = "statements" -> "statement" [] OTHER -> "batch", o |-> req.o, todo |-> req.todo]
emitStream(r) ==
  /\ ddReq[r].pc = "emit"
  /\ IF ddReq[r].evs = <<>> THEN Steps(r, Told(ddReq[r]))
     ELSE Steps(r, [pc |-> "region", o |-> ddReq[r].o, evs |-> ddReq[r].evs, todo |-> ddReq[r].todo,
                    regions |-> globalTableIdentities(ddReq[r].o.at, Head(ddReq[r].evs).tab)])
  /\ UNCHANGED <<ddstore, ddghosts>>

\* A replica takes the item, or drops it.
Replicated(id, e) == IF e.ev = "REMOVE" THEN Del(ddItem, id) ELSE Put(ddItem, id, e.item)
Changed(e) == ~(e.ev = "REMOVE" /\ e.old = Missing) /\ ~(e.ev = "MODIFY" /\ e.item = e.old)
emitRegion(r) ==
  /\ ddReq[r].pc = "region"
  /\ LET q == ddReq[r]
         e == Head(q.evs)
         g == Head(q.regions)
         known == q.regions # <<>>
     IN IF ~known THEN /\ Steps(r, Owing(q.o, Tail(q.evs), q.todo)) /\ UNCHANGED <<ddItem, ddAdds>>
        ELSE /\ ddItem' = IF g = q.o.at THEN ddItem ELSE Replicated(<<g, e.tab, e.key>>, e)
             /\ ddAdds' = IF g = q.o.at THEN ddAdds ELSE Del(ddAdds, <<g, e.tab, e.key>>)
             /\ Steps(r, [q EXCEPT !.pc = "number"])
  /\ UNCHANGED <<ddTab, ddGlob, ddSeq, ddLog, ddDest, ddKin, ddTok, ddBackup, ddSilent, ddDone>>
\* emitRegionalStream reads the definition and the last number ...
NextRegion(q) == [pc |-> "region", o |-> q.o, evs |-> q.evs, todo |-> q.todo, regions |-> Tail(q.regions)]
View(g, t) == Get(ddTab, <<g, t>>, [view |-> "off", reps |-> {}]).view
nextStreamSeq(r) ==
  /\ ddReq[r].pc = "number"
  /\ LET q == ddReq[r]
         e == Head(q.evs)
         id == <<Head(q.regions), e.tab>>
         dest == id \in ddDest
     IN /\ IF (View(id[1], id[2]) = "off" /\ ~dest) \/ ~Changed(e) THEN Steps(r, NextRegion(q))
           ELSE Steps(r, [q EXCEPT !.pc = "numbered"]
                           @@ [seq |-> Get(ddSeq, id, 0) + 1, view |-> View(id[1], id[2]), dest |-> dest])
        /\ ddSilent' = (ddSilent \/ (View(id[1], id[2]) # "images" /\ Changed(e)))
  /\ UNCHANGED <<ddstore, ddAdds, ddDone>>
\* ... writes it back increased ...
WriteStreamSeq(r) ==
  /\ ddReq[r].pc = "numbered"
  /\ LET q == ddReq[r]
     IN /\ ddSeq' = Put(ddSeq, <<Head(q.regions), Head(q.evs).tab>>, q.seq)
        /\ Steps(r, [q EXCEPT !.pc = "record"])
  /\ UNCHANGED <<ddTab, ddItem, ddGlob, ddLog, ddDest, ddKin, ddTok, ddBackup, ddghosts>>
\* ... and puts the record.
Record(q) ==
  LET e == Head(q.evs) IN
  [ev |-> e.ev, key |-> e.key, new |-> IF q.view = "images" /\ e.ev # "REMOVE" THEN e.item ELSE Missing]
emitRegionalStream(r) ==
  /\ ddReq[r].pc = "record"
  /\ LET q == ddReq[r]
         id == <<Head(q.regions), Head(q.evs).tab, q.seq>>
     IN /\ ddLog' = IF q.view = "off" THEN ddLog ELSE Put(ddLog, id, Record(q))
        /\ Steps(r, IF q.dest THEN [q EXCEPT !.pc = "kinesis"] ELSE NextRegion(q))
  /\ UNCHANGED <<ddTab, ddItem, ddGlob, ddSeq, ddDest, ddKin, ddTok, ddBackup, ddghosts>>
\* The Kinesis record takes its number and is put in one transaction.
emitKinesisDestinations(r) ==
  /\ ddReq[r].pc = "kinesis"
  /\ ddKin' = Append(ddKin, Record(ddReq[r]))
  /\ Steps(r, NextRegion(ddReq[r]))
  /\ UNCHANGED <<ddTab, ddItem, ddGlob, ddSeq, ddLog, ddDest, ddTok, ddBackup, ddghosts>>

(***************************************************************************)
(* Tables.  DeleteTable drops the definition and leaves items, stream and  *)
(* replicas' records behind.                                               *)
(***************************************************************************)
ddCreateTable(r) ==
  \E o \in ddMenu.ops :
    /\ o.op = "create" /\ <<o.at, o.tab>> \notin DOMAIN ddTab
    /\ ddTab' = Put(ddTab, <<o.at, o.tab>>, [view |-> o.view, reps |-> {}])
    /\ Starts(r, o, Idle)
    /\ UNCHANGED <<ddItem, ddGlob, ddSeq, ddLog, ddDest, ddKin, ddTok, ddBackup, ddghosts>>
ddDeleteTable(r) ==
  \E o \in ddMenu.ops :
    /\ o.op = "drop" /\ <<o.at, o.tab>> \in DOMAIN ddTab
    /\ ddTab' = Del(ddTab, <<o.at, o.tab>>)
    /\ Starts(r, o, Idle)
    /\ UNCHANGED <<ddItem, ddGlob, ddSeq, ddLog, ddDest, ddKin, ddTok, ddBackup, ddghosts>>
\* UpdateTable with a stream specification writes back the definition it read.
UpdateTable(r) ==
  \E o \in ddMenu.ops :
    /\ o.op = "stream" /\ <<o.at, o.tab>> \in DOMAIN ddTab
    /\ Starts(r, o, [pc |-> "store", o |-> o, def |-> [ddTab[<<o.at, o.tab>>] EXCEPT !.view = o.view]])
    /\ UNCHANGED <<ddstore, ddghosts>>
StoreTable(r) ==
  /\ ddReq[r].pc = "store"
  /\ ddTab' = Put(ddTab, <<ddReq[r].o.at, ddReq[r].o.tab>>, ddReq[r].def)
  /\ Steps(r, Idle)
  /\ UNCHANGED <<ddItem, ddGlob, ddSeq, ddLog, ddDest, ddKin, ddTok, ddBackup, ddghosts>>
\* Enable needs the Kinesis stream; Disable and Update an existing destination.
kinesisDestination(r) ==
  \E o \in ddMenu.ops :
    /\ o.op = "kinesis" /\ <<o.at, o.tab>> \in DOMAIN ddTab
    /\ ddDest' = IF o.on THEN ddDest \union {<<o.at, o.tab>>} ELSE ddDest \ {<<o.at, o.tab>>}
    /\ Starts(r, o, Idle)
    /\ UNCHANGED <<ddTab, ddItem, ddGlob, ddSeq, ddLog, ddKin, ddTok, ddBackup, ddghosts>>

(***************************************************************************)
(* updateTableReplicas.  A new replica gets the definition, then the items *)
(* listed, one by one; a removed one loses its records; then every region  *)
(* of the group is told, and the requester's definition stored.            *)
(***************************************************************************)
GlobalState(g, t) == Get(ddGlob, <<g, t>>, [source |-> g, group |-> {}])
Items(g, t) == {k \in DdKeys : <<g, t, k>> \in DOMAIN ddItem}
CreateReplica(r) ==
  \E o \in ddMenu.ops :
    LET st == GlobalState(o.at, o.tab) IN
    /\ o.op = "replicate" /\ <<o.at, o.tab>> \in DOMAIN ddTab
    /\ o.to # st.source /\ o.to \notin st.group /\ <<o.to, o.tab>> \notin DOMAIN ddTab
    /\ ddTab' = Put(ddTab, <<o.to, o.tab>>, ddTab[<<o.at, o.tab>>])
    /\ Starts(r, o, [pc |-> "list", o |-> o, st |-> [st EXCEPT !.group = @ \union {o.to}]])
    /\ UNCHANGED <<ddItem, ddGlob, ddSeq, ddLog, ddDest, ddKin, ddTok, ddBackup, ddghosts>>
CopyList(r) ==
  /\ ddReq[r].pc = "list"
  /\ LET q == ddReq[r]
         ks == SetToSeq(Items(q.o.at, q.o.tab))
     IN Steps(r, [q EXCEPT !.pc = "copy"] @@ [todo |-> [i \in DOMAIN ks |-> <<ks[i],
         ItemAt(q.o.at, q.o.tab, ks[i])>>]])
  /\ UNCHANGED <<ddstore, ddghosts>>
CopyItem(r) ==
  /\ ddReq[r].pc = "copy"
  /\ LET q == ddReq[r] IN
     IF q.todo = <<>>
     THEN /\ Steps(r, IF q.o.op = "replicate" THEN [pc |-> "tell", o |-> q.o, st |-> q.st] ELSE Idle)
          /\ UNCHANGED <<ddItem, ddSilent, ddAdds>>
     ELSE /\ ddItem' = Put(ddItem, <<q.o.to, q.o.tab, q.todo[1][1]>>, q.todo[1][2])
          /\ ddSilent' = TRUE /\ ddAdds' = Del(ddAdds, <<q.o.to, q.o.tab, q.todo[1][1]>>)
          /\ Steps(r, [q EXCEPT !.todo = Tail(@)])
  /\ UNCHANGED <<ddTab, ddGlob, ddSeq, ddLog, ddDest, ddKin, ddTok, ddBackup, ddDone>>
DeleteReplica(r) ==
  \E o \in ddMenu.ops :
    LET st == GlobalState(o.at, o.tab) IN
    /\ o.op = "unreplicate" /\ <<o.at, o.tab>> \in DOMAIN ddTab /\ o.to \in st.group
    /\ ddTab' = Del(ddTab, <<o.to, o.tab>>)
    /\ ddGlob' = Del(ddGlob, <<o.to, o.tab>>)
    /\ Starts(r, o, [pc |-> "clear", o |-> o, st |-> [st EXCEPT !.group = @ \ {o.to}]])
    /\ UNCHANGED <<ddItem, ddSeq, ddLog, ddDest, ddKin, ddTok, ddBackup, ddghosts>>
clearCollection(r) ==
  /\ ddReq[r].pc = "clear"
  /\ LET o == ddReq[r].o IN
     /\ ddItem' = DelAll(ddItem, {o.to} \X {o.tab} \X DdKeys)
     /\ ddAdds' = DelAll(ddAdds, {o.to} \X {o.tab} \X DdKeys)
     /\ ddLog' = DelAll(ddLog, {id \in DOMAIN ddLog : id[1] = o.to /\ id[2] = o.tab})
  /\ Steps(r, [ddReq[r] EXCEPT !.pc = "tell"])
  /\ UNCHANGED <<ddTab, ddGlob, ddSeq, ddDest, ddKin, ddTok, ddBackup, ddSilent, ddDone>>
updateTableReplicas(r) ==
  /\ ddReq[r].pc = "tell"
  /\ LET q == ddReq[r]
         told == {g \in {q.st.source} \union q.st.group : <<g, q.o.tab>> \in DOMAIN ddTab}
         ids == told \X {q.o.tab}
     IN /\ ddTab' = [id \in DOMAIN ddTab |-> IF id \in ids
         THEN [ddTab[id] EXCEPT !.reps = q.st.group] ELSE ddTab[id]]
        /\ ddGlob' = IF q.st.group = {} THEN DelAll(ddGlob, ids)
                     ELSE [id \in DOMAIN ddGlob \union ids |-> IF id \in ids THEN q.st ELSE ddGlob[id]]
        /\ Steps(r, IF q.o.op = "unreplicate" /\ q.o.to = q.o.at THEN Idle
                    ELSE [pc |-> "store", o |-> q.o,
                          def |-> Get(ddTab', <<q.o.at, q.o.tab>>, [view |-> "off", reps |-> {}])])
  /\ UNCHANGED <<ddItem, ddSeq, ddLog, ddDest, ddKin, ddTok, ddBackup, ddghosts>>

(***************************************************************************)
(* CreateBackup copies table and items; RestoreTableFromBackup and         *)
(* RestoreTableToPointInTime put a definition and then items over whatever *)
(* the target holds, unseen by its stream.                                 *)
(***************************************************************************)
CreateBackup(r) ==
  \E o \in ddMenu.ops :
    /\ o.op = "backup" /\ <<o.at, o.tab>> \in DOMAIN ddTab
    /\ ddBackup' = [def |-> ddTab[<<o.at, o.tab>>],
                    items |-> [k \in Items(o.at, o.tab) |-> ItemAt(o.at, o.tab, k)]]
    /\ Starts(r, o, Idle)
    /\ UNCHANGED <<ddTab, ddItem, ddGlob, ddSeq, ddLog, ddDest, ddKin, ddTok, ddghosts>>
RestoreTableFromBackup(r) ==
  \E o \in ddMenu.ops :
    /\ o.op = "restore" /\ ddBackup # NoRows
    /\ ddTab' = Put(ddTab, <<o.at, o.tab>>, ddBackup.def)
    /\ LET ks == SetToSeq(DOMAIN ddBackup.items)
       IN Starts(r, o, [pc |-> "copy", o |-> o, todo |-> [i \in DOMAIN ks |-> <<ks[i],
           ddBackup.items[ks[i]]>>]])
    /\ UNCHANGED <<ddItem, ddGlob, ddSeq, ddLog, ddDest, ddKin, ddTok, ddBackup, ddghosts>>

(***************************************************************************)
(* A reader of the home stream: from TRIM_HORIZON, one record at a time.   *)
(***************************************************************************)
HomeLog == {id \in DOMAIN ddLog : SubSeq(id, 1, 2) = DdHome}
getStreamRecords ==
  LET more == {id \in HomeLog : id[3] >= ddRead.next} IN
  /\ more # {}
  /\ LET n == MinOf({id[3] : id \in more})
     IN ddRead' = [next |-> n + 1, recs |-> Append(ddRead.recs, ddLog[Append(DdHome, n)])]
  /\ UNCHANGED <<ddstore, ddghosts, ddNow, ddReq, ddMenu, ddOps, ddRaced>>
ddTick ==
  /\ ddNow < DdTokenLife /\ ddNow' = ddNow + 1
  /\ UNCHANGED <<ddstore, ddghosts, ddReq, ddRead, ddMenu, ddOps, ddRaced>>

DynamoNext ==
  \/ \E r \in DdReqs :
       \/ ddWrite(r) \/ ApplyWrite(r) \/ partiql(r) \/ partiqlStatement(r)
       \/ BatchWriteItem(r) \/ BatchLoad(r) \/ BatchPut(r)
       \/ transactWriteItems(r) \/ ExpireItems(r) \/ ExpireDelete(r)
       \/ emitStream(r) \/ emitRegion(r) \/ nextStreamSeq(r) \/ WriteStreamSeq(r)
       \/ emitRegionalStream(r) \/ emitKinesisDestinations(r)
       \/ ddCreateTable(r) \/ ddDeleteTable(r) \/ UpdateTable(r) \/ StoreTable(r) \/ kinesisDestination(r)
       \/ CreateReplica(r) \/ CopyList(r) \/ CopyItem(r) \/ DeleteReplica(r) \/ clearCollection(r)
       \/ updateTableReplicas(r) \/ CreateBackup(r) \/ RestoreTableFromBackup(r)
  \/ getStreamRecords \/ ddTick

(***************************************************************************)
(* Properties                                                              *)
(***************************************************************************)
\* Whoever replays the stream's records has the table: while requests do not
\* overlap and the stream was on with images, INSERT, MODIFY and REMOVE records
\* rebuild exactly the items of the table.
Replay(recs) ==
  LET after[i \in 0..Len(recs)] ==
        IF i = 0 THEN NoRows
        ELSE IF recs[i].ev = "REMOVE" THEN Del(after[i - 1], recs[i].key)
        ELSE Put(after[i - 1], recs[i].key, recs[i].new)
  IN after[Len(recs)]
StreamRebuilds ==
  AllIdle /\ ~ddRaced /\ ~ddSilent /\ (\A id \in HomeLog : id[3] < ddRead.next)
    => Replay(ddRead.recs) = [k \in Items(DdHome[1], DdHome[2]) |-> ItemAt(DdHome[1], DdHome[2], k)]

\* The regions of a global table hold the same items once a write is answered,
\* as long as requests do not overlap.
ReplicasAgree ==
  AllIdle /\ ~ddRaced =>
    \A id \in DOMAIN ddGlob : \A g \in {ddGlob[id].source} \union ddGlob[id].group : \A k \in DdKeys :
      ItemAt(g, id[2], k) = ItemAt(id[1], id[2], k)

\* However requests overlap in one region, no ADD is lost: the item counts them.
NoLostAdd ==
  ddGlob = NoRows => \A id \in DOMAIN ddAdds :
    id \in DOMAIN ddItem => ddItem[id].n >= ddAdds[id]

\* A transaction is applied whole, and once for the life of its token: table
\* "pair" is only written by transactions that give both keys one number.
TransactionsWhole ==
  /\ \A a, b \in DdKeys, g \in {DdHome[1]} : ItemAt(g, "pair", a).n = ItemAt(g, "pair", b).n
  /\ \A token \in DOMAIN ddDone : ddDone[token] <= 1

-----------------------------------------------------------------------------
(***************************************************************************)
(* The definition of one DynamoDB table (dynamodb.go): what CreateTable    *)
(* and UpdateTable make of billing, throughput, indexes and encryption.    *)
(* 0 stands for a setting that is not given.                               *)
(***************************************************************************)

CONSTANTS DfUnits, DfIndexes, DfOps
VARIABLES dfDef,       \* the stored definition
          dfKey,       \* the account's default key exists
          dfOps,
          dfSwitched,  \* an on-demand table was given provisioned capacity
          dfWas        \* the definition before the last request, and that request

dfvars == <<dfDef, dfKey, dfOps, dfSwitched, dfWas>>
NoDef == [units |-> -1]
Modes == {"", "PROVISIONED", "PAY_PER_REQUEST"}
Requests == [mode : Modes, units : DfUnits \union {0}, index : DfIndexes \union {""}, sse : {"", "on", "off"}]

DefsInit == dfDef = NoDef /\ dfKey = FALSE /\ dfOps = 0 /\ dfSwitched = FALSE /\ dfWas = [def |-> NoDef, req |-> NoDef]

\* prepareTableMetadata: the mode is the one given, else the one stored; an
\* on-demand table and its indexes have no capacity, whatever was asked.
Billing(mode, def) == IF mode # "" THEN mode ELSE IF def.onDemand THEN "PAY_PER_REQUEST" ELSE ""
IndexesFollow(mode, def) ==
  [i \in DOMAIN def.indexes |-> IF Billing(mode, def) = "PAY_PER_REQUEST" THEN 0 ELSE def.indexes[i]]
prepareTableMetadata(mode, sse, def) ==
  [units |-> IF Billing(mode, def) = "PAY_PER_REQUEST" THEN 0 ELSE def.units,
   onDemand |-> def.onDemand \/ Billing(mode, def) = "PAY_PER_REQUEST",
   indexes |-> IndexesFollow(mode, def),
   sse |-> IF sse = "on" THEN "ENABLED" ELSE def.sse]
\* defaultDynamoDBKey makes the key on first use, in one transaction.
defaultDynamoDBKey(sse) == dfKey' = (dfKey \/ sse = "on")

Answer(q, def) ==
  /\ dfDef' = def /\ dfOps' = dfOps + 1 /\ dfWas' = [def |-> dfDef, req |-> q]
  /\ dfSwitched' = (dfSwitched \/ (dfDef # NoDef /\ dfDef.onDemand /\ q.mode = "PROVISIONED"))
dfCreateTable ==
  \E q \in Requests :
    /\ dfDef = NoDef /\ dfOps < DfOps
    /\ ~(q.mode = "PAY_PER_REQUEST" /\ q.units # 0)
    /\ defaultDynamoDBKey(q.sse)
    /\ Answer(q, prepareTableMetadata(q.mode, q.sse,
         [units |-> q.units, onDemand |-> FALSE, sse |-> "",
          indexes |-> IF q.index = "" THEN NoRows ELSE Put(NoRows, q.index, q.units)]))
dfUpdateTable ==
  \E q \in Requests, drop \in BOOLEAN :
    /\ dfDef # NoDef /\ dfOps < DfOps
    /\ defaultDynamoDBKey(q.sse)
    /\ Answer(q, prepareTableMetadata(q.mode, q.sse,
         [dfDef EXCEPT !.units = IF q.units # 0 THEN q.units ELSE @,
                       !.indexes = IF q.index = "" THEN @ ELSE IF drop THEN Del(@, q.index)
                           ELSE Put(@, q.index, 1)]))

DefsNext == dfCreateTable \/ dfUpdateTable

\* Capacity follows the billing mode: a table that is on demand has none, its
\* indexes neither, and a request that names neither mode nor capacity changes
\* neither - except after a switch from on-demand to provisioned, where the old
\* BillingModeSummary stays in the definition (prepareTableMetadata).
CapacityFollowsMode ==
  dfDef # NoDef /\ ~dfSwitched =>
    /\ dfDef.onDemand => dfDef.units = 0 /\ \A i \in DOMAIN dfDef.indexes : dfDef.indexes[i] = 0
    /\ dfWas.def # NoDef /\ dfWas.req.mode = "" /\ dfWas.req.units = 0
         => dfDef.units = dfWas.def.units /\ dfDef.onDemand = dfWas.def.onDemand
    /\ dfDef.sse = "ENABLED" => dfKey
=============================================================================
