--------------------------- MODULE StorageProofs ----------------------------
(***************************************************************************)
(* What is kept across restarts, and the store every service writes to:    *)
(* the identifiers of the records never run ahead of the identifier        *)
(* stream, an archive of a finished save is whole, no process runs on an   *)
(* archive of another spec lock, and the store's transactions are atomic.  *)
(***************************************************************************)
EXTENDS Persistence, KeyedStore, TLAPS

(***************************************************************************)
(* Snapshot, Restore and SavePersist (module Persistence)                  *)
(***************************************************************************)

\* The order of the parts, spelled out for the provers.
LEMMA OrderOfParts ==
  /\ Len(Order) = 3
  /\ Order[1] = "records" /\ Order[2] = "blobs" /\ Order[3] = "position"
BY DEF Order

\* The type invariant is inductive.
LEMMA PersistenceTypeStep == PersistenceTypeOK /\ [PersistenceNext]_persistenceVars => PersistenceTypeOK'
<1> SUFFICES ASSUME PersistenceTypeOK, [PersistenceNext]_persistenceVars PROVE PersistenceTypeOK'
    OBVIOUS
<1> USE BoundsAreNat, DeletableVersions, OrderOfParts DEF Entries
<1>1. ASSUME NEW l \in Locks, Boot(l) PROVE PersistenceTypeOK'
  <2>1. /\ records' \in [Versions -> Nat] /\ blobs' \subseteq Versions /\ position' \in Nat
    BY <1>1 DEF PersistenceTypeOK, Boot, Archive, State, Restored, Fresh, NoRecords
  <2>2. collected' \in State
    BY <1>1 DEF Boot, State, Fresh, NoRecords
  <2> QED
    BY <1>1, <2>1, <2>2 DEF PersistenceTypeOK, Boot, Request, files
<1>2. ASSUME NEW k \in Versions, DrawId(k) PROVE PersistenceTypeOK'
  BY <1>2 DEF PersistenceTypeOK, DrawId, Request, files
<1>3. ASSUME PutBlob PROVE PersistenceTypeOK'
  <2>1. request \in Request /\ request # NoRequest
    BY <1>3 DEF PersistenceTypeOK, PutBlob, NoRequest
  <2>2. request.version \in Versions /\ request' \in Request
    BY <1>3, <2>1 DEF Request, PutBlob
  <2> QED
    BY <1>3, <2>2 DEF PersistenceTypeOK, PutBlob, files
<1>4. ASSUME PutRecord \/ DeleteRecord PROVE PersistenceTypeOK'
  <2>1. request \in Request /\ request # NoRequest
    BY <1>4 DEF PersistenceTypeOK, PutRecord, DeleteRecord, NoRequest
  <2>2. request.version \in Versions /\ request.id \in Nat /\ NoRequest \in Request
    BY <2>1 DEF Request
  <2> QED
    BY <1>4, <2>2 DEF PersistenceTypeOK, PutRecord, DeleteRecord, files
<1>5. ASSUME NEW k \in Deletable, DeleteBlob(k) PROVE PersistenceTypeOK'
  BY <1>5 DEF PersistenceTypeOK, DeleteBlob, Request, files
<1>6. ASSUME ServeReturns PROVE PersistenceTypeOK'
  BY <1>6 DEF PersistenceTypeOK, ServeReturns, memory, files
<1>7. ASSUME Collect PROVE PersistenceTypeOK'
  <2>1. collected' \in State
    BY <1>7 DEF PersistenceTypeOK, Collect, State, Current
  <2> QED
    BY <1>7, <2>1 DEF PersistenceTypeOK, Collect, memory, files
<1>8. ASSUME Truncate PROVE PersistenceTypeOK'
  BY <1>8 DEF PersistenceTypeOK, Truncate, Archive, memory
<1>9. ASSUME Fill PROVE PersistenceTypeOK'
  BY <1>9 DEF PersistenceTypeOK, Fill, Archive, memory
<1>10. ASSUME Interrupt PROVE PersistenceTypeOK'
  <2>1. CASE stage = "fill"
    <3>1. PICK n \in 0 .. Entries, b \in BOOLEAN : archive' = [archive EXCEPT !.parts = n, !.cut = b]
      BY <1>10, <2>1, Zenon DEF Interrupt
    <3>2. archive' \in Archive
      BY <2>1, <3>1 DEF PersistenceTypeOK, Archive
    <3> QED
      BY <1>10, <3>2 DEF PersistenceTypeOK, Interrupt, memory
  <2>2. CASE stage # "fill"
    BY <1>10, <2>2 DEF PersistenceTypeOK, Interrupt, memory
  <2> QED
    BY <2>1, <2>2
<1>11. ASSUME SnapshotSave PROVE PersistenceTypeOK'
  BY <1>11 DEF PersistenceTypeOK, SnapshotSave, memory
<1>12. ASSUME SnapshotLoad PROVE PersistenceTypeOK'
  BY <1>12 DEF PersistenceTypeOK, SnapshotLoad, memory
<1>13. ASSUME UNCHANGED persistenceVars PROVE PersistenceTypeOK'
  BY <1>13 DEF PersistenceTypeOK, persistenceVars
<1> QED
  BY <1>1, <1>2, <1>3, <1>4, <1>5, <1>6, <1>7, <1>8, <1>9, <1>10, <1>11, <1>12, <1>13 DEF PersistenceNext

\* The initial state has its types.
LEMMA TypeCorrectAtStart == PersistenceInit => PersistenceTypeOK
BY OrderOfParts DEF PersistenceInit, PersistenceTypeOK, NoRecords, Fresh, State, Request

\* Process, files and copies keep their types, in particular the progress of a
\* save and the archive it is writing (SavePersist).
THEOREM TypeCorrect == PersistenceSpec => []PersistenceTypeOK
BY TypeCorrectAtStart, PersistenceTypeStep, PTL DEF PersistenceSpec

-----------------------------------------------------------------------------

\* What IdsBehindPosition says, of a saved or collected state.
Distinct(r) == \A j, k \in Versions : r[j] # 0 /\ j # k => r[j] # r[k]
Below(r, p) == \A k \in Versions : r[k] <= p
Behind(s) == Below(s.records, s.position) /\ Distinct(s.records)

\* A drawn identifier that no record holds yet is behind the position too.
Pending ==
  request.step \in {"drawn", "blob"} =>
    /\ request.id > 0 /\ request.id <= position
    /\ \A k \in Versions : records[k] # request.id

\* The inductive invariant: it also holds of every copy of the state.  Between
\* the collection of the records and that of the position the stream only
\* moves on, so the collected records stay below it.
IdsInv ==
  /\ PersistenceTypeOK
  /\ Below(records, position) /\ Distinct(records)
  /\ Pending
  /\ archive # NoArchive => Behind(archive.state)
  /\ named # NoArchive => Behind(named.state)
  /\ stage = "collect" /\ done >= 1 =>
       Below(collected.records, position) /\ Distinct(collected.records)
  /\ stage = "write" => Behind(collected)
  /\ stage = "fill" => Behind(archive.state)

\* Every action preserves it.
LEMMA IdsStep == IdsInv /\ [PersistenceNext]_persistenceVars => IdsInv'
<1> SUFFICES ASSUME IdsInv, [PersistenceNext]_persistenceVars PROVE IdsInv'
    OBVIOUS
<1>0. PersistenceTypeOK /\ PersistenceTypeOK'
  BY PersistenceTypeStep DEF IdsInv
<1> USE <1>0, BoundsAreNat, DeletableVersions
<1>1. ASSUME NEW l \in Locks, Boot(l) PROVE IdsInv'
  <2>1. Below(records', position') /\ Distinct(records')
    <3>1. CASE archive = NoArchive
      BY <1>1, <3>1 DEF Boot, Fresh, NoRecords, Below, Distinct
    <3>2. CASE archive # NoArchive
      <4>1. archive \in Archive /\ Behind(archive.state)
        BY <3>2 DEF IdsInv, PersistenceTypeOK
      <4>2. records' = Restored(archive).records /\ position' = Restored(archive).position
        BY <1>1, <3>2 DEF Boot
      <4>3. CASE archive.parts >= 2
        BY <4>1, <4>2, <4>3 DEF Restored, Archive, State, Behind
      <4>4. CASE archive.parts < 2
        BY <4>1, <4>2, <4>4 DEF Restored, Archive, State, NoRecords, Below, Distinct
      <4> QED
        BY <4>1, <4>3, <4>4 DEF Archive
    <3> QED
      BY <3>1, <3>2
  <2> QED
    BY <1>1, <2>1 DEF IdsInv, Boot, Below, Distinct, Pending, NoRequest, files
<1>2. ASSUME NEW k \in Versions, DrawId(k) PROVE IdsInv'
  <2>1. Below(records', position') /\ Distinct(records') /\ Pending'
    BY <1>2 DEF IdsInv, DrawId, PersistenceTypeOK, Below, Distinct, Pending
  <2>2. stage = "collect" /\ done >= 1 => Below(collected.records, position')
    BY <1>2 DEF IdsInv, DrawId, PersistenceTypeOK, State, Below
  <2> QED
    BY <1>2, <2>1, <2>2 DEF IdsInv, DrawId, Distinct, files
<1>3. ASSUME PutBlob PROVE IdsInv'
  <2>1. Pending'
    BY <1>3 DEF IdsInv, PutBlob, Pending, PersistenceTypeOK, Request, NoRequest
  <2> QED
    BY <1>3, <2>1 DEF IdsInv, PutBlob, Below, Distinct, files
<1>4. ASSUME PutRecord \/ DeleteRecord PROVE IdsInv'
  <2>1. request.version \in Versions /\ request.id \in Nat
    BY <1>4 DEF PersistenceTypeOK, Request, PutRecord, DeleteRecord, NoRequest
  <2>2. Below(records', position') /\ Distinct(records')
    <3>1. CASE PutRecord
      BY <2>1, <3>1 DEF IdsInv, PutRecord, PersistenceTypeOK, Below, Distinct, Pending
    <3>2. CASE DeleteRecord
      BY <2>1, <3>2 DEF IdsInv, DeleteRecord, PersistenceTypeOK, Below, Distinct
    <3> QED
      BY <1>4, <3>1, <3>2
  <2>3. Pending'
    BY <1>4 DEF PutRecord, DeleteRecord, Pending, NoRequest
  <2> QED
    BY <1>4, <2>2, <2>3 DEF IdsInv, PutRecord, DeleteRecord, Below, Distinct, files
<1>5. ASSUME NEW k \in Deletable, DeleteBlob(k) PROVE IdsInv'
  BY <1>5 DEF IdsInv, DeleteBlob, Below, Distinct, Pending, files
<1>6. ASSUME ServeReturns PROVE IdsInv'
  BY <1>6 DEF IdsInv, Pending, ServeReturns, PersistenceTypeOK, memory, files
<1>7. ASSUME Collect PROVE IdsInv'
  <2>1. CASE done = 0
    <3>1. collected'.records = records /\ done' = 1 /\ stage' = "collect"
      BY <1>7, <2>1, OrderOfParts DEF Collect, Current, PersistenceTypeOK, State
    <3> QED
      BY <1>7, <3>1 DEF IdsInv, Pending, Collect, memory, files
  <2>2. CASE done = 1
    <3>1. collected'.records = collected.records /\ done' = 2 /\ stage' = "collect"
      BY <1>7, <2>2, OrderOfParts DEF Collect, Current, PersistenceTypeOK, State
    <3> QED
      BY <1>7, <2>2, <3>1 DEF IdsInv, Pending, Collect, memory, files
  <2>3. CASE done = 2
    <3>1. /\ collected'.records = collected.records
          /\ collected'.position = position
          /\ stage' = "write"
      BY <1>7, <2>3, OrderOfParts DEF Collect, Current, PersistenceTypeOK, State
    <3> QED
      BY <1>7, <2>3, <3>1 DEF IdsInv, Pending, Collect, Behind, memory, files
  <2> QED
    BY <1>7, <2>1, <2>2, <2>3, OrderOfParts DEF Collect, PersistenceTypeOK
<1>8. ASSUME Truncate PROVE IdsInv'
  BY <1>8 DEF IdsInv, Pending, Truncate, memory
<1>9. ASSUME Fill PROVE IdsInv'
  <2>1. archive'.state = archive.state /\ archive \in Archive
    BY <1>9 DEF Fill, PersistenceTypeOK, Archive
  <2> QED
    BY <1>9, <2>1 DEF IdsInv, Pending, Fill, memory
<1>10. ASSUME Interrupt PROVE IdsInv'
  <2>1. archive' = archive \/ (stage = "fill" /\ archive \in Archive /\ archive'.state = archive.state)
    BY <1>10 DEF Interrupt, PersistenceTypeOK, Archive
  <2> QED
    BY <1>10, <2>1 DEF IdsInv, Pending, Interrupt, memory
<1>11. ASSUME SnapshotSave PROVE IdsInv'
  BY <1>11 DEF IdsInv, Pending, SnapshotSave, memory
<1>12. ASSUME SnapshotLoad PROVE IdsInv'
  BY <1>12 DEF IdsInv, Pending, SnapshotLoad, memory
<1>13. ASSUME UNCHANGED persistenceVars PROVE IdsInv'
  BY <1>13 DEF IdsInv, Pending, persistenceVars
<1> QED
  BY <1>1, <1>2, <1>3, <1>4, <1>5, <1>6, <1>7, <1>8, <1>9, <1>10, <1>11, <1>12, <1>13 DEF PersistenceNext

\* No record holds an identifier that is still to be drawn, and no two records
\* hold the same, whatever was saved, interrupted, copied and restored: the
\* position is collected after the records (Snapshot) and resumed with them
\* (Restore).
THEOREM IdsNeverRedrawn == PersistenceSpec => []IdsBehindPosition
<1>1. PersistenceInit => IdsInv
  BY TypeCorrectAtStart DEF PersistenceInit, IdsInv, NoRecords, Below, Distinct, Pending, NoRequest
<1>2. IdsInv => IdsBehindPosition
  BY DEF IdsInv, IdsBehindPosition, Below, Distinct
<1> QED
  BY <1>1, <1>2, IdsStep, PTL DEF PersistenceSpec

-----------------------------------------------------------------------------

\* A running process was started with a lock its archive allows: only Boot
\* changes either, and it compares them.
THEOREM LocksAgree == PersistenceSpec => []LockRespected
<1>1. PersistenceInit => LockRespected
  BY DEF PersistenceInit, LockRespected, Up
<1>2. ASSUME LockRespected, [PersistenceNext]_persistenceVars PROVE LockRespected'
  <2>1. ASSUME NEW l \in Locks, Boot(l) PROVE LockRespected'
    BY <2>1 DEF Boot, LockMatches, LockRespected, Up
  <2>2. ASSUME from' = from, lock' = lock, stage' # "down" => stage # "down" PROVE LockRespected'
    BY <1>2, <2>2 DEF LockRespected, Up
  <2> QED
    BY <1>2, <2>1, <2>2 DEF PersistenceNext, persistenceVars, DrawId, PutBlob, PutRecord,
        DeleteBlob, DeleteRecord, ServeReturns,
       Collect, Truncate, Fill, Interrupt, SnapshotSave, SnapshotLoad, Up
<1> QED
  BY <1>1, <1>2, PTL DEF PersistenceSpec

\* Boot refuses an archive of another lock and Restore resumes the position, so
\* a process never runs with another's records and never redraws their
\* identifiers.
THEOREM RestoresAreSafe == PersistenceSpec => []RestoresAgree
<1>1. IdsBehindPosition /\ LockRespected => RestoresAgree
  BY DEF RestoresAgree
<1> QED
  BY <1>1, IdsNeverRedrawn, LocksAgree, PTL

-----------------------------------------------------------------------------

\* A process may serve a record without its blob only if it was restored so:
\* from an archive that a signal cut short before blobs.json.
RestoredWithout(k) ==
  /\ from # NoArchive
  /\ Restored(from).records[k] # 0 /\ k \notin Restored(from).blobs

\* Of the versions nobody deletes, records r have their blobs in b.
HaveBlobs(r, b) ==
  \A k \in Versions \ Deletable : r[k] # 0 /\ k \notin b => RestoredWithout(k)

\* The order of a write: the blob is stored before the record names it, and
\* only a version that may be deleted loses its blob.
BlobBeforeRecord ==
  /\ request.step = "blob" /\ request.version \notin Deletable => request.version \in blobs
  /\ request.step = "delete" => request.version \in Deletable

\* The inductive invariant.  The records are collected before the blobs, and
\* in between the blobs of the versions nobody deletes only grow.
BlobsInv ==
  /\ PersistenceTypeOK
  /\ HaveBlobs(records, blobs)
  /\ BlobBeforeRecord
  /\ stage = "collect" /\ done >= 1 => HaveBlobs(collected.records, blobs)
  /\ stage = "collect" /\ done >= 2 => HaveBlobs(collected.records, collected.blobs)
  /\ stage = "write" => HaveBlobs(collected.records, collected.blobs)

\* Every action preserves it.
LEMMA BlobsStep == BlobsInv /\ [PersistenceNext]_persistenceVars => BlobsInv'
<1> SUFFICES ASSUME BlobsInv, [PersistenceNext]_persistenceVars PROVE BlobsInv'
    OBVIOUS
<1>0. PersistenceTypeOK /\ PersistenceTypeOK'
  BY PersistenceTypeStep DEF BlobsInv
<1> USE <1>0, BoundsAreNat, DeletableVersions
<1>1. ASSUME NEW l \in Locks, Boot(l) PROVE BlobsInv'
  <2>1. HaveBlobs(records, blobs)'
    <3>1. CASE archive = NoArchive
      BY <1>1, <3>1 DEF Boot, Fresh, NoRecords, HaveBlobs
    <3>2. CASE archive # NoArchive
      BY <1>1, <3>2 DEF Boot, HaveBlobs, RestoredWithout
    <3> QED
      BY <3>1, <3>2
  <2> QED
    BY <1>1, <2>1 DEF BlobsInv, Boot, BlobBeforeRecord, NoRequest
<1>2. ASSUME NEW k \in Versions, DrawId(k) PROVE BlobsInv'
  BY <1>2 DEF BlobsInv, DrawId, HaveBlobs, RestoredWithout, BlobBeforeRecord
<1>3. ASSUME PutBlob PROVE BlobsInv'
  <2>1. /\ request'.step = "blob" /\ request'.version = request.version
        /\ blobs' = blobs \cup {request.version}
    BY <1>3 DEF PutBlob, PersistenceTypeOK, Request, NoRequest
  <2> QED
    BY <1>3, <2>1 DEF BlobsInv, PutBlob, HaveBlobs, RestoredWithout, BlobBeforeRecord
<1>4. ASSUME PutRecord PROVE BlobsInv'
  <2>1. HaveBlobs(records, blobs)'
    BY <1>4 DEF BlobsInv, PutRecord, PersistenceTypeOK, HaveBlobs, RestoredWithout, BlobBeforeRecord
  <2> QED
    BY <1>4, <2>1 DEF BlobsInv, PutRecord, HaveBlobs, RestoredWithout, BlobBeforeRecord, NoRequest
<1>5. ASSUME NEW k \in Deletable, DeleteBlob(k) PROVE BlobsInv'
  BY <1>5 DEF BlobsInv, DeleteBlob, HaveBlobs, RestoredWithout, BlobBeforeRecord
<1>6. ASSUME DeleteRecord PROVE BlobsInv'
  <2>1. HaveBlobs(records, blobs)'
    BY <1>6 DEF BlobsInv, DeleteRecord, PersistenceTypeOK, HaveBlobs, RestoredWithout
  <2> QED
    BY <1>6, <2>1 DEF BlobsInv, DeleteRecord, HaveBlobs, RestoredWithout, BlobBeforeRecord, NoRequest
<1>7. ASSUME ServeReturns PROVE BlobsInv'
  BY <1>7 DEF BlobsInv, ServeReturns, PersistenceTypeOK, HaveBlobs, RestoredWithout,
     BlobBeforeRecord, memory, files
<1>8. ASSUME Collect PROVE BlobsInv'
  <2>1. UNCHANGED <<records, blobs, request, from>> /\ done \in 0 .. 2
    BY <1>8, OrderOfParts DEF Collect, memory, files, PersistenceTypeOK
  <2>2. HaveBlobs(records, blobs)' /\ BlobBeforeRecord'
    BY <2>1 DEF BlobsInv, HaveBlobs, RestoredWithout, BlobBeforeRecord
  <2>3. CASE done = 0
    <3>1. collected'.records = records /\ done' = 1 /\ stage' = "collect"
      BY <1>8, <2>3, OrderOfParts DEF Collect, Current, PersistenceTypeOK, State
    <3> QED
      BY <2>1, <2>2, <3>1 DEF BlobsInv, HaveBlobs, RestoredWithout
  <2>4. CASE done = 1
    <3>1. /\ collected'.records = collected.records /\ collected'.blobs = blobs
          /\ done' = 2 /\ stage' = "collect" /\ stage = "collect"
      BY <1>8, <2>4, OrderOfParts DEF Collect, Current, PersistenceTypeOK, State
    <3> QED
      BY <2>1, <2>2, <2>4, <3>1 DEF BlobsInv, HaveBlobs, RestoredWithout
  <2>5. CASE done = 2
    <3>1. /\ collected'.records = collected.records /\ collected'.blobs = collected.blobs
          /\ stage' = "write" /\ stage = "collect"
      BY <1>8, <2>5, OrderOfParts DEF Collect, Current, PersistenceTypeOK, State
    <3> QED
      BY <2>1, <2>2, <2>5, <3>1 DEF BlobsInv, HaveBlobs, RestoredWithout
  <2> QED
    BY <2>1, <2>3, <2>4, <2>5
<1>9. ASSUME Truncate \/ Fill \/ Interrupt PROVE BlobsInv'
  <2>1. UNCHANGED <<records, blobs, request, from>> /\ stage' \in {"fill", "down"}
    BY <1>9 DEF Truncate, Fill, Interrupt, memory
  <2> QED
    BY <2>1 DEF BlobsInv, HaveBlobs, RestoredWithout, BlobBeforeRecord
<1>10. ASSUME SnapshotSave \/ SnapshotLoad \/ UNCHANGED persistenceVars PROVE BlobsInv'
  <2>1. UNCHANGED <<stage, done, records, blobs, request, collected, from>>
    BY <1>10 DEF SnapshotSave, SnapshotLoad, persistenceVars, memory
  <2> QED
    BY <2>1 DEF BlobsInv, HaveBlobs, RestoredWithout, BlobBeforeRecord
<1> QED
  BY <1>1, <1>2, <1>3, <1>4, <1>5, <1>6, <1>7, <1>8, <1>9, <1>10 DEF PersistenceNext

\* Whatever requests run while Snapshot collects, and wherever earlier
\* processes were interrupted, what SavePersist is about to write has the blob
\* of every record of a version nobody deletes, unless the process was already
\* restored without it.
THEOREM SavesAreWhole == PersistenceSpec => []ArchivesAreWhole
<1>1. PersistenceInit => BlobsInv
  BY TypeCorrectAtStart DEF PersistenceInit, BlobsInv, NoRecords, HaveBlobs, BlobBeforeRecord,
     NoRequest
<1>2. BlobsInv => ArchivesAreWhole
  BY DEF BlobsInv, HaveBlobs, RestoredWithout, ArchivesAreWhole, SavedRecordsHaveBlobs
<1> QED
  BY <1>1, <1>2, BlobsStep, PTL DEF PersistenceSpec

(***************************************************************************)
(* The store and its transactions (module KeyedStore)                      *)
(***************************************************************************)

\* A written or dropped table is a table (Put and Delete of coll and tx).
LEMMA TableOps ==
  ASSUME NEW t \in Table \cup {NoScope}, NEW k \in Keys, NEW v \in Values
  PROVE  Written(t, k, v) \in Table /\ Dropped(t, k) \in Table \cup {NoScope}
BY Distinguished DEF Written, Dropped, Table, BlankTable

\* Dropping from a table that does not exist leaves it so.
LEMMA DropOp ==
  ASSUME NEW t \in Table \cup {NoScope}, NEW k \in Keys
  PROVE  /\ Dropped(t, k) \in Table \cup {NoScope}
         /\ t = NoScope => Dropped(t, k) = NoScope
         /\ t # NoScope => Dropped(t, k) \in Table
BY DEF Dropped, Table

\* The types are invariant.
LEMMA StoreTypeStep == StoreTypeOK /\ [StoreNext]_storeVars => StoreTypeOK'
<1> SUFFICES ASSUME StoreTypeOK, [StoreNext]_storeVars PROVE StoreTypeOK'
    OBVIOUS
<1>1. ASSUME NEW c \in Clients, NEW s \in Scopes, NEW k \in Keys, Get(c, s, k) PROVE StoreTypeOK'
  BY <1>1 DEF StoreTypeOK, Get, Lookup, Contents, Table, txn
<1>2. ASSUME NEW s \in Scopes, NEW k \in Keys, NEW v \in Values, Put(s, k, v) PROVE StoreTypeOK'
  <2>1. Written(data[s], k, v) \in Table
    BY TableOps DEF StoreTypeOK, Contents
  <2> QED
    BY <1>2, <2>1 DEF StoreTypeOK, Put, Contents, txn
<1>3. ASSUME NEW s \in Scopes, NEW k \in Keys, Delete(s, k) PROVE StoreTypeOK'
  <2>1. Dropped(data[s], k) \in Table \cup {NoScope}
    BY DropOp DEF StoreTypeOK, Contents
  <2> QED
    BY <1>3, <2>1 DEF StoreTypeOK, Delete, Contents, txn
<1>4. ASSUME NEW c \in Clients, NEW s \in Scopes, Begin(c, s) PROVE StoreTypeOK'
  BY <1>4 DEF StoreTypeOK, Begin, Contents
<1>5. ASSUME NEW k \in Keys, NEW v \in Values, TxPut(k, v) PROVE StoreTypeOK'
  <2>1. scope \in Scopes /\ Written(data[scope], k, v) \in Table
    BY <1>5, TableOps DEF StoreTypeOK, TxPut, Contents
  <2> QED
    BY <1>5, <2>1 DEF StoreTypeOK, TxPut, Contents, txn
<1>6. ASSUME NEW k \in Keys, TxDelete(k) PROVE StoreTypeOK'
  <2>1. scope \in Scopes /\ Dropped(data[scope], k) \in Table \cup {NoScope}
    BY <1>6, DropOp DEF StoreTypeOK, TxDelete, Contents
  <2> QED
    BY <1>6, <2>1 DEF StoreTypeOK, TxDelete, Contents, txn
<1>7. ASSUME Commit PROVE StoreTypeOK'
  BY <1>7 DEF StoreTypeOK, Commit, Release
<1>8. ASSUME Abort PROVE StoreTypeOK'
  BY <1>8 DEF StoreTypeOK, Abort, Release, RolledBack, Contents
<1>9. ASSUME Snapshot PROVE StoreTypeOK'
  BY <1>9 DEF StoreTypeOK, Snapshot, txn
<1>10. ASSUME Restore PROVE StoreTypeOK'
  BY <1>10 DEF StoreTypeOK, Restore, txn
<1>11. ASSUME UNCHANGED storeVars PROVE StoreTypeOK'
  BY <1>11 DEF StoreTypeOK, storeVars
<1>12. ASSUME NEW k \in Keys, TxGet(k) PROVE StoreTypeOK'
  BY <1>12 DEF StoreTypeOK, TxGet, Lookup, Contents, Table, txn
<1> QED
  BY <1>12, <1>1, <1>2, <1>3, <1>4, <1>5, <1>6, <1>7, <1>8, <1>9, <1>10, <1>11 DEF StoreNext

\* Every step of the store is the step of AtomicStore with the same name, or
\* changes nothing of it (a Delete in a scope nobody wrote to).
LEMMA AtomicStep == StoreTypeOK /\ [StoreNext]_storeVars => [Atomic!Next]_(Atomic!vars)
<1> SUFFICES ASSUME StoreTypeOK, [StoreNext]_storeVars PROVE Atomic!Next \/ UNCHANGED Atomic!vars
    OBVIOUS
<1> USE DEF Atomic!vars, txn
<1>1. ASSUME NEW c \in Clients, NEW s \in Scopes, NEW k \in Keys, Get(c, s, k)
      PROVE  Atomic!Next
  <2>1. Atomic!Read(c, s, k)
    BY <1>1 DEF Get, Free, Lookup, Committed, Draft, Atomic!Read, Atomic!Lookup
  <2> QED
    BY <2>1 DEF Atomic!Next
<1>2. ASSUME NEW s \in Scopes, NEW k \in Keys, NEW v \in Values, Put(s, k, v)
      PROVE  Atomic!Next
  <2>1. Written(data[s], k, v) = Atomic!Assign(data[s], k, v)
    BY DEF Written, BlankTable, Atomic!Assign
  <2>2. Atomic!Mutate(s, k, v)
    BY <1>2, <2>1 DEF Put, Free, Committed, Draft, Atomic!Mutate
  <2> QED
    BY <2>2 DEF Atomic!Next
<1>3. ASSUME NEW s \in Scopes, NEW k \in Keys, Delete(s, k)
      PROVE  Atomic!Next \/ UNCHANGED Atomic!vars
  <2>1. CASE data[s] = NoScope
    <3>1. data' = data
      BY <1>3, <2>1, DropOp DEF Delete, StoreTypeOK, Contents
    <3> QED
      BY <1>3, <3>1 DEF Delete, Committed, Draft
  <2>2. CASE data[s] # NoScope
    <3>1. Dropped(data[s], k) = Atomic!Assign(data[s], k, NoValue)
      BY <2>2 DEF Dropped, Atomic!Assign
    <3>2. Atomic!Mutate(s, k, NoValue)
      BY <1>3, <3>1 DEF Delete, Free, Committed, Draft, Atomic!Mutate
    <3> QED
      BY <3>2 DEF Atomic!Next
  <2> QED
    BY <2>1, <2>2
<1>4. ASSUME NEW c \in Clients, NEW s \in Scopes, Begin(c, s) PROVE Atomic!Next
  <2>1. Committed = data /\ Committed' = data /\ Draft' = data[s]
    BY <1>4, Distinguished DEF Begin, Free, Committed, Draft, StoreTypeOK, Contents
  <2>2. Atomic!Begin(c, s)
    BY <1>4, <2>1 DEF Begin, Free, Atomic!Begin
  <2> QED
    BY <2>2 DEF Atomic!Next
<1>5. ASSUME NEW k \in Keys, TxGet(k) PROVE Atomic!Next
  <2>1. Atomic!ReadDraft(k)
    BY <1>5 DEF TxGet, Lookup, Committed, Draft, Atomic!ReadDraft, Atomic!Lookup
  <2> QED
    BY <2>1 DEF Atomic!Next
<1>6. ASSUME NEW k \in Keys, NEW v \in Values, TxPut(k, v) PROVE Atomic!Next
  <2>1. Written(data[scope], k, v) = Atomic!Assign(data[scope], k, v)
    BY DEF Written, BlankTable, Atomic!Assign
  <2>2. Committed' = Committed /\ Draft = data[scope] /\ Draft' = Written(data[scope], k, v)
    BY <1>6 DEF TxPut, Committed, Draft, StoreTypeOK, Contents
  <2>3. Atomic!MutateDraft(k, v)
    BY <1>6, <2>1, <2>2 DEF TxPut, Atomic!MutateDraft
  <2> QED
    BY <2>3 DEF Atomic!Next
<1>7. ASSUME NEW k \in Keys, TxDelete(k) PROVE Atomic!Next \/ UNCHANGED Atomic!vars
  <2>1. Committed' = Committed /\ Draft = data[scope] /\ Draft' = Dropped(data[scope], k)
    BY <1>7 DEF TxDelete, Committed, Draft, StoreTypeOK, Contents
  <2>2. CASE data[scope] = NoScope
    BY <1>7, <2>1, <2>2 DEF TxDelete, Dropped
  <2>3. CASE data[scope] # NoScope
    <3>1. Dropped(data[scope], k) = Atomic!Assign(data[scope], k, NoValue)
      BY <2>3 DEF Dropped, Atomic!Assign
    <3>2. Atomic!MutateDraft(k, NoValue)
      BY <1>7, <2>1, <3>1 DEF TxDelete, Atomic!MutateDraft
    <3> QED
      BY <3>2 DEF Atomic!Next
  <2> QED
    BY <2>2, <2>3
<1>8. ASSUME Commit PROVE Atomic!Next
  <2>1. Committed' = [Committed EXCEPT ![scope] = Draft]
    BY <1>8 DEF Commit, Release, Committed, Draft, StoreTypeOK, Contents
  <2>2. Atomic!Commit
    BY <1>8, <2>1 DEF Commit, Release, Draft, Atomic!Commit, Atomic!End
  <2> QED
    BY <2>2 DEF Atomic!Next
<1>9. ASSUME Abort PROVE Atomic!Next
  <2>1. Committed' = Committed
    BY <1>9 DEF Abort, Release, RolledBack, Committed, StoreTypeOK, Contents
  <2>2. Atomic!Abort
    BY <1>9, <2>1 DEF Abort, Release, Draft, Atomic!Abort, Atomic!End
  <2> QED
    BY <2>2 DEF Atomic!Next
<1>10. ASSUME Snapshot PROVE Atomic!Next
  BY <1>10 DEF Snapshot, Free, Committed, Draft, Atomic!Snapshot, Atomic!Next
<1>11. ASSUME Restore PROVE Atomic!Next
  BY <1>11 DEF Restore, Free, Committed, Draft, Atomic!Restore, Atomic!Next
<1>12. ASSUME UNCHANGED storeVars PROVE UNCHANGED Atomic!vars
  BY <1>12 DEF storeVars, Committed, Draft
<1> QED
  BY <1>1, <1>2, <1>3, <1>4, <1>5, <1>6, <1>7, <1>8, <1>9, <1>10, <1>11, <1>12 DEF StoreNext

\* For every set of scopes, keys, values and clients, the store with its mutex
\* and its copy of the scope (runTxn) implements AtomicStore.
THEOREM StoreIsAtomic == StoreSpec => ImplementsAtomicStore
<1>1. StoreInit => StoreTypeOK
  BY Distinguished DEF StoreInit, StoreTypeOK, Contents
<1>2. StoreInit => Atomic!Init
  BY DEF StoreInit, Committed, Draft, Atomic!Init
<1> QED
  BY <1>1, <1>2, StoreTypeStep, AtomicStep, PTL DEF StoreSpec, ImplementsAtomicStore, Atomic!Spec

=============================================================================
