----------------------------- MODULE Persistence -----------------------------
(***************************************************************************)
(* mirror up --persist: the state archive (Snapshot, Restore, SavePersist  *)
(* and Boot in internal/runtime, the copies of mirror snapshot save|load). *)
(* The state is the store's records, the blobs and the position of the     *)
(* identifier stream (internal/store, internal/blobs, internal/rand).      *)
(*                                                                         *)
(* Requests are the object writes that touch all three, in a bucket with   *)
(* versioning enabled: PutObject draws the version's identifier, stores    *)
(* its blob, then its record; DeleteObject of a version drops the blob,    *)
(* then the record.  The S3 pack runs them one at a time (versionMu), but  *)
(* nothing stops them while the archive is being collected, and a signal   *)
(* ends the process where it is: nothing handles signals.                  *)
(***************************************************************************)
EXTENDS Integers, Sequences

CONSTANTS
  Versions,   \* room for object versions; a deleted one's place is used again
  Deletable,  \* versions that are also deleted
  Locks,      \* spec-lock hashes of the binaries that are run
  NoLock,     \* an empty hash, which matches every other
  NoArchive,  \* no state.tar, no named snapshot
  TornWrites, \* may a signal come in the middle of the write of state.tar?
  MaxDraws,   \* bound: position of the identifier stream
  MaxBoots    \* bound: process starts

ASSUME DeletableVersions == Deletable \subseteq Versions
ASSUME BoundsAreNat == TornWrites \in BOOLEAN /\ MaxDraws \in Nat /\ MaxBoots \in Nat

VARIABLES
  stage,      \* where the process is
  done,       \* how many parts Snapshot has collected
  lock,       \* spec-lock hash of the process
  records,    \* version -> identifier in its record, 0 without a record
  blobs,      \* versions with a blob
  position,   \* blocks drawn from the identifier stream
  request,    \* the object write in progress: [step, version, id]
  collected,  \* the parts Snapshot has collected
  archive,    \* state.tar: [lock, parts, cut, state], parts being complete entries
  named,      \* the copy of mirror snapshot save
  from,       \* the archive the process was restored from
  boots       \* processes started

memory == <<records, blobs, position>>
files == <<archive, named>>
persistenceVars == <<stage, done, lock, records, blobs, position, request, collected, archive,
    named, from, boots>>

Entries == 3  \* manifest.json, store.tar, blobs.json

NoRecords == [k \in Versions |-> 0]
NoRequest == [step |-> "none", version |-> 0, id |-> 0]
Current == [records |-> records, blobs |-> blobs, position |-> position]
Fresh == [records |-> NoRecords, blobs |-> {}, position |-> 0]

\* The order in which Snapshot collects.
\* Mistakes: the blobs, or the position, before the records.
BlobsFirst == <<"blobs", "records", "position">>
PositionFirst == <<"position", "records", "blobs">>
Order == <<"records", "blobs", "position">>

PersistenceInit ==
  /\ stage = "down" /\ done = 0 /\ lock = NoLock
  /\ records = NoRecords /\ blobs = {} /\ position = 0
  /\ request = NoRequest
  /\ collected = Fresh
  /\ archive = NoArchive /\ named = NoArchive /\ from = NoArchive
  /\ boots = 0

-----------------------------------------------------------------------------
(* Start and restore. *)

\* Both Restores compare the hashes.  Mistake: they do not.
AnyLock(l, a) == TRUE
LockMatches(l, a) == l = NoLock \/ a.lock = NoLock \/ a.lock = l

\* What the entries that were found in the archive restore: without a
\* manifest there is no hash to compare and no position to resume, and an
\* entry that is missing is skipped.
Restored(a) ==
  [records |-> IF a.parts >= 2 THEN a.state.records ELSE NoRecords,
   position |-> IF a.parts >= 1 THEN a.state.position ELSE 0,
   blobs |-> IF a.parts >= 3 THEN a.state.blobs ELSE {}]

Boot(l) ==
  /\ stage = "down" /\ boots < MaxBoots
  /\ archive # NoArchive /\ archive.parts >= 1 => LockMatches(l, archive)
  /\ archive # NoArchive => ~archive.cut
  /\ LET state == IF archive = NoArchive THEN Fresh ELSE Restored(archive)
     IN /\ records' = state.records
        /\ blobs' = state.blobs
        /\ position' = state.position
  /\ stage' = "serving"
  /\ lock' = l
  /\ from' = archive
  /\ boots' = boots + 1
  /\ request' = NoRequest
  /\ collected' = Fresh /\ done' = 0
  /\ UNCHANGED files

-----------------------------------------------------------------------------
(* Requests. *)

Up == stage # "down"

DrawId(k) ==
  /\ Up /\ request.step = "none" /\ records[k] = 0 /\ position < MaxDraws
  /\ position' = position + 1
  /\ request' = [step |-> "drawn", version |-> k, id |-> position + 1]
  /\ UNCHANGED <<stage, done, lock, records, blobs, collected, files, from, boots>>

PutBlob ==
  /\ Up /\ request.step = "drawn"
  /\ blobs' = blobs \cup {request.version}
  /\ request' = [request EXCEPT !.step = "blob"]
  /\ UNCHANGED <<stage, done, lock, records, position, collected, files, from, boots>>

PutRecord ==
  /\ Up /\ request.step = "blob"
  /\ records' = [records EXCEPT ![request.version] = request.id]
  /\ request' = NoRequest
  /\ UNCHANGED <<stage, done, lock, blobs, position, collected, files, from, boots>>

DeleteBlob(k) ==
  /\ Up /\ request.step = "none" /\ records[k] # 0
  /\ blobs' = blobs \ {k}
  /\ request' = [step |-> "delete", version |-> k, id |-> 0]
  /\ UNCHANGED <<stage, done, lock, records, position, collected, files, from, boots>>

DeleteRecord ==
  /\ Up /\ request.step = "delete"
  /\ records' = [records EXCEPT ![request.version] = 0]
  /\ request' = NoRequest
  /\ UNCHANGED <<stage, done, lock, blobs, position, collected, files, from, boots>>

-----------------------------------------------------------------------------
(* The end of a process. *)

\* serve returns: the listener failed.  SavePersist runs, handlers go on.
ServeReturns ==
  /\ stage = "serving"
  /\ stage' = "collect"
  /\ UNCHANGED <<done, lock, memory, request, collected, files, from, boots>>

Collect ==
  /\ stage = "collect"
  /\ LET part == Order[done + 1]
     IN collected' = [collected EXCEPT ![part] = Current[part]]
  /\ done' = done + 1
  /\ stage' = IF done + 1 = Len(Order) THEN "write" ELSE "collect"
  /\ UNCHANGED <<lock, memory, request, files, from, boots>>

\* os.WriteFile empties the file, then writes it.
Truncate ==
  /\ stage = "write"
  /\ archive' = [lock |-> lock, parts |-> 0, cut |-> FALSE, state |-> collected]
  /\ stage' = "fill"
  /\ UNCHANGED <<done, lock, memory, request, collected, named, from, boots>>

Fill ==
  /\ stage = "fill"
  /\ archive' = [archive EXCEPT !.parts = Entries]
  /\ stage' = "down"
  /\ UNCHANGED <<done, lock, memory, request, collected, named, from, boots>>

\* A signal; in the middle of the write some of the entries are in the file,
\* and the next one may be cut, which Restore refuses.
Interrupt ==
  /\ Up /\ (stage = "fill" => TornWrites)
  /\ stage' = "down"
  /\ IF stage = "fill"
     THEN \E n \in 0 .. Entries, c \in BOOLEAN :
            archive' = [archive EXCEPT !.parts = n, !.cut = c /\ n < Entries]
     ELSE UNCHANGED archive
  /\ UNCHANGED <<done, lock, memory, request, collected, named, from, boots>>

\* mirror snapshot save and load copy the file, as it is.
SnapshotSave ==
  /\ archive # NoArchive
  /\ named' = archive
  /\ UNCHANGED <<stage, done, lock, memory, request, collected, archive, from, boots>>

SnapshotLoad ==
  /\ named # NoArchive /\ stage # "fill"
  /\ archive' = named
  /\ UNCHANGED <<stage, done, lock, memory, request, collected, named, from, boots>>

PersistenceNext ==
  \/ \E l \in Locks : Boot(l)
  \/ \E k \in Versions : DrawId(k)
  \/ PutBlob
  \/ PutRecord
  \/ \E k \in Deletable : DeleteBlob(k)
  \/ DeleteRecord
  \/ ServeReturns
  \/ Collect
  \/ Truncate
  \/ Fill
  \/ Interrupt
  \/ SnapshotSave
  \/ SnapshotLoad

PersistenceSpec == PersistenceInit /\ [][PersistenceNext]_persistenceVars

-----------------------------------------------------------------------------
(* Properties. *)

State == [records : [Versions -> Nat], blobs : SUBSET Versions, position : Nat]
Request ==
  [step : {"drawn", "blob", "delete"}, version : Versions, id : Nat] \cup {NoRequest}
Archive == [lock : Locks \cup {NoLock}, parts : 0 .. Entries, cut : BOOLEAN, state : State]

PersistenceTypeOK ==
  /\ stage \in {"down", "serving", "collect", "write", "fill"}
  /\ done \in 0 .. Len(Order)
  /\ stage = "serving" => done = 0
  /\ stage = "collect" => done < Len(Order)
  /\ stage = "fill" => archive \in Archive
  /\ lock \in Locks \cup {NoLock}
  /\ records \in [Versions -> Nat] /\ blobs \subseteq Versions /\ position \in Nat
  /\ request \in Request
  /\ collected \in State
  /\ archive \in Archive \cup {NoArchive}
  /\ named \in Archive \cup {NoArchive}
  /\ from \in Archive \cup {NoArchive}
  /\ boots \in Nat

\* rand.go on Position: a process that restarts "resumes here, because starting
\* over would draw the identifiers it already handed out".  Whatever was saved,
\* interrupted or copied, no identifier in a record is still to be drawn.
IdsBehindPosition ==
  /\ \A k \in Versions : records[k] <= position
  /\ \A j, k \in Versions : records[j] # 0 /\ j # k => records[j] # records[k]

\* docs/DAY2.md: "A snapshot taken under one spec-lock hash refuses to restore
\* under a different one."
LockRespected ==
  Up /\ from # NoArchive /\ from.parts >= 1 =>
    lock = NoLock \/ from.lock = NoLock \/ from.lock = lock

\* Restore and Boot: what a process starts with was written under its own lock,
\* and holds no identifier that is still to be drawn.
RestoresAgree == IdsBehindPosition /\ LockRespected

\* docs/MASTER_PROMPT.md: "Snapshot -> restart -> restore preserves and
\* re-serves all state".  Requests go on while Snapshot collects the records
\* and then the blobs, yet a version that nobody deletes is saved with its
\* blob, unless the process was started without it.
SavedRecordsHaveBlobs ==
  stage = "write" =>
    \A k \in Versions \ Deletable :
      collected.records[k] # 0 /\ k \notin collected.blobs =>
        /\ from # NoArchive
        /\ Restored(from).records[k] # 0 /\ k \notin Restored(from).blobs

\* Snapshot and SavePersist: what a save has collected, at any instant of it,
\* holds the blobs of the versions whose records it holds.
ArchivesAreWhole == PersistenceTypeOK /\ SavedRecordsHaveBlobs
=============================================================================
