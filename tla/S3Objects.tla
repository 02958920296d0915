----------------------------- MODULE S3Objects -----------------------------
(***************************************************************************)
(* One key of an S3 bucket: the current record, the versions, their blobs, *)
(* tags and locks, under requests that run concurrently.  Writes of a      *)
(* versioned key hold versionMu from reading the current record to the     *)
(* last write, so each is one step; the versioning status is read before   *)
(* the lock is taken.  Writes of an unversioned key take no lock: the blob *)
(* and the record are two steps.                                           *)
(***************************************************************************)
EXTENDS Integers, Sequences, SequencesExt, Tables

CONSTANTS S3Reqs,     \* requests that can run at the same time
          S3Ops,      \* bound: requests begun
          S3MaxTime   \* bound of the clock

ASSUME S3Bounds == {S3Ops, S3MaxTime} \subseteq Nat

NoVer   == 0   \* no version id: "" in records and keys
NullVer == 1   \* the version id "null"

VARIABLES bucket,   \* the bucket's record exists
          vstatus,  \* "versioning": "" (never configured), "Enabled", "Suspended"
          lockOn,   \* objectLockEnabled of the bucket's record
          lockDays, \* default retention of the object-lock configuration, 0: none
          obj,      \* "objects": the current record
          vers,     \* "versions": version id -> [body, marker]
          blob,     \* the current blob, 0: none
          vblob,    \* blobs by version id
          s3tags,   \* "tags": NoVer (the current key) or version id -> tag set
          holds,    \* "objlock" legalhold documents: version id -> Status is ON
          rets,     \* "objlock" retention documents: version id -> [mode, until]
          s3now,
          ops,      \* requests begun; also numbers bodies, markers and fresh version ids
          req,      \* per request: what it runs and what it read
          lister,   \* a client paging through the versions
          raced     \* history: a step ran on a status that had changed, or an unversioned
                    \* write overlapped another request

s3vars == <<bucket, vstatus, lockOn, lockDays, obj, vers, blob, vblob, s3tags, holds, rets,
            s3now, ops, req, lister, raced>>
config  == <<bucket, vstatus, lockOn, lockDays>>
content == <<obj, vers, blob, vblob, s3tags, holds, rets>>

NoObj == [is |-> FALSE, vid |-> NoVer, body |-> 0, marker |-> FALSE, has |-> FALSE,
          order |-> << >>, next |-> NoRows]
IdleReq == [pc |-> "idle", status |-> "", body |-> 0, tagged |-> FALSE, lock |-> "none",
            wants |-> << >>, bypass |-> FALSE, fresh |-> FALSE]
NoLister == [on |-> FALSE, at |-> NoVer, base |-> {}, seen |-> {}, cut |-> FALSE, missed |-> FALSE]

S3Init ==
  /\ bucket = TRUE /\ vstatus \in {"", "Enabled"} /\ lockOn = FALSE /\ lockDays = 0
  /\ obj = NoObj /\ vers = NoRows /\ blob = 0 /\ vblob = NoRows /\ s3tags = NoRows
  /\ holds = NoRows /\ rets = NoRows /\ s3now = 0 /\ ops = 0
  /\ req = [r \in S3Reqs |-> IdleReq] /\ lister = NoLister /\ raced = FALSE

IdleR(r) == req[r].pc = "idle"
Alone(r) == \A q \in S3Reqs \ {r} : IdleR(q)
Finish(r) == req' = [req EXCEPT ![r] = IdleReq]
\* A request begins: it is numbered, and runs from pc with what it read.
Begins(r, rec) == /\ IdleR(r) /\ ops < S3Ops /\ ops' = ops + 1
                  /\ req' = [req EXCEPT ![r] = rec]
Live == obj.is /\ ~obj.marker

----------------------------------------------------------------------------
(* Versions of the key.                                                    *)

\* objectVersionOrder: the recorded order, oldest first, or the listing of
\* "versions" with the current version last.
Ascending(S) == CHOOSE s \in [1 .. Cardinality(S) -> S] : \A i, j \in DOMAIN s : i < j => s[i] < s[j]
ListedOrder == Ascending(DOMAIN vers \ {obj.vid})
                 \o (IF obj.vid = NoVer THEN << >> ELSE <<obj.vid>>)
ObjectVersionOrder == IF obj.has THEN obj.order ELSE ListedOrder
\* An order names a version once.
Without(s, v) == IF v \in ToSet(s) THEN RemoveAt(s, CHOOSE i \in DOMAIN s : s[i] = v) ELSE s
\* The version id a write gets: "null" unless versioning is Enabled.
WriteVid(status, n) == IF status = "Enabled" THEN n + NullVer ELSE NullVer

\* The record of a new current version.
NewCurrent(v, body, marker, next) ==
  [is |-> TRUE, vid |-> v, body |-> body, marker |-> marker, has |-> TRUE,
   order |-> Append(Without(ObjectVersionOrder, v), v), next |-> next]

\* objectVersionLocked: a legal hold, or a retention that has not passed and is
\* not one of GOVERNANCE the request may bypass.
ObjectVersionLocked(v, bypass) ==
  \/ v \in DOMAIN holds /\ holds[v]
  \/ /\ v \in DOMAIN rets /\ s3now < rets[v].until
     /\ ~(bypass /\ rets[v].mode = "GOVERNANCE")

\* objectLockForWrite: lock headers need Object Lock on the bucket; without a
\* mode the default retention of the bucket applies.
LockAllowed(lock) == lock # "none" => lockOn
LockRetention(lock) == IF lock \in {"GOVERNANCE", "COMPLIANCE"}
                         THEN [mode |-> lock, until |-> s3now + 1]
                         ELSE [mode |-> "GOVERNANCE", until |-> s3now + lockDays]
HasRetention(lock) == lock \in {"GOVERNANCE", "COMPLIANCE"} \/ lockDays > 0

----------------------------------------------------------------------------
(* PutObject.                                                              *)

\* putObject up to reading the versioning status: the bucket exists, the lock
\* documents may be written.
PutBegins(r, lock, tagged) ==
  /\ bucket /\ LockAllowed(lock)
  /\ Begins(r, [IdleReq EXCEPT !.pc = "put", !.status = vstatus, !.body = ops + 1,
                               !.lock = lock, !.tagged = tagged])
  /\ UNCHANGED <<config, content, s3now, lister, raced>>

TagsWritten(keys, tagged, body) ==
  s3tags' = IF tagged THEN [k \in DOMAIN s3tags \union keys |-> IF k \in keys THEN body ELSE s3tags[k]]
                      ELSE DelAll(s3tags, keys)
LocksWritten(v, lock) ==
  /\ holds' = IF lock = "hold" THEN Put(holds, v, TRUE) ELSE holds
  /\ rets' = IF HasRetention(lock) THEN Put(rets, v, LockRetention(lock)) ELSE rets

\* putObject of a versioned key, under versionMu.
PutVersioned(r) ==
  LET q == req[r]
      v == WriteVid(q.status, q.body)
  IN /\ q.pc = "put" /\ q.status # "" /\ Finish(r)
     /\ blob' = q.body /\ vblob' = Put(vblob, v, q.body)
     /\ vers' = Put(vers, v, [body |-> q.body, marker |-> FALSE])
     /\ obj' = NewCurrent(v, q.body, FALSE, obj.next)
     /\ TagsWritten({NoVer, v}, q.tagged, q.body) /\ LocksWritten(v, q.lock)
     /\ raced' = (raced \/ q.status # vstatus \/ ~bucket)
     /\ UNCHANGED <<config, s3now, ops, lister>>

\* putObject of an unversioned key: the blob, then the record and its tags.
PutBlob(r) ==
  /\ req[r].pc = "put" /\ req[r].status = "" /\ blob' = req[r].body
  /\ req' = [req EXCEPT ![r].pc = "record"]
  /\ raced' = (raced \/ ~Alone(r) \/ vstatus # "" \/ ~bucket)
  /\ UNCHANGED <<config, obj, vers, vblob, s3tags, holds, rets, s3now, ops, lister>>

PutRecord(r) ==
  /\ req[r].pc = "record" /\ Finish(r)
  /\ obj' = [NoObj EXCEPT !.is = TRUE, !.body = req[r].body]
  /\ TagsWritten({NoVer}, req[r].tagged, req[r].body) /\ LocksWritten(NoVer, req[r].lock)
  /\ raced' = (raced \/ ~Alone(r) \/ vstatus # "" \/ ~bucket)
  /\ UNCHANGED <<config, vers, blob, vblob, s3now, ops, lister>>

----------------------------------------------------------------------------
(* DeleteObject and DeleteObjects.                                         *)

\* deleteObject, or deleteObjects with one child request per entry; bypass only
\* on a bucket with Object Lock.  Each child reads the status; "null" names the
\* object of an unversioned bucket.
Child(q, wants) ==
  [q EXCEPT !.pc = "delete", !.status = vstatus,
            !.wants = IF vstatus = "" /\ wants[1] = NullVer THEN <<NoVer>> \o Tail(wants) ELSE wants]
DeleteBegins(r, wants, bypass) ==
  /\ bucket /\ (bypass => lockOn)
  /\ Begins(r, Child([IdleReq EXCEPT !.bypass = bypass, !.body = ops + 1], wants))
  /\ UNCHANGED <<config, content, s3now, lister, raced>>

\* The entry is done, also when it failed: the next one, or the end.
ChildEnds(r) ==
  req' = [req EXCEPT ![r] = IF Len(@.wants) = 1 \/ ~bucket THEN IdleReq ELSE Child(@, Tail(@.wants))]
DeleteAt(r, pc) == req[r].pc = pc
Want(r) == req[r].wants[1]

\* A delete without a version id on a versioned bucket writes a delete marker.
DeleteMarker(r) ==
  LET v == WriteVid(req[r].status, req[r].body)
  IN /\ DeleteAt(r, "delete") /\ req[r].status # "" /\ Want(r) = NoVer /\ ChildEnds(r)
     /\ obj' = NewCurrent(v, req[r].body, TRUE, NoRows)
     /\ vers' = Put(vers, v, [body |-> req[r].body, marker |-> TRUE])
     /\ vblob' = Del(vblob, v) /\ s3tags' = DelAll(s3tags, {NoVer, v})
     /\ lister' = [lister EXCEPT !.cut = lister.on]
     /\ raced' = (raced \/ req[r].status # vstatus \/ ~bucket)
     /\ UNCHANGED <<config, blob, holds, rets, s3now, ops>>

\* The resume point of a lister whose marker was the deleted version: the next
\* older version, also for the markers that pointed at the deleted one.
NextOlder(order, v) ==
  IF \E i \in 2..Len(order) : order[i] = v
    THEN order[(CHOOSE i \in 2..Len(order) : order[i] = v) - 1] ELSE NoVer
ResumePoints(v) ==
  LET older == NextOlder(ObjectVersionOrder, v)
  IN Put([m \in DOMAIN obj.next |-> IF obj.next[m] = v THEN older ELSE obj.next[m]], v, older)

\* restoreCurrentVersion: the newest version kept becomes the current one.
RestoreRecordOnly(version, kept, next) ==   \* mistake: the tags of the version are not restored
  IF version = NoVer
    THEN obj' = NoObj /\ blob' = 0 /\ s3tags' = DelAll(s3tags, {NoVer, obj.vid})
    ELSE /\ obj' = [is |-> TRUE, vid |-> version, body |-> vers[version].body,
                    marker |-> vers[version].marker, has |-> TRUE, order |-> kept, next |-> next]
         /\ blob' = IF vers[version].marker THEN 0 ELSE vblob[version]
         /\ s3tags' = Del(s3tags, obj.vid)
RestoreCurrentVersion(version, kept, next) ==
  IF version = NoVer
    THEN obj' = NoObj /\ blob' = 0 /\ s3tags' = DelAll(s3tags, {NoVer, obj.vid})
    ELSE LET row == vers[version]
             others == Del(s3tags, obj.vid)
         IN /\ obj' = [is |-> TRUE, vid |-> version, body |-> row.body, marker |-> row.marker,
                       has |-> TRUE, order |-> kept, next |-> next]
            /\ blob' = IF row.marker THEN 0 ELSE vblob[version]
            /\ s3tags' = IF version \in DOMAIN s3tags THEN Put(others, NoVer, s3tags[version])
                         ELSE Del(others, NoVer)

\* A delete with a version id, under versionMu.  A key without a record, a
\* version that is not there and a locked version end the entry.
Deletable(r) == obj.is /\ Want(r) \in DOMAIN vers /\ ~ObjectVersionLocked(Want(r), req[r].bypass)
DeleteVersion(r) ==
  LET v == Want(r)
      kept == Without(ObjectVersionOrder, v)
  IN /\ DeleteAt(r, "delete") /\ v # NoVer /\ Deletable(r) /\ ChildEnds(r)
     /\ vers' = Del(vers, v) /\ vblob' = Del(vblob, v)
     /\ holds' = Del(holds, v) /\ rets' = Del(rets, v)
     /\ IF obj.vid = v
          THEN RestoreCurrentVersion(IF Len(kept) = 0 THEN NoVer ELSE Last(kept), kept, ResumePoints(v))
          ELSE /\ obj' = [obj EXCEPT !.has = TRUE, !.order = kept, !.next = ResumePoints(v)]
               /\ s3tags' = Del(s3tags, v) /\ UNCHANGED blob
     /\ raced' = (raced \/ req[r].status # vstatus \/ ~bucket)
     /\ UNCHANGED <<config, s3now, ops, lister>>

DeleteRefused(r) ==
  /\ DeleteAt(r, "delete") /\ Want(r) # NoVer /\ ~Deletable(r) /\ ChildEnds(r)
  /\ UNCHANGED <<config, content, s3now, ops, lister, raced>>

\* A delete on an unversioned bucket: the blob, then the record and its tags.
DeleteBlob(r) ==
  /\ DeleteAt(r, "delete") /\ req[r].status = "" /\ Want(r) = NoVer /\ blob' = 0
  /\ req' = [req EXCEPT ![r].pc = "unrecord"]
  /\ raced' = (raced \/ ~Alone(r) \/ vstatus # "")
  /\ UNCHANGED <<config, obj, vers, vblob, s3tags, holds, rets, s3now, ops, lister>>

DeleteRecord(r) ==
  /\ DeleteAt(r, "unrecord") /\ ChildEnds(r) /\ obj' = NoObj /\ s3tags' = Del(s3tags, NoVer)
  /\ raced' = (raced \/ ~Alone(r) \/ vstatus # "")
  /\ UNCHANGED <<config, vers, blob, vblob, holds, rets, s3now, ops, lister>>

----------------------------------------------------------------------------
(* Configuration of the bucket, tags and locks.                            *)

\* PutBucketVersioning reads whether versioning was ever configured before it
\* takes versionMu; the first time it gives the unversioned object the id "null".
MaySuspendAlways == TRUE   \* mistake: Object Lock does not keep versioning on
MaySuspend == ~lockOn
VersioningBegins(r, st) ==
  /\ bucket /\ (st = "Suspended" => MaySuspend)
  /\ Begins(r, [IdleReq EXCEPT !.pc = "versioning", !.status = st, !.fresh = (vstatus = "")])
  /\ UNCHANGED <<config, content, s3now, lister, raced>>

Migrates(r) == req[r].fresh /\ obj.is /\ obj.vid = NoVer /\ ~obj.marker
VersioningApply(r) ==
  /\ req[r].pc = "versioning" /\ Finish(r)
  /\ IF Migrates(r) /\ blob # 0
       THEN /\ vblob' = Put(vblob, NullVer, blob)
            /\ obj' = [obj EXCEPT !.vid = NullVer, !.has = TRUE, !.order = <<NullVer>>]
            /\ vers' = Put(vers, NullVer, [body |-> obj.body, marker |-> FALSE])
            /\ s3tags' = IF NoVer \in DOMAIN s3tags THEN Put(s3tags, NullVer, s3tags[NoVer]) ELSE s3tags
       ELSE UNCHANGED <<obj, vers, vblob, s3tags>>
  /\ vstatus' = IF Migrates(r) /\ blob = 0 THEN vstatus ELSE req[r].status
  /\ raced' = (raced \/ ~Alone(r) \/ ~bucket)
  /\ UNCHANGED <<bucket, lockOn, lockDays, blob, holds, rets, s3now, ops, lister>>

\* PutObjectLockConfiguration.
PutObjectLockConfiguration(days) ==
  /\ bucket /\ vstatus = "Enabled" /\ (~lockOn \/ lockDays # days)
  /\ lockOn' = TRUE /\ lockDays' = days
  /\ raced' = (raced \/ \E r \in S3Reqs : ~IdleR(r))
  /\ UNCHANGED <<bucket, vstatus, content, s3now, ops, req, lister>>

\* PutObjectLegalHold: the document of the version, under "" for "null".
PutObjectLegalHold(v, on) ==
  LET vid == IF v = NoVer THEN obj.vid ELSE v
      key == IF vid = NullVer THEN NoVer ELSE vid
  IN /\ bucket /\ lockOn
     /\ IF v = NoVer THEN Live ELSE v \in DOMAIN vers /\ ~vers[v].marker
     /\ holds' = Put(holds, key, on) /\ holds' # holds
     /\ UNCHANGED <<config, obj, vers, blob, vblob, s3tags, rets, s3now, ops, req, lister, raced>>

\* PutObjectTagging, DeleteObjectTagging without a version id: the current key
\* and the key of the current version.
PutTagging(tagged) ==
  LET keys == {NoVer} \union (IF obj.vid = NoVer THEN {} ELSE {obj.vid})
  IN /\ bucket /\ Live /\ ops < S3Ops /\ ops' = ops + 1 /\ TagsWritten(keys, tagged, ops')
     /\ raced' = (raced \/ \E r \in S3Reqs : ~IdleR(r) /\ req[r].status = "")
     /\ UNCHANGED <<config, obj, vers, blob, vblob, holds, rets, s3now, req, lister>>

\* deleteBucket: the bucket must be empty when it is listed; the records go later.
DeleteBucketBegins(r) ==
  /\ bucket /\ ~obj.is /\ DOMAIN vers = {}
  /\ Begins(r, [IdleReq EXCEPT !.pc = "unbucket"])
  /\ UNCHANGED <<config, content, s3now, lister, raced>>

DeleteBucketApply(r) ==
  /\ req[r].pc = "unbucket" /\ Finish(r)
  /\ bucket' = FALSE /\ vstatus' = "" /\ lockOn' = FALSE /\ lockDays' = 0
  /\ s3tags' = NoRows /\ holds' = NoRows /\ rets' = NoRows
  /\ raced' = (raced \/ ~Alone(r) \/ obj.is \/ vers # NoRows)
  /\ UNCHANGED <<obj, vers, blob, vblob, s3now, ops, lister>>

\* createBucket, with Object Lock or without.
CreateBucket(lock) ==
  /\ ~bucket /\ ops < S3Ops /\ ops' = ops + 1 /\ bucket' = TRUE
  /\ lockOn' = lock /\ vstatus' = (IF lock THEN "Enabled" ELSE vstatus)
  /\ UNCHANGED <<lockDays, content, s3now, req, lister, raced>>

S3Tick ==
  /\ s3now < S3MaxTime /\ s3now' = s3now + 1
  /\ UNCHANGED <<config, content, ops, req, lister, raced>>

----------------------------------------------------------------------------
(* ListObjectVersions, a page of one entry at a time.                      *)

ListBegins ==
  /\ ~lister.on /\ lister.seen = {} /\ DOMAIN vers # {}
  /\ lister' = [NoLister EXCEPT !.on = TRUE, !.base = {<<v, vers[v].body>> : v \in DOMAIN vers}]
  /\ UNCHANGED <<config, content, s3now, ops, req, raced>>

\* The entries of the key, newest first, after the marker: the marker's own
\* place, or the resume point kept for a marker that was deleted.
Entries == SelectSeq(Reverse(ObjectVersionOrder), LAMBDA v : v \in DOMAIN vers)
AfterMarker(m) ==
  LET resume == IF m \in DOMAIN obj.next THEN obj.next[m] ELSE NoVer
      met == {i \in 1..Len(Entries) : Entries[i] = m \/ (resume # NoVer /\ Entries[i] = resume)}
      first == MinOf(met)
  IN IF m = NoVer THEN Entries
     ELSE IF met = {} THEN << >>
     ELSE SubSeq(Entries, IF Entries[first] = m THEN first + 1 ELSE first, Len(Entries))

\* The versions of the first page's time that are still there.
Remaining == {p \in lister.base : p[1] \in DOMAIN vers /\ vers[p[1]].body = p[2]}

\* A page; the listing ends when it is not truncated.
ListPage ==
  LET rest == AfterMarker(lister.at)
      row == <<rest[1], vers[rest[1]].body>>
      seen == IF rest = << >> THEN lister.seen ELSE lister.seen \union {row}
  IN /\ lister.on
     /\ lister' = [lister EXCEPT !.at = IF rest = << >> THEN @ ELSE rest[1], !.seen = seen,
                                 !.on = Len(rest) > 1,
                                 !.missed = Len(rest) <= 1 /\ ~(Remaining \subseteq seen)]
     /\ UNCHANGED <<config, content, s3now, ops, req, raced>>

----------------------------------------------------------------------------
Targets == {NoVer, NullVer} \union DOMAIN vers

\* Requests on the key; tagsets: whether puts carry tags.
S3Requests(reqs, tagsets) ==
  \E r \in reqs :
    \/ \E l \in {"none", "hold", "GOVERNANCE"}, t \in tagsets : PutBegins(r, l, t)
    \/ PutVersioned(r) \/ PutBlob(r) \/ PutRecord(r)
    \/ \E v \in Targets, b \in BOOLEAN : DeleteBegins(r, <<v>>, b)
    \/ \E v \in Targets, w \in Targets \ {NoVer}, b \in BOOLEAN : v # w /\ DeleteBegins(r, <<v, w>>, b)
    \/ DeleteMarker(r) \/ DeleteVersion(r) \/ DeleteRefused(r) \/ DeleteBlob(r) \/ DeleteRecord(r)
    \/ \E st \in {"Enabled", "Suspended"} : VersioningBegins(r, st)
    \/ VersioningApply(r)
S3Buckets ==
  \/ \E r \in S3Reqs : DeleteBucketBegins(r) \/ DeleteBucketApply(r)
  \/ \E l \in BOOLEAN : CreateBucket(l)
S3Locks ==
  \/ \E d \in {0, 1} : PutObjectLockConfiguration(d)
  \/ \E v \in Targets, on \in BOOLEAN : PutObjectLegalHold(v, on)
  \/ S3Tick
S3Tagging == \E t \in BOOLEAN : PutTagging(t)
S3Listing == ListBegins \/ ListPage

S3Next == S3Requests(S3Reqs, BOOLEAN) \/ S3Buckets \/ S3Locks \/ S3Tagging \/ S3Listing
S3Spec == S3Init /\ [][S3Next]_s3vars

----------------------------------------------------------------------------
(* Properties.                                                             *)

Settled == \A r \in S3Reqs : req[r].pc \notin {"record", "unrecord"}
VersionedObject ==
  /\ obj.is /\ obj.has /\ ToSet(obj.order) = DOMAIN vers /\ IsInjective(obj.order)
  /\ obj.vid = Last(obj.order)
  /\ obj.body = vers[obj.vid].body /\ obj.marker = vers[obj.vid].marker
BlobsAgree ==
  /\ DOMAIN vblob = {v \in DOMAIN vers : ~vers[v].marker}
  /\ \A v \in DOMAIN vblob : vblob[v] = vers[v].body
  /\ Live => blob = obj.body
TagsAgree ==
  Live /\ obj.vid # NoVer =>
    /\ NoVer \in DOMAIN s3tags <=> obj.vid \in DOMAIN s3tags
    /\ NoVer \in DOMAIN s3tags => s3tags[NoVer] = s3tags[obj.vid]

\* What a key keeps in four places agrees, whatever the order of puts, markers,
\* version deletions, tagging and versioning changes (putObject, deleteObject,
\* restoreCurrentVersion, versioning): the recorded order names exactly the
\* stored versions, the current record is its last, and the current blob and
\* tags are those of that version.  Concurrent writes of a versioned key keep it.
KeyAgrees ==
  ~raced /\ Settled =>
    /\ IF vers = NoRows THEN obj.is => obj.vid = NoVer ELSE VersionedObject
    /\ BlobsAgree /\ TagsAgree

\* A version under a legal hold or a retention keeps its record and its blob
\* through every operation (objectVersionLocked, versioning, putObject) but a
\* deletion that bypasses a GOVERNANCE retention.
BypassedBy(r, v) == req[r].pc = "delete" /\ req[r].bypass /\ Want(r) = v /\ ~ObjectVersionLocked(v, TRUE)
LockedVersionsStay ==
  [][\A v \in DOMAIN vers : ObjectVersionLocked(v, FALSE) /\ ~raced' =>
       \/ v \in DOMAIN vers' /\ vers'[v] = vers[v] /\ (v \in DOMAIN vblob => vblob'[v] = vblob[v])
       \/ \E r \in S3Reqs : BypassedBy(r, v)]_s3vars

\* A deleted bucket leaves nothing that a bucket created later under the name
\* would inherit (deleteBucket).
DeletedBucketIsEmpty ==
  ~bucket /\ ~raced => ~obj.is /\ vers = NoRows /\ vblob = NoRows /\ s3tags = NoRows
                        /\ holds = NoRows /\ rets = NoRows /\ vstatus = ""

\* Paging through the versions lists every version that is there from the first
\* page to the last, although versions, the markers' own among them, are deleted
\* between pages (listObjectVersions, deletedVersionNext), as long as no delete
\* marker is written meanwhile.
PagingComplete == lister.missed => lister.cut \/ raced

\* put, delete and restore: the current record of a key is what its versions
\* say is newest, and a bucket goes only when nothing is left in it.
KeysHold == KeyAgrees /\ DeletedBucketIsEmpty
=============================================================================
