-------------------------- MODULE S3PartsAndPages ---------------------------
(***************************************************************************)
(* Multipart uploads of one key.  The uploads are kept in memory under     *)
(* p.mu, which is released between the check of a request and its effect:  *)
(* uploadPart checks, reads the body and checks again; completeMPU copies  *)
(* the parts, releases p.mu, writes the object and only then removes the   *)
(* upload.  A part is a number, whether it reaches the minimum size, and a *)
(* stamp that stands for its content and ETag.                             *)
(***************************************************************************)
EXTENDS Tables, Sequences, FiniteSets, Integers, SequencesExt

CONSTANTS MpReqs,   \* requests that can run at the same time
          MpParts,  \* bound: part numbers
          MpOps     \* bound: requests begun

ASSUME MpBounds == {MpParts, MpOps} \subseteq Nat

VARIABLES uploads,  \* p.mpu: upload id -> [parts, existed]
          mpObj,    \* the object: [is, parts] with parts as written by completeMPU
          mpReq,    \* per request: what it runs on
          mpOps,
          stored,   \* history: <<upload, number, stamp>> of the parts acknowledged
          wrote     \* history: the completions that wrote: [id, named, parts]

mpvars == <<uploads, mpObj, mpReq, mpOps, stored, wrote>>

IdleMp == [pc |-> "idle", id |-> 0, n |-> 0, big |-> FALSE, stamp |-> 0, named |-> << >>,
           parts |-> NoRows, existed |-> FALSE, cond |-> FALSE]
NoContent == [is |-> FALSE, parts |-> << >>]

MultipartInit ==
  /\ uploads = NoRows /\ mpObj \in {NoContent, [is |-> TRUE, parts |-> << >>]}
  /\ mpReq = [r \in MpReqs |-> IdleMp]
  /\ mpOps = 0 /\ stored = {} /\ wrote = {}

MpBegins(r, rec) == /\ mpReq[r].pc = "idle" /\ mpOps < MpOps /\ mpOps' = mpOps + 1
                    /\ mpReq' = [mpReq EXCEPT ![r] = rec]
MpEnds(r) == mpReq' = [mpReq EXCEPT ![r] = IdleMp]
MpAt(r, pc) == mpReq[r].pc = pc
MatchesMultipartUpload(id) == id \in DOMAIN uploads

\* createMPU: remembers whether the key had an object when the upload began.
CreateMPU ==
  /\ mpOps < MpOps /\ mpOps' = mpOps + 1
  /\ uploads' = Put(uploads, mpOps + 1, [parts |-> NoRows, existed |-> mpObj.is])
  /\ UNCHANGED <<mpObj, mpReq, stored, wrote>>

\* uploadPart and uploadPartCopy, first check.
UploadPart(r, id, n, big) ==
  /\ MatchesMultipartUpload(id)
  /\ MpBegins(r, [IdleMp EXCEPT !.pc = "part", !.id = id, !.n = n, !.big = big, !.stamp = mpOps + 1])
  /\ UNCHANGED <<uploads, mpObj, stored, wrote>>

\* The part is stored under p.mu if the upload is still there.
StillThere(id) == MatchesMultipartUpload(id)
\* Mistake: the upload is not looked up again after the body was read.
StorePartBlindly(r) ==
  LET q == mpReq[r]
  IN /\ MpAt(r, "part") /\ MpEnds(r) /\ stored' = stored \union {<<q.id, q.n, q.stamp>>}
     /\ uploads' = IF q.id \in DOMAIN uploads
                     THEN Put(uploads, q.id, [uploads[q.id] EXCEPT !.parts =
                                Put(@, q.n, [stamp |-> q.stamp, big |-> q.big])])
                     ELSE uploads
     /\ UNCHANGED <<mpObj, mpOps, wrote>>
StorePart(r) ==
  LET q == mpReq[r]
      u == uploads[q.id]
  IN /\ MpAt(r, "part") /\ StillThere(q.id) /\ MpEnds(r)
     /\ uploads' = Put(uploads, q.id,
                       [u EXCEPT !.parts = Put(u.parts, q.n, [stamp |-> q.stamp, big |-> q.big])])
     /\ stored' = stored \union {<<q.id, q.n, q.stamp>>}
     /\ UNCHANGED <<mpObj, mpOps, wrote>>

PartRefused(r) ==
  /\ MpAt(r, "part") /\ ~StillThere(mpReq[r].id) /\ MpEnds(r)
  /\ UNCHANGED <<uploads, mpObj, mpOps, stored, wrote>>

\* The parts a client may name: each by the number and the ETag it was given.
Named(id) == UNION {[1..k -> {<<p[2], p[3]>> : p \in {q \in stored : q[1] = id}}] : k \in 1..2}

\* completeMPU, under p.mu: the parts are copied.
CompleteMPU(r, id, named, cond) ==
  /\ MatchesMultipartUpload(id)
  /\ MpBegins(r, [IdleMp EXCEPT !.pc = "complete", !.id = id, !.named = named, !.cond = cond,
                                !.parts = uploads[id].parts, !.existed = uploads[id].existed])
  /\ UNCHANGED <<uploads, mpObj, stored, wrote>>

\* If-None-Match: no object now, and none when the upload began.
ConditionHolds(q) == q.cond => ~mpObj.is /\ ~q.existed
\* Ascending numbers, each part as named, all but the last of the minimum size.
PartsValid(q) ==
  /\ \A i \in 1..Len(q.named) :
       /\ q.named[i][1] \in DOMAIN q.parts /\ q.parts[q.named[i][1]].stamp = q.named[i][2]
       /\ i < Len(q.named) => q.parts[q.named[i][1]].big
       /\ i > 1 => q.named[i - 1][1] < q.named[i][1]
Assembled(q) == [i \in 1..Len(q.named) |-> <<q.named[i][1], q.parts[q.named[i][1]].stamp>>]

\* The checks, on the copied parts.
CompleteChecks(r) ==
  /\ MpAt(r, "complete") /\ ConditionHolds(mpReq[r]) /\ PartsValid(mpReq[r])
  /\ mpReq' = [mpReq EXCEPT ![r].pc = "write"]
  /\ UNCHANGED <<uploads, mpObj, mpOps, stored, wrote>>

\* putObject writes the object assembled from the copied parts.
CompleteWrites(r) ==
  /\ MpAt(r, "write") /\ mpReq' = [mpReq EXCEPT ![r].pc = "remove"]
  /\ mpObj' = [is |-> TRUE, parts |-> Assembled(mpReq[r])]
  /\ wrote' = wrote \union {[id |-> mpReq[r].id, named |-> mpReq[r].named, parts |-> mpObj'.parts]}
  /\ UNCHANGED <<uploads, mpOps, stored>>

\* The upload is removed after the object was written.
CompleteRemoves(r) ==
  /\ MpAt(r, "remove") /\ MpEnds(r) /\ uploads' = Del(uploads, mpReq[r].id)
  /\ UNCHANGED <<mpObj, mpOps, stored, wrote>>

\* A refused completion leaves the upload for another try.
CompleteRefused(r) ==
  /\ MpAt(r, "complete") /\ ~(ConditionHolds(mpReq[r]) /\ PartsValid(mpReq[r])) /\ MpEnds(r)
  /\ UNCHANGED <<uploads, mpObj, mpOps, stored, wrote>>

\* abortMPU.
AbortMPU(id) ==
  /\ MatchesMultipartUpload(id) /\ uploads' = Del(uploads, id)
  /\ UNCHANGED <<mpObj, mpReq, mpOps, stored, wrote>>

\* deleteBucket drops the uploads of the bucket, which has no object then.
DropUploads ==
  /\ ~mpObj.is /\ uploads # NoRows /\ uploads' = NoRows
  /\ UNCHANGED <<mpObj, mpReq, mpOps, stored, wrote>>

MultipartNext ==
  \/ CreateMPU \/ DropUploads
  \/ \E id \in DOMAIN uploads : AbortMPU(id)
  \/ \E r \in MpReqs :
       \/ \E id \in DOMAIN uploads :
            \/ \E n \in 1..MpParts, big \in BOOLEAN : UploadPart(r, id, n, big)
            \/ \E s \in Named(id), c \in BOOLEAN : CompleteMPU(r, id, s, c)
       \/ StorePart(r) \/ PartRefused(r) \/ CompleteChecks(r) \/ CompleteWrites(r)
       \/ CompleteRemoves(r) \/ CompleteRefused(r)
MultipartSpec == MultipartInit /\ [][MultipartNext]_mpvars

----------------------------------------------------------------------------
(* Properties.                                                             *)

\* What a completion writes is what its client named: in ascending order, each
\* part with the content whose ETag was named, stored in that upload before,
\* although parts are replaced and the upload is aborted while completeMPU runs
\* without the lock.
AssemblesWhatWasNamed ==
  \A w \in wrote :
    /\ w.parts = w.named
    /\ \A i \in 1..Len(w.parts) : <<w.id, w.parts[i][1], w.parts[i][2]>> \in stored
    /\ \A i, j \in 1..Len(w.parts) : i < j => w.parts[i][1] < w.parts[j][1]

\* A part that uploadPart acknowledged is in its upload, unless a later part
\* replaced it, until the upload is completed or aborted; no part is
\* acknowledged into an upload that is already gone.
NoPartLost ==
  [][\A p \in stored' \ stored :
       /\ p[1] \in DOMAIN uploads
       /\ p[1] \in DOMAIN uploads' /\ uploads'[p[1]].parts[p[2]].stamp = p[3]]_mpvars

\* Uploads in parts: what is acknowledged is kept, and what is completed is
\* assembled from it (uploadPart, completeMPU).
UploadsHold == []AssemblesWhatWasNamed /\ NoPartLost

-----------------------------------------------------------------------------
(***************************************************************************)
(* The bytes a read returns: a Range header, a part number, a copy-source  *)
(* range, and the read and copy preconditions.  Bounds are given parsed;   *)
(* a bound that is absent is NoBound and one that does not parse is Bad.  *)
(***************************************************************************)

CONSTANTS RgMax,    \* bound: sizes and offsets
          RgSizes   \* sizes of the parts of a multipart object, in part order

ASSUME RgBounds == RgMax \in Nat

NoBound == -1   \* an empty bound
Bad  == -2   \* a bound that is not a number, or negative

VARIABLES ask,      \* the request: what is read of an object of which size
          answer    \* [kind, from, len]: "whole", "range" or "error"

rgvars == <<ask, answer>>

Whole(size) == [kind |-> "whole", from |-> 0, len |-> size]
Span(from, len) == [kind |-> "range", from |-> from, len |-> len]
RangeError == [kind |-> "error", from |-> 0, len |-> 0]

\* objectByteRange: a range that does not parse is ignored, one that cannot be
\* satisfied is an error, an end past the object is cut.
ClampEnd(last, size) == IF last = NoBound \/ last >= size THEN size - 1 ELSE last
SuffixRange(n, size) ==
  IF n < 0 THEN Whole(size)
  ELSE IF n = 0 \/ size = 0 THEN RangeError
  ELSE IF n > size THEN Span(0, size) ELSE Span(size - n, n)
ObjectByteRange(first, last, size) ==
  IF first = NoBound THEN SuffixRange(last, size)
  ELSE IF first = Bad THEN Whole(size)
  ELSE IF first >= size THEN RangeError
  ELSE IF last = Bad \/ (last # NoBound /\ last < first) THEN Whole(size)
  ELSE Span(first, ClampEnd(last, size) - first + 1)

\* applyCopySourceRange: both bounds are needed and must lie in the source.
ApplyCopySourceRange(first, last, size) ==
  IF first < 0 \/ last < first \/ first >= size \/ last >= size THEN RangeError
  ELSE Span(first, last - first + 1)

\* objectPartRange: part numbers are those of the completed upload; an object
\* that was not uploaded in parts is part 1.
SumTo(i) == LET Sum[k \in 0..i] == IF k = 0 THEN 0 ELSE Sum[k - 1] + RgSizes[k].size IN Sum[i]
ObjectPartRange(number, size) ==
  IF RgSizes = << >> THEN IF number = 1 THEN Span(0, size) ELSE RangeError
  ELSE IF \E i \in 1..Len(RgSizes) : RgSizes[i].number = number
    THEN LET i == CHOOSE j \in 1..Len(RgSizes) : RgSizes[j].number = number
         IN Span(SumTo(i - 1), RgSizes[i].size)
    ELSE RangeError

\* checkReadPreconditions: If-Match comes before If-Unmodified-Since, and
\* If-NoBound-Match before If-Modified-Since.  A condition is an ETag or an instant,
\* NoBound when absent.
ReadCondition(c, etag, modified, now) ==
  IF \/ c.match # NoBound /\ c.match # etag
     \/ c.match = NoBound /\ c.unmodified # NoBound /\ modified > c.unmodified
    THEN "failed"
  ELSE IF c.nonematch # NoBound THEN IF c.nonematch = etag THEN "unchanged" ELSE "read"
  ELSE IF c.modified # NoBound /\ modified <= c.modified /\ c.modified < now THEN "unchanged"
  ELSE "read"

\* checkCopySourcePreconditions.
CopyCondition(c, etag, modified, now) ==
  LET matchFails == c.match # NoBound /\ (c.match # etag \/ (c.modified # NoBound /\ c.modified > modified))
      settled == c.match # NoBound /\ c.unmodified # NoBound
      laterFails == \/ c.unmodified # NoBound /\ modified > c.unmodified
                    \/ c.nonematch # NoBound /\ c.nonematch = etag
                    \/ c.modified # NoBound /\ modified <= c.modified /\ c.modified < now
  IN IF matchFails \/ (~settled /\ laterFails) THEN "failed" ELSE "read"

Bounds == {NoBound, Bad} \union 0..RgMax
Conditions == [match : {NoBound, 1, 2}, nonematch : {NoBound, 1, 2}, modified : {NoBound, 0, 1, 2},
               unmodified : {NoBound, 0, 1, 2}]
Asks == [op : {"Range", "Copy"}, first : Bounds, last : Bounds, size : 0..RgMax]
          \union [op : {"Part"}, number : 0..4, size : {SumTo(Len(RgSizes))}]
          \union [op : {"Read", "CopySource"}, cond : Conditions, modified : {0, 1}, now : {1, 2}]

NoAnswer == [kind |-> "", from |-> 0, len |-> 0]
RangesInit == ask \in Asks /\ answer = NoAnswer

Verdict(v) == [kind |-> v, from |-> 0, len |-> 0]
RangeAnswer(a) ==
  CASE a.op = "Range" -> ObjectByteRange(a.first, a.last, a.size)
    [] a.op = "Copy" -> ApplyCopySourceRange(a.first, a.last, a.size)
    [] a.op = "Part" -> ObjectPartRange(a.number, a.size)
    [] a.op = "Read" -> Verdict(ReadCondition(a.cond, 1, a.modified, a.now))
    [] a.op = "CopySource" -> Verdict(CopyCondition(a.cond, 1, a.modified, a.now))
RangesNext == answer = NoAnswer /\ answer' = RangeAnswer(ask) /\ UNCHANGED ask
RangesSpec == RangesInit /\ [][RangesNext]_rgvars

Answered(op) == answer # NoAnswer /\ ask.op = op
Bytes(r) == {b \in 0..(RgMax * 3) : r.from <= b /\ b < r.from + r.len}

\* A ranged read returns exactly the bytes of the object that the header names,
\* never none and never past the end (objectByteRange): slicing cannot fail.
RangeExact ==
  Answered("Range") /\ answer.kind = "range" =>
    /\ answer.len > 0 /\ answer.from + answer.len <= ask.size
    /\ Bytes(answer) = {b \in 0..(ask.size - 1) :
         IF ask.first = NoBound THEN b >= ask.size - ask.last
         ELSE b >= ask.first /\ (ask.last # NoBound => b <= ask.last)}

\* The parts of an object tile it: every byte is in exactly one part
\* (objectPartRange), although part numbers may have gaps.
PartsTile ==
  Answered("Part") /\ RgSizes # << >> =>
    \A b \in 0..(ask.size - 1) :
      Cardinality({n \in 1..4 : ObjectPartRange(n, ask.size).kind = "range"
                                  /\ b \in Bytes(ObjectPartRange(n, ask.size))}) = 1

\* A copy and a read judge the same conditions alike (checkReadPreconditions,
\* checkCopySourcePreconditions): what a copy accepts, a read returns, unless
\* the copy's If-Match and If-Unmodified-Since settled it before the rest.
CopyAgreesWithRead ==
  Answered("CopySource") /\ answer.kind = "read"
    /\ ~(ask.cond.match # NoBound /\ ask.cond.unmodified # NoBound) =>
    ReadCondition(ask.cond, 1, ask.modified, ask.now) = "read"

-----------------------------------------------------------------------------
(***************************************************************************)
(* The listings of S3, one page after the other, while keys come and go.   *)
(* Names are numbers in the order the service sorts them; Roll gives the   *)
(* common prefix a delimiter folds a name into.                            *)
(***************************************************************************)

CONSTANTS PgNames,    \* names, as numbers
          PgFolded,   \* name -> its common prefix, for the names that contain the delimiter
          PgChanges   \* bound: puts and deletions while paging

ASSUME PgBounds == PgNames \subseteq Nat \ {0} /\ PgChanges \in Nat

VARIABLES listing,  \* "V1", "V2", "uploads", "parts" or "buckets"
          delimiter,
          maxKeys,
          names,    \* what the collection holds
          stable,   \* history: names there since the first page
          token,    \* marker or continuation token of the next page, 0: none
          got,      \* history: entries returned
          pgEnd,    \* "", "complete" or "refused"
          pgChanges

s3pgvars == <<listing, delimiter, maxKeys, names, stable, token, got, pgEnd, pgChanges>>

S3PagingInit ==
  /\ listing \in {"V1", "V2", "uploads", "parts", "buckets"}
  /\ delimiter \in IF listing \in {"V1", "V2"} THEN BOOLEAN ELSE {FALSE}
  /\ maxKeys \in {1, 2} /\ names \in {PgNames, PgNames \ {MinOf(PgNames)}} /\ stable = names
  /\ token = 0 /\ got = << >> /\ pgEnd = "" /\ pgChanges = 0

Roll(n) == IF delimiter /\ n \in DOMAIN PgFolded THEN PgFolded[n] ELSE n
\* The entries, common prefixes folded, sorted by value.
Entry == SetToSortSeq({Roll(n) : n \in names}, <)

\* What a page starts from: after the marker, or at the continuation token;
\* uploads resume behind the upload the marker names.
PageFromAfter == SelectSeq(Entry, LAMBDA v : v > token)   \* mistake: a V2 token is a marker
PageFrom ==
  SelectSeq(Entry, LAMBDA v : IF listing = "V2" THEN v >= token ELSE v > token)
\* A key and upload-id marker must name an upload that is there.
MarkerValid == listing = "uploads" /\ token # 0 => token \in names
PageOf(s) == SubSeq(s, 1, MinOf({maxKeys, Len(s)}))
\* The token of the next page: for V2 the first entry that did not fit, for the
\* others the last one that did.
NextToken(s) == IF listing = "V2" THEN s[maxKeys + 1] ELSE s[maxKeys]

ListNextPage ==
  LET rest == PageFrom
      truncated == Len(rest) > maxKeys
  IN /\ pgEnd = ""
     /\ IF MarkerValid
          THEN /\ got' = got \o PageOf(rest)
               /\ token' = IF truncated THEN NextToken(rest) ELSE token
               /\ pgEnd' = IF truncated THEN "" ELSE "complete"
          ELSE pgEnd' = "refused" /\ UNCHANGED <<got, token>>
     /\ UNCHANGED <<listing, delimiter, maxKeys, names, stable, pgChanges>>

\* Other clients add and remove names between pages.
NameComes(n) ==
  /\ pgEnd = "" /\ pgChanges < PgChanges /\ n \notin names /\ pgChanges' = pgChanges + 1
  /\ names' = names \union {n}
  /\ UNCHANGED <<listing, delimiter, maxKeys, stable, token, got, pgEnd>>
NameGoes(n) ==
  /\ pgEnd = "" /\ pgChanges < PgChanges /\ n \in names /\ pgChanges' = pgChanges + 1
  /\ names' = names \ {n} /\ stable' = stable \ {n}
  /\ UNCHANGED <<listing, delimiter, maxKeys, token, got, pgEnd>>

S3PagingNext == ListNextPage \/ \E n \in PgNames : NameComes(n) \/ NameGoes(n)

\* A listing whose pages are all read returns every name, or its common prefix,
\* that was there throughout, and returns no entry twice or out of order,
\* although keys are written and deleted between pages, the one a token names
\* among them (listObjects, listParts, listMultipartUploads, listBuckets).
ListingComplete ==
  /\ \A i, j \in 1..Len(got) : i < j => got[i] < got[j]
  /\ pgEnd = "complete" => \A n \in stable : Roll(n) \in ToSet(got)
=============================================================================
