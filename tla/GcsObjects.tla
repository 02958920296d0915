----------------------------- MODULE GcsObjects -----------------------------
(***************************************************************************)
(* One object of Google Cloud Storage (internal/services/gcp/gcs): simple, *)
(* copied, composed and resumable uploads, patches and deletions.  A store *)
(* checks its precondition, puts the blob and then the record, three steps *)
(* that nothing serialises.  Content is a sequence of bytes.               *)
(***************************************************************************)
EXTENDS Tables, FiniteSets, Sequences, Integers
LOCAL INSTANCE SequencesExt

CONSTANTS GcData,     \* what the resumable upload sends
          GcOther,    \* what the other writers store
          GcReqs, GcOps, GcChunks
VARIABLES gcObj,      \* the object's record: generation, metageneration, content named by its hash
          gcBlob,
          gcSess,     \* the upload session: its buffer; lost on restart
          gcClient,   \* the uploader: what it believes stored, and its step
          gcReq, gcOps,
          gcRaced,    \* two stores overlapped
          gcBroken    \* a store replaced another generation than it asked for

gcvars == <<gcObj, gcBlob, gcSess, gcClient, gcReq, gcOps, gcRaced, gcBroken>>
None == [gen |-> 0]
NoBlob == <<0>>
NoSession == [open |-> FALSE, buf |-> <<>>]
gcIdle == [pc |-> "idle"]
GcsInit ==
  /\ gcObj = None /\ gcBlob = NoBlob /\ gcSess = NoSession
  /\ gcClient = [pos |-> 0, pc |-> "start"]
  /\ gcReq = [r \in GcReqs \union {"upload"} |-> gcIdle]
  /\ gcOps = 0 /\ gcRaced = FALSE /\ gcBroken = FALSE

Storing == {r \in DOMAIN gcReq : gcReq[r] # gcIdle}
\* checkCreatePreconditions: no precondition, "0" for a new object, or the
\* generation that must be there.
checkCreatePreconditions(match) == match = "" \/ (match = "0" /\ gcObj = None) \/ (match = "current" /\ gcObj # None)
BeginStore(r, data, match) ==
  /\ gcReq' = [gcReq EXCEPT ![r] = [pc |-> "blob", data |-> data, match |-> match, saw |-> gcObj.gen]]
  /\ gcRaced' = (gcRaced \/ Storing # {})
BlobPut(r) ==
  /\ gcReq[r] # gcIdle /\ gcReq[r].pc = "blob"
  /\ gcBlob' = gcReq[r].data
  /\ gcReq' = [gcReq EXCEPT ![r].pc = "record"]
  /\ UNCHANGED <<gcObj, gcSess, gcClient, gcOps, gcRaced, gcBroken>>
\* The generation follows the one replaced; a new object's is drawn at random.
NextGen == IF gcObj = None THEN 1 ELSE gcObj.gen + 1
storeObject(r) ==
  /\ gcReq[r] # gcIdle /\ gcReq[r].pc = "record"
  /\ gcObj' = [gen |-> NextGen, meta |-> 1, data |-> gcReq[r].data]
  /\ gcBroken' = (gcBroken \/ (gcReq[r].match # "" /\ gcObj.gen # gcReq[r].saw))
  /\ gcReq' = [gcReq EXCEPT ![r] = gcIdle]
  /\ gcClient' = IF r = "upload" THEN [gcClient EXCEPT !.pc = "stored"] ELSE gcClient
  /\ UNCHANGED <<gcBlob, gcSess, gcOps, gcRaced>>

\* insert, and the store at the end of copy, rewrite and compose.
objectInsert(r) ==
  /\ gcReq[r] = gcIdle /\ gcOps < GcOps /\ r # "upload"
  /\ \E match \in {"", "0", "current"}, data \in GcOther :
       checkCreatePreconditions(match) /\ BeginStore(r, data, match)
  /\ gcOps' = gcOps + 1
  /\ UNCHANGED <<gcObj, gcBlob, gcSess, gcClient, gcBroken>>
\* compose reads the blobs of its sources, one after the other.
objectCompose(r) ==
  /\ gcReq[r] = gcIdle /\ gcOps < GcOps /\ r # "upload" /\ gcBlob # NoBlob
  /\ \E data \in GcOther : BeginStore(r, gcBlob \o data, "")
  /\ gcOps' = gcOps + 1
  /\ UNCHANGED <<gcObj, gcBlob, gcSess, gcClient, gcBroken>>
objectDelete(r) ==
  /\ gcReq[r] = gcIdle /\ gcOps < GcOps /\ r # "upload" /\ gcObj # None
  /\ gcObj' = None
  /\ gcReq' = [gcReq EXCEPT ![r] = [pc |-> "unblob"]]
  /\ gcRaced' = (gcRaced \/ Storing # {})
  /\ gcOps' = gcOps + 1
  /\ UNCHANGED <<gcBlob, gcSess, gcClient, gcBroken>>
BlobDelete(r) ==
  /\ gcReq[r] # gcIdle /\ gcReq[r].pc = "unblob"
  /\ gcBlob' = NoBlob
  /\ gcReq' = [gcReq EXCEPT ![r] = gcIdle]
  /\ UNCHANGED <<gcObj, gcSess, gcClient, gcOps, gcRaced, gcBroken>>
\* patch writes back the record it read, its metageneration one higher.
objectPatch(r) ==
  /\ gcReq[r] = gcIdle /\ gcOps < GcOps /\ r # "upload" /\ gcObj # None
  /\ gcReq' = [gcReq EXCEPT ![r] = [pc |-> "patch", rec |-> [gcObj EXCEPT !.meta = @ + 1]]]
  /\ gcRaced' = (gcRaced \/ Storing # {})
  /\ gcOps' = gcOps + 1
  /\ UNCHANGED <<gcObj, gcBlob, gcSess, gcClient, gcBroken>>
PatchPut(r) ==
  /\ gcReq[r] # gcIdle /\ gcReq[r].pc = "patch"
  /\ gcObj' = gcReq[r].rec
  /\ gcReq' = [gcReq EXCEPT ![r] = gcIdle]
  /\ UNCHANGED <<gcBlob, gcSess, gcClient, gcOps, gcRaced, gcBroken>>

(***************************************************************************)
(* A resumable upload.  Sessions live in process memory; the session's     *)
(* mutex is held while a chunk is taken and, at the end, stored.           *)
(***************************************************************************)
StartUpload ==
  /\ gcClient.pc = "start"
  /\ gcSess' = [open |-> TRUE, buf |-> <<>>]
  /\ gcClient' = [pos |-> 0, pc |-> "send"]
  /\ UNCHANGED <<gcObj, gcBlob, gcReq, gcOps, gcRaced, gcBroken>>
\* The chunk is laid over the buffer at its place.
Overlaid(buf, start, chunk) ==
  [i \in 1..MaxOf({Len(buf), start + Len(chunk)}) |->
     IF i > start /\ i <= start + Len(chunk) THEN chunk[i - start] ELSE IF i <= Len(buf) THEN buf[i] ELSE 0]
\* resumablePut of n bytes; the answer may be lost, and the client send the same
\* chunk again.
resumablePut(n, lost) ==
  /\ gcClient.pc = "send" /\ gcSess.open /\ gcReq["upload"] = gcIdle
  /\ gcClient.pos + n <= Len(GcData)
  /\ LET start == gcClient.pos
         buf == Overlaid(gcSess.buf, start, SubSeq(GcData, start + 1, start + n))
     IN /\ gcSess' = [gcSess EXCEPT !.buf = buf]
        /\ IF start + n >= Len(GcData)
           THEN /\ BeginStore("upload", SubSeq(buf, 1, Len(GcData)), "")
                /\ gcClient' = [gcClient EXCEPT !.pc = "storing"]
           ELSE /\ gcClient' = IF lost THEN gcClient ELSE [gcClient EXCEPT !.pos = start + n]
                /\ UNCHANGED <<gcReq, gcRaced>>
  /\ UNCHANGED <<gcObj, gcBlob, gcOps, gcBroken>>
\* "bytes */total" asks how much has arrived.
QueryRange ==
  /\ gcClient.pc = "send" /\ gcSess.open /\ gcReq["upload"] = gcIdle
  /\ gcClient.pos # Len(gcSess.buf) /\ Len(gcSess.buf) < Len(GcData)
  /\ gcClient' = [gcClient EXCEPT !.pos = Len(gcSess.buf)]
  /\ UNCHANGED <<gcObj, gcBlob, gcSess, gcReq, gcOps, gcRaced, gcBroken>>
\* The answer to the last chunk arrives, or is lost and the chunk sent again.
UploadAnswered(lost) ==
  /\ gcClient.pc = "stored"
  /\ gcClient' = [gcClient EXCEPT !.pc = IF lost /\ gcObj # None /\ gcObj.gen < 3 THEN "send" ELSE "done"]
  /\ UNCHANGED <<gcObj, gcBlob, gcSess, gcReq, gcOps, gcRaced, gcBroken>>
\* The process restarts: the session is unknown and the client begins again.
Restart ==
  /\ gcSess.open /\ Storing = {} /\ gcOps < GcOps /\ gcClient.pc = "send"
  /\ gcSess' = NoSession /\ gcClient' = [pos |-> 0, pc |-> "start"] /\ gcOps' = gcOps + 1
  /\ UNCHANGED <<gcObj, gcBlob, gcReq, gcRaced, gcBroken>>

GcsNext ==
  \/ \E r \in DOMAIN gcReq :
       \/ objectInsert(r) \/ objectCompose(r) \/ BlobPut(r) \/ storeObject(r)
       \/ objectDelete(r) \/ BlobDelete(r) \/ objectPatch(r) \/ PatchPut(r)
  \/ StartUpload \/ \E n \in GcChunks, lost \in BOOLEAN : resumablePut(n, lost)
  \/ QueryRange \/ \E lost \in BOOLEAN : UploadAnswered(lost)
  \/ Restart

(***************************************************************************)
(* Properties                                                              *)
(***************************************************************************)
\* An upload in chunks, answers lost, chunks sent again and the server restarted
\* in between, stores exactly the bytes that were sent.
UploadWhole == \A r \in DOMAIN gcReq : r = "upload" /\ gcReq[r] # gcIdle => gcReq[r].data = GcData
\* While stores do not overlap, record and blob agree, and a store made on a
\* precondition replaces the generation it was made on.
RecordMatchesBlob ==
  ~gcRaced =>
    /\ ~gcBroken
    /\ Storing = {} => IF gcObj = None THEN gcBlob = NoBlob ELSE gcBlob = gcObj.data

-----------------------------------------------------------------------------
(***************************************************************************)
(* Listing a bucket page by page with a delimiter (gcs.go objectList).     *)
(* Objects are numbered in the order of their names; those below one       *)
(* common prefix stand together in that order.                             *)
(***************************************************************************)

CONSTANTS GlNames,    \* 1..n
          GlFolders   \* assignments of names to folders; 0 is no folder
VARIABLES glFolder, glMax,
          glToken,    \* pageToken; -1 after the last page
          glItems, glPrefixes   \* what the pages gave, in order

glvars == <<glFolder, glMax, glToken, glItems, glPrefixes>>
ListingInit ==
  /\ glFolder \in GlFolders /\ glMax \in 1..2
  /\ glToken = 0 /\ glItems = <<>> /\ glPrefixes = <<>>

\* The names of one page: up to the one that fills it.
Rest == {n \in GlNames : n > glToken}
Single(S) == {n \in S : glFolder[n] = 0}
Filling == SetToSortSeq(Single(Rest), <)
TokenOf(last) == last
objectList ==
  /\ glToken # -1
  /\ LET full == Len(Filling) >= glMax
         last == IF full THEN Filling[glMax] ELSE MaxOf(GlNames)
         page == {n \in Rest : n <= last}
     IN /\ glItems' = glItems \o SetToSortSeq(Single(page), <)
        /\ glPrefixes' = glPrefixes \o SetToSortSeq({glFolder[n] : n \in page} \ {0}, <)
        /\ glToken' = IF full THEN TokenOf(last) ELSE -1
  /\ UNCHANGED <<glFolder, glMax>>
ListingNext == objectList

\* The pages together name every object and every folder once, in order.
ListsOnce ==
  glToken = -1 =>
    /\ glItems = SetToSortSeq(Single(GlNames), <)
    /\ glPrefixes = SetToSortSeq({glFolder[n] : n \in GlNames} \ {0}, <)
=============================================================================
