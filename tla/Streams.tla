------------------------------ MODULE Streams -------------------------------
(***************************************************************************)
(* The records of one Kinesis stream (internal/services/aws/kinesis): puts *)
(* that take a sequence number in one step and store the record in the     *)
(* next, and readers that follow their iterators.                          *)
(***************************************************************************)
EXTENDS Tables, SequencesExt, Integers

CONSTANTS KsProducers, KsRecords,  \* bound on records
          KsLimits                 \* limits a reader may give
VARIABLES ksSeq,     \* the stream's Seq
          ksStored,  \* records by sequence number: number and arrival time
          ksPut,     \* producers between nextSeq and the put
          ksNow,
          ksIter,    \* the reader's iterator; its kind and the timestamp asked for
          ksRead,    \* numbers it was given, in order
          ksCount,
          ksRaced    \* two puts overlapped, or a put and the search for a timestamp

ksvars == <<ksSeq, ksStored, ksPut, ksNow, ksIter, ksRead, ksCount, ksRaced>>

KsIdle == <<"idle", 0>>
NoIter == [kind |-> "none"]
KinesisInit ==
  /\ ksSeq = 0 /\ ksStored = NoRows /\ ksNow = 0
  /\ ksPut = [p \in KsProducers |-> KsIdle]
  /\ ksIter = NoIter /\ ksRead = <<>> /\ ksCount = 0 /\ ksRaced = FALSE

\* nextSeq reads the stream's record and writes it back with Seq + 1, outside
\* a transaction: two puts may read the same number.
NextSeq(p) ==
  /\ ksPut[p] = KsIdle /\ ksCount < KsRecords
  /\ ksPut' = [ksPut EXCEPT ![p] = <<"read", ksSeq>>] /\ ksCount' = ksCount + 1
  /\ ksRaced' = (ksRaced \/ \E q \in KsProducers : ksPut[q] # KsIdle)
  /\ UNCHANGED <<ksSeq, ksStored, ksNow, ksIter, ksRead>>
Step(p, s) == ksPut[p][1] = s
WriteSeq(p) ==
  /\ Step(p, "read")
  /\ ksSeq' = ksPut[p][2] + 1
  /\ ksPut' = [ksPut EXCEPT ![p] = <<"numbered", ksPut[p][2]>>]
  /\ UNCHANGED <<ksStored, ksNow, ksIter, ksRead, ksCount, ksRaced>>
ksPutRecord(p) ==
  /\ Step(p, "numbered")
  /\ ksStored' = Put(ksStored, ksPut[p][2], [at |-> ksNow])
  /\ ksPut' = [ksPut EXCEPT ![p] = KsIdle]
  /\ UNCHANGED <<ksSeq, ksNow, ksIter, ksRead, ksCount, ksRaced>>
ksClock == ksNow < 2 /\ ksNow' = ksNow + 1 /\ UNCHANGED <<ksSeq, ksStored, ksPut, ksIter, ksRead,
    ksCount, ksRaced>>

\* GetShardIterator; a timestamp asked for is one that has passed.
After(n) == n + 1
atTimestampSeq(t) == MinOf({ksSeq} \union {n \in DOMAIN ksStored : ksStored[n].at >= t})
GetShardIterator ==
  /\ ksIter = NoIter
  /\ \/ ksIter' = [kind |-> "LATEST", next |-> ksSeq, asked |-> ksSeq]
     \/ ksIter' = [kind |-> "TRIM_HORIZON", next |-> 0, asked |-> 0]
     \/ \E t \in 1..ksNow : ksIter' = [kind |-> "AT_TIMESTAMP", next |-> atTimestampSeq(t), asked |-> t]
     \/ \E n \in DOMAIN ksStored :
          \/ ksIter' = [kind |-> "AT_SEQUENCE_NUMBER", next |-> n, asked |-> n]
          \/ ksIter' = [kind |-> "AFTER_SEQUENCE_NUMBER", next |-> After(n), asked |-> n]
  /\ ksRaced' = (ksRaced \/ (ksIter'.kind = "AT_TIMESTAMP" /\ \E p \in KsProducers : ksPut[p] # KsIdle))
  /\ UNCHANGED <<ksSeq, ksStored, ksPut, ksNow, ksRead, ksCount>>

\* GetRecords: the first `limit` stored records from the iterator on, and the
\* iterator behind the last of them.
GetRecords ==
  /\ ksIter # NoIter
  /\ \E limit \in KsLimits :
       LET all == {n \in DOMAIN ksStored : n >= ksIter.next}
           got == SubSeq(SetToSortSeq(all, <), 1, IF Cardinality(all) < limit THEN Cardinality(all)
               ELSE limit)
       IN /\ got # <<>>
          /\ ksRead' = ksRead \o got
          /\ ksIter' = [ksIter EXCEPT !.next = got[Len(got)] + 1]
  /\ UNCHANGED <<ksSeq, ksStored, ksPut, ksNow, ksCount, ksRaced>>

KinesisNext ==
  \/ \E p \in KsProducers : NextSeq(p) \/ WriteSeq(p) \/ ksPutRecord(p)
  \/ ksClock \/ GetShardIterator \/ GetRecords

\* While puts do not race, a reader is given each record it asked for once
\* and in order: what is behind its iterator it has, what is not it has not.
ReaderComplete ==
  ~ksRaced /\ ksIter # NoIter =>
    LET mine(n) ==
          CASE ksIter.kind = "TRIM_HORIZON" -> TRUE
            [] ksIter.kind = "AT_TIMESTAMP" -> ksStored[n].at >= ksIter.asked
            [] ksIter.kind = "AFTER_SEQUENCE_NUMBER" -> n > ksIter.asked
            [] OTHER -> n >= ksIter.asked
    IN ksRead = SetToSortSeq({n \in DOMAIN ksStored : mine(n) /\ n < ksIter.next}, <)

-----------------------------------------------------------------------------
(***************************************************************************)
(* The configuration of a Firehose stream (internal/services/aws/firehose):*)
(* what CreateDeliveryStream and UpdateDestination accept, how an update   *)
(* is merged into what is stored, tags and encryption.                     *)
(*                                                                         *)
(* A destination is a record of its settings: those of its S3 part, of its *)
(* S3 backup, and its own.  ARNs, URLs, names and columns are together one *)
(* setting, `ident`, well-formed or not.                                   *)
(***************************************************************************)

CONSTANTS FcCreates,    \* requests to create: kind, source, encrypt, tags, settings
          FcPatches,    \* updates: functions from some settings to new values
          FcTags,       \* tag keys
          FcTagLimit,   \* tags a stream may have (50)
          FcMaxVersion  \* bound on updates

ASSUME FcConstants ==
  FcTagLimit \in Nat /\ \A r \in FcCreates : r.encrypt \in BOOLEAN /\ IsFiniteSet(r.tags)

VARIABLES fcStream,  \* the stored stream, or NoStream
          fcTagged,  \* its tags, a record of their own
          fcMake,    \* a create between its record and its tags
          fcSeen,    \* what a slow client read; others update from a fresh read
          fcLost     \* an accepted update that overwrote something unseen

fcvars == <<fcStream, fcTagged, fcMake, fcSeen, fcLost>>

Absent == -1
NoStream == [kind |-> "none"]
NoMake == {"none"}

(***************************************************************************)
(* The parts destinations share                                            *)
(***************************************************************************)
\* optionalInteger, and the rule that S3 and HTTP hints come in pairs.
InRange(v, lo, hi) == v = Absent \/ (lo <= v /\ v <= hi)
ValidHints(h, interval, size) == InRange(h.i, 0, interval) /\ InRange(h.s, 1, size)
Paired(h) == (h.i = Absent) = (h.s = Absent)
ValidRetry(c) == InRange(c.retry, 0, 7200)

\* hasProcessor: a processor of a configuration that is switched on.
hasProcessor(c, type) == c.proc.on /\ \E i \in DOMAIN c.proc.list : c.proc.list[i] = type
validateProcessingConfiguration(c) ==
  /\ c.proc.on => c.proc.list # <<>>
  /\ \A i \in DOMAIN c.proc.list :
       c.proc.list[i] = "CloudWatchLogProcessing" =>
         \E j \in DOMAIN c.proc.list : j < i /\ c.proc.list[j] = "Decompression"
validateCloudWatchLogging(c) == c.logs # "bad"

\* Prefix expressions: partition keys need dynamic partitioning, any expression
\* needs an error prefix, and an error prefix with expressions the error type.
Expressions == {"timestamp", "lambdaKey", "queryKey"}
validatePrefixes(c) ==
  /\ c.prefix \in Expressions => c.errors # "none"
  /\ c.prefix \in {"lambdaKey", "queryKey"} => c.dynamic = "on"
  /\ c.errors # "untyped"
DynamicWithoutProcessors(c, allowed) ==        \* mistake: nothing asks who computes the keys
  c.dynamic # "absent" => allowed /\ (c.dynamic = "on" => c.errors # "none" /\ c.prefix \in {"lambdaKey", "queryKey"})
validateDynamicPartitioning(c, allowed) ==
  c.dynamic # "absent" =>
    /\ allowed
    /\ c.dynamic = "on" => c.errors # "none" /\ c.prefix \in {"lambdaKey", "queryKey"}
    /\ c.prefix = "lambdaKey" => hasProcessor(c, "Lambda")
    /\ c.prefix = "queryKey" => hasProcessor(c, "MetadataExtraction")

\* validateS3Configuration; `own` for the extended S3 destination, whose S3
\* part is the destination itself.
validateS3Configuration(c, own) ==
  /\ c.bucket = "ok"
  /\ validateCloudWatchLogging(c)
  /\ own => Paired(c.hints) /\ ValidHints(c.hints, 900, 128)
  /\ validateDynamicPartitioning(c, own)
  /\ own /\ hasProcessor(c, "MetadataExtraction") => c.dynamic = "on"
  /\ validatePrefixes(c)
  /\ c.compression \in {"none", "GZIP", "Snappy"}
validateBackup(c) ==
  /\ c.mode = "Enabled" => c.backup # "absent"
  /\ c.backup # "absent" => c.backup = "ok"

\* Credentials: a secret that is switched on, or the destination's own.
ValidSecret(c) == c.secret # "onWithoutARN" /\ (c.secret # "on" => c.credentials)

(***************************************************************************)
(* One predicate per kind of destination                                   *)
(***************************************************************************)
validateHTTPEndpointDestination(c) ==
  /\ validateS3Configuration(c, FALSE) /\ validateProcessingConfiguration(c)
  /\ Paired(c.hints) /\ ValidHints(c.hints, 900, 64) /\ ValidRetry(c)
  /\ c.mode \in {"", "FailedDataOnly", "AllData"}
  /\ c.secret # "onWithoutARN"
validateElasticsearchDestination(c) ==
  /\ ValidHints(c.hints, 900, 100) /\ ValidRetry(c)
  /\ c.mode \in {"", "FailedDocumentsOnly", "AllDocuments"}
  /\ validateS3Configuration(c, FALSE) /\ validateProcessingConfiguration(c)
validateOpenSearchServerlessDestination(c) ==
  /\ ValidHints(c.hints, 900, 100) /\ ValidRetry(c)
  /\ c.mode \in {"", "FailedDocumentsOnly", "AllDocuments"}
  /\ validateS3Configuration(c, FALSE) /\ validateProcessingConfiguration(c)
validateRedshiftDestination(c) ==
  /\ ValidSecret(c) /\ ValidRetry(c)
  /\ c.mode \in {"", "Disabled", "Enabled"}
  /\ validateS3Configuration(c, FALSE) /\ c.compression \in {"none", "GZIP"}
  /\ validateBackup(c) /\ validateProcessingConfiguration(c)
validateSplunkDestination(c) ==
  /\ ValidHints(c.hints, 60, 5) /\ ValidRetry(c) /\ ValidSecret(c)
  /\ c.mode \in {"", "FailedEventsOnly", "AllEvents"}
  /\ validateS3Configuration(c, FALSE) /\ validateProcessingConfiguration(c)
validateSnowflakeDestination(c) ==
  /\ ValidSecret(c) /\ ValidHints(c.hints, 900, 128) /\ ValidRetry(c)
  /\ c.mode \in {"", "FailedDataOnly", "AllData"}
  /\ validateS3Configuration(c, FALSE) /\ validateProcessingConfiguration(c)
validateIcebergDestination(c) ==
  /\ validateS3Configuration(c, FALSE)
  /\ ValidHints(c.hints, 900, 128) /\ ValidRetry(c)
  /\ c.mode \in {"", "FailedDataOnly", "AllData"}
  /\ validateProcessingConfiguration(c)
validateS3Destination(c) ==
  /\ validateS3Configuration(c, TRUE) /\ validateProcessingConfiguration(c)
  /\ c.mode \in {"", "Disabled", "Enabled"} /\ validateBackup(c)

validateDestination(kind, c) ==
  /\ c.ident = "ok"
  /\ CASE kind = "http"       -> validateHTTPEndpointDestination(c)
       [] kind = "search"     -> validateElasticsearchDestination(c)
       [] kind = "serverless" -> validateOpenSearchServerlessDestination(c)
       [] kind = "redshift"   -> validateRedshiftDestination(c)
       [] kind = "splunk"     -> validateSplunkDestination(c)
       [] kind = "snowflake"  -> validateSnowflakeDestination(c)
       [] kind = "iceberg"    -> validateIcebergDestination(c)
       [] kind = "extendedS3" -> validateS3Destination(c)
       [] OTHER -> FALSE

\* copyDest: an update replaces the settings it names.
copyDest(c, patch) == [f \in DOMAIN c |-> IF f \in DOMAIN patch THEN patch[f] ELSE c[f]]

(***************************************************************************)
(* What the deliveries read from the stored destination                    *)
(***************************************************************************)
\* endpointBufferingHints, searchBufferingHints: half a pair counts as none.
BufferingHints(kind, c) ==
  LET given(interval, size, default) ==
        IF c.hints.i # Absent /\ c.hints.s # Absent /\ ValidHints(c.hints, interval, size)
            THEN c.hints ELSE default
  IN CASE kind = "snowflake" -> given(900, 128, [i |-> 0, s |-> 128])
       [] kind = "splunk"    -> given(60, 5, [i |-> 60, s |-> 5])
       [] kind = "http"      -> given(900, 64, [i |-> 300, s |-> 5])
       [] OTHER              -> given(900, 100, [i |-> 300, s |-> 5])
\* endpointRetryDuration, redshiftRetryDuration
RetryDuration(kind, c) ==
  IF InRange(c.retry, 0, 7200) /\ c.retry # Absent THEN c.retry
  ELSE CASE kind = "snowflake" -> 60 [] kind = "redshift" -> 3600 [] OTHER -> 300

(***************************************************************************)
(* The operations                                                          *)
(***************************************************************************)
ConfigInit ==
  /\ fcStream = NoStream /\ fcTagged = {} /\ fcMake = NoMake
  /\ fcSeen = NoStream /\ fcLost = FALSE

\* CreateDeliveryStream stores the record, and its tags in a second step.
fcCreate ==
  /\ fcStream = NoStream /\ fcMake = NoMake
  /\ \E r \in FcCreates :
       /\ validateDestination(r.kind, r.settings)
       /\ r.encrypt => r.source = "DirectPut"
       /\ Cardinality(r.tags) <= FcTagLimit
       /\ fcStream' = [kind |-> r.kind, source |-> r.source, encrypt |-> r.encrypt, version |-> 1,
            settings |-> r.settings]
       /\ fcMake' = r.tags
  /\ UNCHANGED <<fcTagged, fcSeen, fcLost>>
fcPutTags ==
  /\ fcMake # NoMake
  /\ fcTagged' = fcMake /\ fcMake' = NoMake
  /\ UNCHANGED <<fcStream, fcSeen, fcLost>>

\* The versions of a stream created again start over, so that a client's read
\* of the old one must not be used: it is forgotten here.
fcDelete ==
  /\ fcStream # NoStream
  /\ fcStream' = NoStream /\ fcTagged' = {} /\ fcSeen' = NoStream
  /\ UNCHANGED <<fcMake, fcLost>>

DescribeDeliveryStream ==
  /\ fcStream # NoStream
  /\ fcSeen' = fcStream
  /\ UNCHANGED <<fcStream, fcTagged, fcMake, fcLost>>

\* UpdateDestination, one transaction: the version must be the stored one; a
\* backup that is on stays on, and dynamic partitioning stays as it was.
KeepsBackup(kind, old, new) ==
  CASE kind \in {"extendedS3", "redshift"} -> old.mode = "Enabled" => new.mode = "Enabled"
    [] kind = "splunk" -> old.mode = "AllEvents" => new.mode = "AllEvents"
    [] OTHER -> TRUE
KeepsPartitioning(old, new) == (old.dynamic = "on") = (new.dynamic = "on")
VersionMatches(seen) == seen.version = fcStream.version
UpdateDestination(seen) ==
  /\ seen # NoStream /\ fcStream # NoStream
  /\ VersionMatches(seen) /\ fcStream.version < FcMaxVersion
  /\ \E patch \in FcPatches :
       LET old == fcStream.settings
           new == copyDest(old, patch)
       IN /\ KeepsBackup(fcStream.kind, old, new)
          /\ KeepsPartitioning(old, new)
          /\ validateDestination(fcStream.kind, new)
          /\ fcStream' = [fcStream EXCEPT !.settings = new, !.version = @ + 1]
          /\ fcLost' = (fcLost \/ seen.settings # old)
  /\ UNCHANGED <<fcTagged, fcMake, fcSeen>>

TagsAllowed(t) == Cardinality(fcTagged \union {t}) <= FcTagLimit
TagDeliveryStream ==
  /\ fcStream # NoStream
  /\ \E t \in FcTags :
       /\ TagsAllowed(t)
       /\ fcTagged' = fcTagged \union {t}
  /\ UNCHANGED <<fcStream, fcMake, fcSeen, fcLost>>
UntagDeliveryStream ==
  /\ fcStream # NoStream
  /\ \E t \in FcTags : fcTagged' = fcTagged \ {t}
  /\ UNCHANGED <<fcStream, fcMake, fcSeen, fcLost>>

\* StartDeliveryStreamEncryption and Stop: only on streams clients put to, and
\* without a new version.
SetEncryption(on) ==
  /\ fcStream # NoStream /\ fcStream.source = "DirectPut"
  /\ fcStream' = [fcStream EXCEPT !.encrypt = on]
  /\ UNCHANGED <<fcTagged, fcMake, fcSeen, fcLost>>

ConfigNext ==
  \/ fcCreate \/ fcPutTags \/ fcDelete
  \/ DescribeDeliveryStream
  \/ \E seen \in {fcStream, fcSeen} : UpdateDestination(seen)
  \/ TagDeliveryStream \/ UntagDeliveryStream
  \/ SetEncryption(TRUE) \/ SetEncryption(FALSE)

(***************************************************************************)
(* Properties                                                              *)
(***************************************************************************)
\* Whatever sequence of partial updates led to it, the stored configuration is
\* one deliveries can work with: partition expressions are backed by processors
\* that compute their keys, a failure has a prefix to go to, CloudWatch
\* messages are decompressed first, what is read as buffering hints and retry
\* duration is within the destination's limits, and encrypted streams are
\* those clients put to.
StoredIsDeliverable ==
  fcStream # NoStream =>
    LET c == fcStream.settings
        h == BufferingHints(fcStream.kind, c)
    IN /\ c.prefix = "lambdaKey" => hasProcessor(c, "Lambda") /\ c.dynamic = "on"
       /\ c.prefix = "queryKey" => hasProcessor(c, "MetadataExtraction") /\ c.dynamic = "on"
       /\ c.prefix \in Expressions => c.errors # "none"
       /\ hasProcessor(c, "CloudWatchLogProcessing") => hasProcessor(c, "Decompression")
       /\ c.mode = "Enabled" => c.backup = "ok"
       /\ c.hints.i # Absent /\ c.hints.s # Absent /\ fcStream.kind \notin {"extendedS3",
            "redshift", "iceberg"}
            => h = c.hints
       /\ c.retry # Absent /\ fcStream.kind # "extendedS3" => RetryDuration(fcStream.kind, c) = c.retry
       /\ fcStream.encrypt => fcStream.source = "DirectPut"

\* Over a stream's life its backup is never switched off and its partitioning
\* never changes, whatever partial updates it goes through.
NeverDowngraded ==
  [][fcStream # NoStream /\ fcStream' # NoStream =>
       /\ fcStream.settings.mode \in {"Enabled",
            "AllEvents"} => fcStream'.settings.mode = fcStream.settings.mode
       /\ (fcStream.settings.dynamic = "on") = (fcStream'.settings.dynamic = "on")]_fcvars

\* An accepted update overwrote exactly the settings its author had read.
NoUnseenOverwrite == ~fcLost

\* However tags are added, by the create, later, or both at once, a stream
\* never has more than the limit.
TagsWithinLimit == Cardinality(fcTagged) <= FcTagLimit

\* A stored delivery stream is one the worker can deliver to, an update never
\* overwrites one its caller did not see, and tags stay within their limit.
StreamsHold == StoredIsDeliverable /\ NoUnseenOverwrite /\ TagsWithinLimit

ConfigSpec == ConfigInit /\ [][ConfigNext]_fcvars

-----------------------------------------------------------------------------
(***************************************************************************)
(* What Firehose does to one record before it is delivered: processData's  *)
(* chain of processors and deliverS3Configuration's objects.               *)
(*                                                                         *)
(* Data is kept by its shape: text, a JSON object, several sub-records,    *)
(* a gzip of something, or a CloudWatch Logs envelope.                     *)
(***************************************************************************)

CONSTANTS PrInputs,     \* data a client may put
          PrPlans,      \* processor chains a stream may be configured with
          PrSubRecords  \* sub-records one record may hold (500 in the code)

VARIABLES prInput, prPlan, prDynamic,
          prAt,        \* the processor that runs next
          prRecs,      \* records still on their way: id, data, keys
          prFails,     \* ids that became processing failures
          prDrops,     \* ids the processors left out on purpose
          prObjects,   \* S3 objects written, by the record id in their key
          prPc

prvars == <<prInput, prPlan, prDynamic, prAt, prRecs, prFails, prDrops, prObjects, prPc>>

Rec(id, data, keys) == [id |-> id, data |-> data, keys |-> keys]

ProcessingInit ==
  /\ prInput \in PrInputs /\ prPlan \in PrPlans /\ prDynamic \in BOOLEAN
  /\ prAt = 1 /\ prPc = "process"
  /\ prRecs = <<Rec(<<>>, prInput, FALSE)>>
  /\ prFails = {} /\ prDrops = {} /\ prObjects = {}

(***************************************************************************)
(* The processors: what becomes of one record.                             *)
(***************************************************************************)
Kept(rs)   == [recs |-> rs, fails |-> {}, drops |-> {}]
Failed(r)  == [recs |-> <<>>, fails |-> {r}, drops |-> {}]
Dropped(r) == [recs |-> <<>>, fails |-> {}, drops |-> {r}]

\* deaggregateData: delimited text or a run of JSON objects; more than the
\* limit stays one record.
Seen(data) ==
  IF data.form # "many" THEN <<data>>
  ELSE [i \in {i \in DOMAIN data.parts : i <= PrSubRecords + 1} |-> data.parts[i]]
Splits(mode, data) ==
  mode = "json" => Seen(data) # <<>> /\ \A i \in DOMAIN Seen(data) : Seen(data)[i].form = "json"
RecordDeAggregation(mode, r) ==
  LET parts == IF Len(Seen(r.data)) > PrSubRecords THEN <<r.data>> ELSE Seen(r.data)
      id(i) == IF Len(parts) > 1 THEN Append(r.id, i) ELSE r.id
  IN IF Splits(mode, r.data) THEN Kept([i \in DOMAIN parts |-> Rec(id(i), parts[i], FALSE)])
     ELSE Failed(r)

Decompression(r) ==
  IF r.data.form = "gzip" THEN Kept(<<[r EXCEPT !.data = r.data.inner]>>) ELSE Failed(r)

CloudWatchLogProcessing(r) ==
  CASE r.data.form = "log" /\ r.data.type = "DATA" /\ r.data.events > 0 ->
         Kept(<<[r EXCEPT !.data = [form |-> "text"]]>>)
    [] r.data.form = "log" /\ r.data.type = "CONTROL" -> Dropped(r)
    [] OTHER -> Failed(r)

\* extractMetadata needs one JSON object of non-empty scalars; `keyed` says
\* whether the query finds its partition key in this object.
MetadataExtraction(r) ==
  IF r.data.form = "json" /\ r.data.keyed THEN Kept(<<[r EXCEPT !.keys = TRUE]>>) ELSE Failed(r)

\* invokeProcessingLambda's answer is the function's own: the record, changed
\* or not, dropped, or failed (after the retries of a failing invocation).
Lambda(answer, r) ==
  CASE answer = "Ok" -> Kept(<<r>>)
    [] answer = "Dropped" -> Dropped(r)
    [] OTHER -> Failed(r)

Apply(p, answer, r) ==
  CASE p = "RecordDeAggregation.json" -> RecordDeAggregation("json", r)
    [] p = "RecordDeAggregation.delimited" -> RecordDeAggregation("delimited", r)
    [] p = "Decompression" -> Decompression(r)
    [] p = "CloudWatchLogProcessing" -> CloudWatchLogProcessing(r)
    [] p = "MetadataExtraction" -> MetadataExtraction(r)
    [] p = "Lambda" -> Lambda(answer, r)
    [] OTHER -> Kept(<<r>>)            \* AppendDelimiterToRecord

Join(a, b) == [recs |-> a.recs \o b.recs, fails |-> a.fails \union b.fails, drops |-> a.drops \union b.drops]
Stage(p, answers) ==
  FoldLeft(Join, Kept(<<>>), [i \in DOMAIN prRecs |-> Apply(p, answers[i], prRecs[i])])

\* processData: one processor over all the records there are.
processData ==
  /\ prPc = "process" /\ prAt <= Len(prPlan)
  /\ \E answers \in [DOMAIN prRecs -> IF prPlan[prAt] = "Lambda" THEN {"Ok", "Dropped", "Failed"}
       ELSE {"Ok"}] :
       LET s == Stage(prPlan[prAt], answers)
       IN prRecs' = s.recs /\ prFails' = prFails \union s.fails /\ prDrops' = prDrops \union s.drops
  /\ prAt' = prAt + 1
  /\ UNCHANGED <<prInput, prPlan, prDynamic, prObjects, prPc>>

\* A record without the partition keys is a processing failure of its own.
UnkeyedFails(i) == {prRecs[i]}

\* deliverS3Configuration: without dynamic partitioning the records are joined
\* into one object under the record's own id; with it each has an object of
\* its own, in a prefix evaluatedDynamicS3Prefix makes of its partition keys.
deliverS3Configuration ==
  /\ prPc = "process" /\ prAt > Len(prPlan)
  /\ IF prDynamic
     THEN LET unkeyed == {i \in DOMAIN prRecs : ~prRecs[i].keys}
          IN /\ prFails' = prFails \union UNION {UnkeyedFails(i) : i \in unkeyed}
             /\ prObjects' = {<<prRecs[i].id, <<prRecs[i].data>>>> : i \in DOMAIN prRecs \ unkeyed}
     ELSE /\ prObjects' = IF prRecs = <<>> THEN {}
                          ELSE {<<<<>>, [i \in DOMAIN prRecs |-> prRecs[i].data]>>}
          /\ UNCHANGED prFails
  /\ prPc' = "done"
  /\ UNCHANGED <<prInput, prPlan, prDynamic, prAt, prRecs, prDrops>>

ProcessingNext == processData \/ deliverS3Configuration

(***************************************************************************)
(* Properties                                                              *)
(***************************************************************************)
\* How many sub-records a datum stands for.
Units(data) ==
  CASE data.form = "many" -> Len(data.parts)
    [] data.form = "gzip" -> (IF data.inner.form = "many" THEN Len(data.inner.parts) ELSE 1)
    [] OTHER -> 1
UnitsOf(R) == SumFunction([r \in R |-> Units(r.data)])
UnitsIn(s) == SumFunction([i \in DOMAIN s |-> Units(s[i])])

\* Whatever the chain does, nothing is lost or doubled on the way: the
\* sub-records of the input are in the records under way, among the failures
\* or among the records left out on purpose, each once and under its own id.
SubRecordsConserved ==
  prPc = "process" =>
    LET ids == {prRecs[i].id : i \in DOMAIN prRecs}
    IN /\ UnitsIn([i \in DOMAIN prRecs |-> prRecs[i].data]) + UnitsOf(prFails) + UnitsOf(prDrops) = Units(prInput)
       /\ Cardinality(ids) = Len(prRecs)
       /\ ids \cap {r.id : r \in prFails \union prDrops} = {}

\* Objects never overwrite one another: their keys end in the record's id, and
\* what they hold is, together with the failures and drops, the whole input.
ObjectsHoldTheRest ==
  prPc = "done" =>
    /\ \A a, b \in prObjects : a[1] = b[1] => a = b
    /\ SumFunction([o \in prObjects |-> UnitsIn(o[2])])
         + UnitsOf(prFails) + UnitsOf(prDrops) = Units(prInput)
=============================================================================
