--------------------------- MODULE DeliveryProofs ---------------------------
(***************************************************************************)
(* What a delivery stream's configuration, an SNS topic and its mobile     *)
(* push keep, for any requests, publishers and endpoints.  A stored        *)
(* configuration is one that was validated as a whole; a client's read     *)
(* that still has the stored version has the stored settings; and on a     *)
(* topic the holder of dedupMu has the newest sequence number, which no    *)
(* subscriber that it still owes has seen.                                 *)
(***************************************************************************)
EXTENDS Sns, Streams, FiniteSetTheorems, SequenceTheorems, WellFoundedInduction, TLAPS

(***************************************************************************)
(* The configuration of a delivery stream.                                 *)
(***************************************************************************)

\* The stored record; its parts are not typed.
Stored(s) ==
  /\ s \in [kind : {s.kind}, source : {s.source}, encrypt : BOOLEAN, version : Nat, settings : {s.settings}]
  /\ validateDestination(s.kind, s.settings)
  /\ s.encrypt => s.source = "DirectPut"

\* A client's read: the same settings as long as the version is the same.
Current(seen, s) ==
  seen # NoStream =>
    /\ s # NoStream /\ seen.version \in Nat /\ seen.version <= s.version
    /\ seen.version = s.version => seen.settings = s.settings

ConfigInv ==
  /\ fcStream # NoStream => Stored(fcStream)
  /\ Current(fcSeen, fcStream)
  /\ fcLost = FALSE
  /\ IsFiniteSet(fcTagged) /\ Cardinality(fcTagged) <= FcTagLimit
  /\ fcMake # NoMake => IsFiniteSet(fcMake) /\ Cardinality(fcMake) <= FcTagLimit

LEMMA ConfigStart == ConfigInit => ConfigInv
<1>1. Cardinality({}) <= FcTagLimit /\ IsFiniteSet({})
  BY FS_EmptySet, FcConstants
<1> QED
  BY <1>1 DEF ConfigInit, ConfigInv, Current

LEMMA ConfigStep == ConfigInv /\ [ConfigNext]_fcvars => ConfigInv'
<1> SUFFICES ASSUME ConfigInv, [ConfigNext]_fcvars PROVE ConfigInv'
  OBVIOUS
<1>0. /\ fcStream # NoStream => Stored(fcStream)
      /\ Current(fcSeen, fcStream) /\ fcLost = FALSE
      /\ IsFiniteSet(fcTagged) /\ Cardinality(fcTagged) <= FcTagLimit
      /\ fcMake # NoMake => IsFiniteSet(fcMake) /\ Cardinality(fcMake) <= FcTagLimit
  BY DEF ConfigInv
<1>1. CASE fcCreate
  <2>1. PICK r \in FcCreates :
          /\ validateDestination(r.kind, r.settings) /\ (r.encrypt => r.source = "DirectPut")
          /\ Cardinality(r.tags) <= FcTagLimit /\ fcMake' = r.tags
          /\ fcStream' = [kind |-> r.kind, source |-> r.source, encrypt |-> r.encrypt, version |-> 1,
                          settings |-> r.settings]
    BY <1>1 DEF fcCreate
  <2>2. fcStream = NoStream /\ UNCHANGED <<fcTagged, fcSeen, fcLost>>
    BY <1>1 DEF fcCreate
  <2>3. r.encrypt \in BOOLEAN
    BY FcConstants
  <2>4. Stored(fcStream')
    BY <2>1, <2>3 DEF Stored
  <2>5. IsFiniteSet(fcMake')
    BY <2>1, FcConstants
  <2>6. Current(fcSeen', fcStream')
    BY <1>0, <2>2 DEF Current
  <2> QED
    BY <1>0, <2>1, <2>2, <2>4, <2>5, <2>6 DEF ConfigInv
<1>2. CASE fcPutTags
  BY <1>0, <1>2 DEF fcPutTags, ConfigInv
<1>3. CASE fcDelete
  <2>1. Cardinality({}) <= FcTagLimit /\ IsFiniteSet({})
    BY FS_EmptySet, FcConstants
  <2> QED
    BY <1>0, <1>3, <2>1 DEF fcDelete, ConfigInv, Current
<1>4. CASE DescribeDeliveryStream
  <2>1. fcStream.version \in Nat
    BY <1>0, <1>4 DEF DescribeDeliveryStream, Stored
  <2>2. Current(fcSeen, fcStream)'
    BY <1>4, <2>1 DEF DescribeDeliveryStream, Current
  <2> QED
    BY <1>0, <1>4, <2>2 DEF DescribeDeliveryStream, ConfigInv
<1>5. ASSUME NEW seen \in {fcStream, fcSeen}, UpdateDestination(seen) PROVE ConfigInv'
  <2>1. PICK patch \in FcPatches :
          LET new == copyDest(fcStream.settings, patch)
          IN /\ validateDestination(fcStream.kind, new)
             /\ fcStream' = [fcStream EXCEPT !.settings = new, !.version = @ + 1]
             /\ fcLost' = (fcLost \/ seen.settings # fcStream.settings)
    BY <1>5 DEF UpdateDestination
  <2>2. PICK new, n : /\ new = copyDest(fcStream.settings, patch) /\ n = fcStream.version + 1
    OBVIOUS
  <2>3. /\ seen # NoStream /\ fcStream # NoStream /\ seen.version = fcStream.version
        /\ UNCHANGED <<fcTagged, fcMake, fcSeen>>
    BY <1>5 DEF UpdateDestination, VersionMatches
  <2>4. Stored(fcStream)
    BY <1>0, <2>3
  <2>5. n \in Nat /\ n > fcStream.version /\ fcStream.version \in Nat
    BY <2>2, <2>4 DEF Stored
  <2>6. fcStream' = [fcStream EXCEPT !.settings = new, !.version = n]
    BY <2>1, <2>2
  <2>7. /\ fcStream' \in [kind : {fcStream.kind}, source : {fcStream.source}, encrypt : BOOLEAN,
                          version : {n}, settings : {new}]
        /\ fcStream'.encrypt = fcStream.encrypt
    BY <2>4, <2>6 DEF Stored
  <2>8. Stored(fcStream')
    BY <2>1, <2>2, <2>4, <2>5, <2>7 DEF Stored
  <2>9. seen.settings = fcStream.settings
    BY <1>0, <1>5, <2>3 DEF Current
  <2>10. fcStream' # NoStream
    BY <2>7 DEF NoStream
  <2>11. Current(fcSeen', fcStream')
    BY <1>0, <2>3, <2>5, <2>7, <2>10 DEF Current
  <2> QED
    BY <1>0, <2>1, <2>3, <2>8, <2>9, <2>11 DEF ConfigInv
<1>6. CASE TagDeliveryStream
  <2>1. PICK t : Cardinality(fcTagged \union {t}) <= FcTagLimit /\ fcTagged' = fcTagged \union {t}
    BY <1>6 DEF TagDeliveryStream, TagsAllowed
  <2>2. IsFiniteSet(fcTagged')
    BY <1>0, <2>1, FS_AddElement
  <2> QED
    BY <1>0, <1>6, <2>1, <2>2 DEF TagDeliveryStream, ConfigInv
<1>7. CASE UntagDeliveryStream
  <2>1. PICK t : fcTagged' = fcTagged \ {t}
    BY <1>7 DEF UntagDeliveryStream
  <2>2. IsFiniteSet(fcTagged') /\ Cardinality(fcTagged') <= Cardinality(fcTagged)
    BY <1>0, <2>1, FS_Subset
  <2>3. Cardinality(fcTagged') \in Nat /\ Cardinality(fcTagged) \in Nat
    BY <1>0, <2>2, FS_CardinalityType
  <2>4. Cardinality(fcTagged') <= FcTagLimit
    BY <1>0, <2>2, <2>3, FcConstants
  <2> QED
    BY <1>0, <1>7, <2>2, <2>4 DEF UntagDeliveryStream, ConfigInv
<1>8. ASSUME NEW on \in BOOLEAN, SetEncryption(on) PROVE ConfigInv'
  <2>1. /\ fcStream # NoStream /\ fcStream.source = "DirectPut" /\ fcStream' = [fcStream EXCEPT !.encrypt = on]
        /\ UNCHANGED <<fcTagged, fcMake, fcSeen, fcLost>>
    BY <1>8 DEF SetEncryption
  <2>2. Stored(fcStream)
    BY <1>0, <2>1
  <2>3. /\ fcStream' \in [kind : {fcStream.kind}, source : {fcStream.source}, encrypt : BOOLEAN,
                          version : {fcStream.version}, settings : {fcStream.settings}]
    BY <2>1, <2>2 DEF Stored
  <2>4. Stored(fcStream')
    BY <2>1, <2>2, <2>3 DEF Stored
  <2>5. fcStream' # NoStream
    BY <2>3 DEF NoStream
  <2>6. Current(fcSeen', fcStream')
    BY <1>0, <2>1, <2>3, <2>5 DEF Current
  <2> QED
    BY <1>0, <2>1, <2>4, <2>6 DEF ConfigInv
<1>9. CASE UNCHANGED fcvars
  BY <1>0, <1>9 DEF fcvars, ConfigInv
<1>10. TRUE \in BOOLEAN /\ FALSE \in BOOLEAN
  BY Zenon
<1> QED
  BY <1>1, <1>2, <1>3, <1>4, <1>5, <1>6, <1>7, <1>8, <1>9, <1>10 DEF ConfigNext

\* What was validated as a whole is deliverable.
LEMMA ValidIsDeliverable ==
  ASSUME NEW kind, NEW c, validateDestination(kind, c)
  PROVE  /\ c.prefix = "lambdaKey" => hasProcessor(c, "Lambda") /\ c.dynamic = "on"
         /\ c.prefix = "queryKey" => hasProcessor(c, "MetadataExtraction") /\ c.dynamic = "on"
         /\ c.prefix \in Expressions => c.errors # "none"
         /\ hasProcessor(c, "CloudWatchLogProcessing") => hasProcessor(c, "Decompression")
         /\ c.mode = "Enabled" => c.backup = "ok"
         /\ c.hints.i # Absent /\ c.hints.s # Absent /\ kind \notin {"extendedS3", "redshift", "iceberg"}
              => BufferingHints(kind, c) = c.hints
         /\ c.retry # Absent /\ kind # "extendedS3" => RetryDuration(kind, c) = c.retry
<1> DEFINE kinds == {"http", "search", "serverless", "redshift", "splunk", "snowflake", "iceberg", "extendedS3"}
<1>1. kind \in kinds
  BY DEF validateDestination
<1>2. /\ validateProcessingConfiguration(c) /\ \E own \in BOOLEAN : validateS3Configuration(c, own)
      /\ kind # "extendedS3" => ValidRetry(c)
      /\ c.mode = "Enabled" => validateBackup(c)
      /\ kind = "http" => ValidHints(c.hints, 900, 64)
      /\ kind \in {"search", "serverless"} => ValidHints(c.hints, 900, 100)
      /\ kind = "splunk" => ValidHints(c.hints, 60, 5)
      /\ kind = "snowflake" => ValidHints(c.hints, 900, 128)
  <2>0. TRUE \in BOOLEAN /\ FALSE \in BOOLEAN
    BY Zenon
  <2>1. CASE kind = "http"
    <3>1. validateHTTPEndpointDestination(c)
      BY <2>1 DEF validateDestination
    <3>2. validateProcessingConfiguration(c) /\ validateS3Configuration(c, FALSE) /\ ValidRetry(c) /\ ValidHints(c.hints, 900, 64)
      BY <3>1, Zenon DEF validateHTTPEndpointDestination
    <3>3. c.mode # "Enabled"
      BY <3>1 DEF validateHTTPEndpointDestination
    <3> QED
      BY <2>0, <2>1, <3>2, <3>3
  <2>2. CASE kind = "search"
    <3>1. validateElasticsearchDestination(c)
      BY <2>2 DEF validateDestination
    <3>2. validateProcessingConfiguration(c) /\ validateS3Configuration(c, FALSE) /\ ValidRetry(c) /\ ValidHints(c.hints, 900, 100)
      BY <3>1, Zenon DEF validateElasticsearchDestination
    <3>3. c.mode # "Enabled"
      BY <3>1 DEF validateElasticsearchDestination
    <3> QED
      BY <2>0, <2>2, <3>2, <3>3
  <2>3. CASE kind = "serverless"
    <3>1. validateOpenSearchServerlessDestination(c)
      BY <2>3 DEF validateDestination
    <3>2. validateProcessingConfiguration(c) /\ validateS3Configuration(c, FALSE) /\ ValidRetry(c) /\ ValidHints(c.hints, 900, 100)
      BY <3>1, Zenon DEF validateOpenSearchServerlessDestination
    <3>3. c.mode # "Enabled"
      BY <3>1 DEF validateOpenSearchServerlessDestination
    <3> QED
      BY <2>0, <2>3, <3>2, <3>3
  <2>4. CASE kind = "redshift"
    <3>1. validateRedshiftDestination(c)
      BY <2>4 DEF validateDestination
    <3>2. validateProcessingConfiguration(c) /\ validateS3Configuration(c, FALSE) /\ ValidRetry(c)
      BY <3>1, Zenon DEF validateRedshiftDestination
    <3>3. validateBackup(c)
      BY <3>1 DEF validateRedshiftDestination
    <3> QED
      BY <2>0, <2>4, <3>2, <3>3
  <2>5. CASE kind = "splunk"
    <3>1. validateSplunkDestination(c)
      BY <2>5 DEF validateDestination
    <3>2. validateProcessingConfiguration(c) /\ validateS3Configuration(c, FALSE) /\ ValidRetry(c) /\ ValidHints(c.hints, 60, 5)
      BY <3>1, Zenon DEF validateSplunkDestination
    <3>3. c.mode # "Enabled"
      BY <3>1 DEF validateSplunkDestination
    <3> QED
      BY <2>0, <2>5, <3>2, <3>3
  <2>6. CASE kind = "snowflake"
    <3>1. validateSnowflakeDestination(c)
      BY <2>6 DEF validateDestination
    <3>2. validateProcessingConfiguration(c) /\ validateS3Configuration(c, FALSE) /\ ValidRetry(c) /\ ValidHints(c.hints, 900, 128)
      BY <3>1, Zenon DEF validateSnowflakeDestination
    <3>3. c.mode # "Enabled"
      BY <3>1 DEF validateSnowflakeDestination
    <3> QED
      BY <2>0, <2>6, <3>2, <3>3
  <2>7. CASE kind = "iceberg"
    <3>1. validateIcebergDestination(c)
      BY <2>7 DEF validateDestination
    <3>2. validateProcessingConfiguration(c) /\ validateS3Configuration(c, FALSE) /\ ValidRetry(c)
      BY <3>1, Zenon DEF validateIcebergDestination
    <3>3. c.mode # "Enabled"
      BY <3>1 DEF validateIcebergDestination
    <3> QED
      BY <2>0, <2>7, <3>2, <3>3
  <2>8. CASE kind = "extendedS3"
    <3>1. validateS3Destination(c)
      BY <2>8 DEF validateDestination
    <3>2. validateProcessingConfiguration(c) /\ validateS3Configuration(c, TRUE)
      BY <3>1, Zenon DEF validateS3Destination
    <3>3. validateBackup(c)
      BY <3>1 DEF validateS3Destination
    <3> QED
      BY <2>0, <2>8, <3>2, <3>3
  <2> QED
    BY <1>1, <2>1, <2>2, <2>3, <2>4, <2>5, <2>6, <2>7, <2>8
<1>3. validatePrefixes(c) /\ \E own \in BOOLEAN : validateDynamicPartitioning(c, own)
  BY <1>2 DEF validateS3Configuration
<1>4. /\ c.prefix \in Expressions => c.errors # "none"
      /\ c.prefix \in {"lambdaKey", "queryKey"} => c.dynamic = "on"
  BY <1>3 DEF validatePrefixes
<1>5. /\ c.prefix = "lambdaKey" => hasProcessor(c, "Lambda")
      /\ c.prefix = "queryKey" => hasProcessor(c, "MetadataExtraction")
  BY <1>3, <1>4 DEF validateDynamicPartitioning
<1>6. hasProcessor(c, "CloudWatchLogProcessing") => hasProcessor(c, "Decompression")
  BY <1>2 DEF validateProcessingConfiguration, hasProcessor
<1>7. c.mode = "Enabled" => c.backup = "ok"
  BY <1>2 DEF validateBackup
<1>8. c.hints.i # Absent /\ c.hints.s # Absent /\ kind \notin {"extendedS3", "redshift", "iceberg"}
        => BufferingHints(kind, c) = c.hints
  BY <1>1, <1>2 DEF BufferingHints
<1>9. c.retry # Absent /\ kind # "extendedS3" => RetryDuration(kind, c) = c.retry
  BY <1>2 DEF RetryDuration, ValidRetry
<1> QED
  BY <1>4, <1>5, <1>6, <1>7, <1>8, <1>9

LEMMA ConfigHolds == ConfigInv => StreamsHold
<1>1. ASSUME ConfigInv, fcStream # NoStream PROVE StoredIsDeliverable
  BY <1>1, ValidIsDeliverable DEF ConfigInv, Stored, StoredIsDeliverable
<1> QED
  BY <1>1 DEF ConfigInv, StreamsHold, StoredIsDeliverable, NoUnseenOverwrite, TagsWithinLimit

\* Whatever sequence of creations, partial updates, taggings and deletions led
\* to it, a stored delivery stream is deliverable, no update overwrote what its
\* author had not read, and tags are within their limit (UpdateDestination,
\* validateDestination).
THEOREM ConfigurationsAreSound == ConfigSpec => []StreamsHold
BY ConfigStart, ConfigStep, ConfigHolds, PTL DEF ConfigSpec

(***************************************************************************)
(* Mobile push: one platform application.                                  *)
(***************************************************************************)

\* Requests under way, of which there is one at most while nothing raced.
PlPcs == {"idle", "cascade", "put", "set", "unsubscribe", "subscribe"}
OneAtATime ==
  /\ plReq = [r \in PlReqs |-> plReq[r]] /\ \A r \in PlReqs : plReq[r].pc \in PlPcs
  /\ \A q, r \in PlReqs : q # r => plReq[q].pc = "idle" \/ plReq[r].pc = "idle"

Doing(pc) == \E r \in PlReqs : plReq[r].pc = pc

\* What the request r, under way, knows of the endpoints, and what it has yet
\* to put right.
RequestKnows(r) ==
  LET q == plReq[r]
  IN /\ q.pc = "put" => plApp /\ \A e \in DOMAIN plEnds : plEnds[e].token # q.token
     /\ q.pc \in {"set", "subscribe"} => q.end \in DOMAIN plEnds
PlatformGood ==
  /\ OneAtATime
  /\ plEnds = [e \in DOMAIN plEnds |-> plEnds[e]]
  /\ \A r \in PlReqs : RequestKnows(r)
  /\ DOMAIN plEnds = {} \/ plApp \/ Doing("cascade")
  /\ \A s \in plSubs : s \in DOMAIN plEnds \/ \E r \in PlReqs : plReq[r].pc = "unsubscribe" /\ plReq[r].end = s
  /\ \A a, b \in DOMAIN plEnds : plEnds[a].token = plEnds[b].token => a = b
PlatformInv == ~plRaced => PlatformGood

LEMMA PlatformStart == PlatformInit => PlatformGood
BY DEF PlatformInit, PlatformGood, OneAtATime, PlPcs, NoReq, NoRows, RequestKnows

\* A request begins on a platform where none is under way, or does all it has to
\* do in one step.
LEMMA PlBeginsIs ==
  ASSUME PlatformGood, NEW r \in PlReqs, NEW q, PlBegins(r, q), q.pc \in PlPcs, ~plRaced'
  PROVE  /\ OneAtATime' /\ plReq[r].pc = "idle" /\ plReq'[r] = q
         /\ \A s \in PlReqs : s # r => plReq'[s] = plReq[s]
         /\ q.pc # "idle" => \A s \in PlReqs : plReq[s].pc = "idle"
<1>1. plReq = [s \in PlReqs |-> plReq[s]] /\ (\A s \in PlReqs : plReq[s].pc \in PlPcs)
      /\ \A p, s \in PlReqs : p # s => plReq[p].pc = "idle" \/ plReq[s].pc = "idle"
  BY DEF PlatformGood, OneAtATime
<1>2. plReq' = [plReq EXCEPT ![r] = q] /\ plReq[r].pc = "idle"
  BY DEF PlBegins
<1>3. /\ plReq' = [s \in PlReqs |-> plReq'[s]] /\ plReq'[r] = q
      /\ \A s \in PlReqs : s # r => plReq'[s] = plReq[s]
  BY <1>1, <1>2
<1>4. q.pc # "idle" => \A s \in PlReqs : plReq[s].pc = "idle"
  BY DEF PlBegins, Quiet
<1> QED
  BY <1>1, <1>2, <1>3, <1>4 DEF OneAtATime

\* The request under way ends.
LEMMA PlEndsIs ==
  ASSUME PlatformGood, NEW r \in PlReqs, plReq' = [plReq EXCEPT ![r] = NoReq], plReq[r].pc # "idle"
  PROVE  /\ OneAtATime' /\ \A s \in PlReqs : plReq'[s].pc = "idle"
<1>1. plReq = [s \in PlReqs |-> plReq[s]] /\ (\A s \in PlReqs : plReq[s].pc \in PlPcs)
      /\ \A p, s \in PlReqs : p # s => plReq[p].pc = "idle" \/ plReq[s].pc = "idle"
  BY DEF PlatformGood, OneAtATime
<1>2. NoReq.pc = "idle" /\ "idle" \in PlPcs
  BY DEF NoReq, PlPcs
<1>3. /\ plReq' = [s \in PlReqs |-> plReq'[s]] /\ plReq'[r] = NoReq
      /\ \A s \in PlReqs : s # r => plReq'[s] = plReq[s]
  BY <1>1
<1>4. \A s \in PlReqs : plReq'[s].pc = "idle"
  BY <1>1, <1>2, <1>3
<1> QED
  BY <1>2, <1>3, <1>4 DEF OneAtATime

LEMMA PlatformBegins ==
  ASSUME PlatformGood, NEW r \in PlReqs, ~plRaced',
         \/ CreatePlatformApplication(r) \/ DeletePlatformApplication(r) \/ CreatePlatformEndpoint(r)
         \/ SetEndpointAttributes(r) \/ DeleteEndpoint(r) \/ SubscribeEndpoint(r)
  PROVE  PlatformGood'
<1>0. /\ OneAtATime /\ (\A s \in PlReqs : RequestKnows(s))
      /\ plEnds = [e \in DOMAIN plEnds |-> plEnds[e]]
      /\ DOMAIN plEnds = {} \/ plApp \/ Doing("cascade")
      /\ \A s \in plSubs : s \in DOMAIN plEnds \/ \E t \in PlReqs : plReq[t].pc = "unsubscribe" /\ plReq[t].end = s
      /\ \A a, b \in DOMAIN plEnds : plEnds[a].token = plEnds[b].token => a = b
  BY DEF PlatformGood
<1>1. CASE CreatePlatformApplication(r)
  <2>1. PlBegins(r, NoReq) /\ plApp' = TRUE /\ UNCHANGED <<plEnds, plSubs>> /\ NoReq.pc = "idle" /\ NoReq.pc \in PlPcs
    BY <1>1 DEF CreatePlatformApplication, NoReq, PlPcs
  <2>2. /\ OneAtATime' /\ plReq[r].pc = "idle" /\ plReq'[r] = NoReq
        /\ \A s \in PlReqs : s # r => plReq'[s] = plReq[s]
    BY <2>1, PlBeginsIs
  <2>3. \A s \in PlReqs : RequestKnows(s)'
    BY <1>0, <2>1, <2>2 DEF RequestKnows
  <2>4. \A s \in plSubs' : s \in DOMAIN plEnds' \/ \E t \in PlReqs : plReq'[t].pc = "unsubscribe" /\ plReq'[t].end = s
    BY <1>0, <2>1, <2>2
  <2> QED
    BY <1>0, <2>1, <2>2, <2>3, <2>4 DEF PlatformGood
<1>2. CASE DeletePlatformApplication(r)
  <2>1. PICK q : q = [pc |-> "cascade"]
    OBVIOUS
  <2>2. PlBegins(r, q) /\ plApp' = FALSE /\ UNCHANGED <<plEnds, plSubs>> /\ q.pc = "cascade" /\ q.pc \in PlPcs
    BY <1>2, <2>1 DEF DeletePlatformApplication, PlPcs
  <2>3. /\ OneAtATime' /\ plReq'[r] = q /\ (\A s \in PlReqs : plReq[s].pc = "idle")
        /\ \A s \in PlReqs : s # r => plReq'[s] = plReq[s]
    BY <2>2, PlBeginsIs
  <2>4. \A s \in PlReqs : RequestKnows(s)'
    BY <2>2, <2>3 DEF RequestKnows
  <2> QED
    BY <1>0, <2>2, <2>3, <2>4 DEF PlatformGood, Doing
<1>3. CASE CreatePlatformEndpoint(r)
  <2>1. PICK t, u : /\ plApp /\ SameToken(t) = {} /\ PlBegins(r, [pc |-> "put", token |-> t, user |-> u])
                    /\ UNCHANGED <<plApp, plEnds, plSubs>>
    BY <1>3 DEF CreatePlatformEndpoint
  <2>2. PICK q : q = [pc |-> "put", token |-> t, user |-> u]
    OBVIOUS
  <2>3. PlBegins(r, q) /\ q.pc = "put" /\ q.token = t /\ q.pc \in PlPcs
    BY <2>1, <2>2 DEF PlPcs
  <2>4. /\ OneAtATime' /\ plReq'[r] = q /\ (\A s \in PlReqs : plReq[s].pc = "idle")
        /\ \A s \in PlReqs : s # r => plReq'[s] = plReq[s]
    BY <2>3, PlBeginsIs
  <2>5. \A e \in DOMAIN plEnds : plEnds[e].token # t
    BY <2>1 DEF SameToken
  <2>6. \A s \in PlReqs : RequestKnows(s)'
    BY <2>1, <2>3, <2>4, <2>5 DEF RequestKnows
  <2> QED
    BY <1>0, <2>1, <2>4, <2>6 DEF PlatformGood
<1>4. CASE SetEndpointAttributes(r) \/ SubscribeEndpoint(r)
  <2>1. UNCHANGED <<plApp, plEnds, plSubs>>
    BY <1>4 DEF SetEndpointAttributes, SubscribeEndpoint
  <2>2. PICK q : PlBegins(r, q) /\ q.pc \in {"set", "subscribe"} /\ q.end \in DOMAIN plEnds
    <3>1. CASE SetEndpointAttributes(r)
      <4>1. PICK e, rec : e \in DOMAIN plEnds /\ PlBegins(r, [pc |-> "set", end |-> e, rec |-> rec])
        BY <3>1 DEF SetEndpointAttributes
      <4>2. [pc |-> "set", end |-> e, rec |-> rec].pc = "set" /\ [pc |-> "set", end |-> e, rec |-> rec].end = e
        OBVIOUS
      <4> QED
        BY <4>1, <4>2
    <3>2. CASE SubscribeEndpoint(r)
      <4>1. PICK e \in DOMAIN plEnds : PlBegins(r, [pc |-> "subscribe", end |-> e])
        BY <3>2 DEF SubscribeEndpoint
      <4>2. [pc |-> "subscribe", end |-> e].pc = "subscribe" /\ [pc |-> "subscribe", end |-> e].end = e
        OBVIOUS
      <4> QED
        BY <4>1, <4>2
    <3> QED
      BY <1>4, <3>1, <3>2
  <2>3. q.pc \in PlPcs
    BY <2>2 DEF PlPcs
  <2>4. /\ OneAtATime' /\ plReq'[r] = q /\ (\A s \in PlReqs : plReq[s].pc = "idle")
        /\ \A s \in PlReqs : s # r => plReq'[s] = plReq[s]
    BY <2>2, <2>3, PlBeginsIs
  <2>5. \A s \in PlReqs : RequestKnows(s)'
    BY <2>1, <2>2, <2>4 DEF RequestKnows
  <2> QED
    BY <1>0, <2>1, <2>4, <2>5 DEF PlatformGood, Doing
<1>5. CASE DeleteEndpoint(r)
  <2>1. PICK e \in DOMAIN plEnds : /\ PlBegins(r, [pc |-> "unsubscribe", end |-> e])
                                   /\ plEnds' = Del(plEnds, e) /\ UNCHANGED <<plApp, plSubs>>
    BY <1>5 DEF DeleteEndpoint
  <2>2. PICK q : q = [pc |-> "unsubscribe", end |-> e]
    OBVIOUS
  <2>3. PlBegins(r, q) /\ q.pc = "unsubscribe" /\ q.end = e /\ q.pc \in PlPcs
    BY <2>1, <2>2 DEF PlPcs
  <2>4. /\ OneAtATime' /\ plReq'[r] = q /\ (\A s \in PlReqs : plReq[s].pc = "idle")
        /\ \A s \in PlReqs : s # r => plReq'[s] = plReq[s]
    BY <2>3, PlBeginsIs
  <2>5. \A s \in PlReqs : RequestKnows(s)'
    BY <2>3, <2>4 DEF RequestKnows
  <2>6. plEnds' = [d \in DOMAIN plEnds \ {e} |-> plEnds[d]]
    BY <2>1 DEF Del
  <2> QED
    BY <1>0, <2>1, <2>3, <2>4, <2>5, <2>6 DEF PlatformGood, Doing
<1> QED
  BY <1>1, <1>2, <1>3, <1>4, <1>5

LEMMA PlatformEnds ==
  ASSUME PlatformGood, NEW r \in PlReqs, ~plRaced',
         Cascade(r) \/ PutEndpoint(r) \/ WriteAttributes(r) \/ DropSubs(r) \/ PutSubscription(r)
  PROVE  PlatformGood'
<1>0. /\ OneAtATime /\ RequestKnows(r)
      /\ plEnds = [e \in DOMAIN plEnds |-> plEnds[e]]
      /\ DOMAIN plEnds = {} \/ plApp \/ Doing("cascade")
      /\ \A s \in plSubs : s \in DOMAIN plEnds \/ \E t \in PlReqs : plReq[t].pc = "unsubscribe" /\ plReq[t].end = s
      /\ \A a, b \in DOMAIN plEnds : plEnds[a].token = plEnds[b].token => a = b
  BY DEF PlatformGood
<1>1. plReq' = [plReq EXCEPT ![r] = NoReq] /\ plReq[r].pc # "idle"
  BY DEF Cascade, PutEndpoint, WriteAttributes, DropSubs, PutSubscription, PlEnds
<1>2. OneAtATime' /\ \A s \in PlReqs : plReq'[s].pc = "idle"
  BY <1>1, PlEndsIs
<1>3. \A s \in PlReqs : RequestKnows(s)'
  BY <1>2 DEF RequestKnows
<1>4. \A s \in PlReqs : s # r => plReq[s].pc = "idle"
  BY <1>0, <1>1 DEF OneAtATime
<1>5. plReq[r].pc # "cascade" => DOMAIN plEnds = {} \/ plApp
  BY <1>0, <1>4 DEF Doing
<1>6. plReq[r].pc # "unsubscribe" => plSubs \subseteq DOMAIN plEnds
  BY <1>0, <1>4
<1>7. CASE Cascade(r)
  <2>1. plSubs' = plSubs \ DOMAIN plEnds /\ plEnds' = NoRows /\ plReq[r].pc = "cascade"
    BY <1>7 DEF Cascade
  <2>2. plSubs' = {} /\ DOMAIN plEnds' = {} /\ plEnds' = [e \in DOMAIN plEnds' |-> plEnds'[e]]
    BY <1>6, <2>1 DEF NoRows
  <2> QED
    BY <1>2, <1>3, <2>2 DEF PlatformGood
<1>8. CASE PutEndpoint(r)
  <2>1. PICK rec : rec = [token |-> plReq[r].token, user |-> plReq[r].user, on |-> TRUE]
    OBVIOUS
  <2>2. /\ plReq[r].pc = "put" /\ plEnds' = Put(plEnds, plNext, rec) /\ rec.token = plReq[r].token
        /\ UNCHANGED <<plApp, plSubs>>
    BY <1>8, <2>1 DEF PutEndpoint
  <2>3. plEnds' = [e \in DOMAIN plEnds \union {plNext} |-> IF e = plNext THEN rec ELSE plEnds[e]]
    BY <2>2 DEF Put
  <2>4. plApp /\ \A e \in DOMAIN plEnds : plEnds[e].token # rec.token
    BY <1>0, <2>2 DEF RequestKnows
  <2>5. \A a, b \in DOMAIN plEnds' : plEnds'[a].token = plEnds'[b].token => a = b
    BY <1>0, <2>3, <2>4
  <2>6. plSubs' \subseteq DOMAIN plEnds' /\ plEnds' = [e \in DOMAIN plEnds' |-> plEnds'[e]]
    BY <1>6, <2>2, <2>3
  <2> QED
    BY <1>2, <1>3, <2>2, <2>4, <2>5, <2>6 DEF PlatformGood
<1>9. CASE WriteAttributes(r)
  <2>1. PICK rec, d : rec = plReq[r].rec /\ d = plReq[r].end
    OBVIOUS
  <2>2. /\ plReq[r].pc = "set" /\ plEnds' = Put(plEnds, d, rec) /\ d \in DOMAIN plEnds
        /\ UNCHANGED <<plApp, plSubs>> /\ SameToken(rec.token) \ {d} = {}
    BY <1>0, <1>9, <2>1 DEF WriteAttributes, RequestKnows
  <2>3. plEnds' = [e \in DOMAIN plEnds |-> IF e = d THEN rec ELSE plEnds[e]]
    BY <2>2 DEF Put
  <2>4. \A e \in DOMAIN plEnds : e # d => plEnds[e].token # rec.token
    BY <2>2 DEF SameToken
  <2>5. \A a, b \in DOMAIN plEnds' : plEnds'[a].token = plEnds'[b].token => a = b
    BY <1>0, <2>3, <2>4
  <2>6. plSubs' \subseteq DOMAIN plEnds' /\ plEnds' = [e \in DOMAIN plEnds' |-> plEnds'[e]]
    BY <1>6, <2>2, <2>3
  <2>7. plApp'
    BY <1>5, <2>2
  <2> QED
    BY <1>2, <1>3, <2>2, <2>5, <2>6, <2>7 DEF PlatformGood
<1>10. CASE DropSubs(r)
  <2>1. plReq[r].pc = "unsubscribe" /\ plSubs' = plSubs \ {plReq[r].end} /\ UNCHANGED <<plApp, plEnds>>
    BY <1>10 DEF DropSubs
  <2>2. plSubs' \subseteq DOMAIN plEnds
    BY <1>0, <1>4, <2>1
  <2> QED
    BY <1>0, <1>2, <1>3, <1>5, <2>1, <2>2 DEF PlatformGood
<1>11. CASE PutSubscription(r)
  <2>1. plReq[r].pc = "subscribe" /\ plSubs' = plSubs \union {plReq[r].end} /\ UNCHANGED <<plApp, plEnds>>
    BY <1>11 DEF PutSubscription
  <2>2. plReq[r].end \in DOMAIN plEnds
    BY <1>0, <2>1 DEF RequestKnows
  <2> QED
    BY <1>0, <1>2, <1>3, <1>5, <1>6, <2>1, <2>2 DEF PlatformGood
<1> QED
  BY <1>7, <1>8, <1>9, <1>10, <1>11

LEMMA PlatformStays == ASSUME PlatformNext, ~plRaced' PROVE ~plRaced
BY DEF PlatformNext, CreatePlatformApplication, DeletePlatformApplication, Cascade, CreatePlatformEndpoint,
       PutEndpoint, SetEndpointAttributes, WriteAttributes, DeleteEndpoint, DropSubs, SubscribeEndpoint,
       PutSubscription, PlBegins, PlEnds

LEMMA PlatformStep == PlatformInv /\ [PlatformNext]_plvars => PlatformInv'
<1>1. ASSUME PlatformGood, PlatformNext, ~plRaced' PROVE PlatformGood'
  BY <1>1, PlatformBegins, PlatformEnds DEF PlatformNext
<1>2. ASSUME PlatformGood, UNCHANGED plvars PROVE PlatformGood'
  BY <1>2 DEF plvars, PlatformGood, OneAtATime, RequestKnows, Doing
<1> QED
  BY <1>1, <1>2, PlatformStays DEF PlatformInv, plvars

LEMMA PlatformHolds == PlatformInv => NothingDangles
<1> SUFFICES ASSUME PlatformGood, Quiet
             PROVE  /\ plEnds # NoRows => plApp
                    /\ plSubs \subseteq DOMAIN plEnds
                    /\ \A a, b \in DOMAIN plEnds : plEnds[a].token = plEnds[b].token => a = b
  BY DEF PlatformInv, NothingDangles
<1>1. \A r \in PlReqs : plReq[r].pc = "idle"
  BY DEF Quiet
<1>2. DOMAIN plEnds = {} => plEnds = NoRows
  BY DEF PlatformGood, NoRows
<1>3. plEnds # NoRows => plApp
  BY <1>1, <1>2 DEF PlatformGood, Doing
<1>4. plSubs \subseteq DOMAIN plEnds
  BY <1>1 DEF PlatformGood
<1> QED
  BY <1>3, <1>4 DEF PlatformGood

(***************************************************************************)
(* The topic.                                                              *)
(***************************************************************************)
Keys == {b[i].key : b \in SnBatches, i \in Nat}
Copies == [to : {"endpoint", "dlq", "lost"}, sub : Nat, id : Nat, seq : Nat, key : Keys]
PubRec(q) ==
  [pc : {"idle", "begin", "lock", "number", "list", "deliver"}, batch : {q.batch}, at : Nat,
   fifo : BOOLEAN, id : Nat, seq : Nat, todo : {q.todo}]

TopicTypes ==
  /\ snPub = [p \in SnPublishers |-> snPub[p]] /\ snOwed = [p \in SnPublishers |-> snOwed[p]]
  /\ snSeq \in Nat /\ snNextId \in Nat /\ snNextSub \in Nat
  /\ snGot \in Seq(Copies)
  /\ \A k \in DOMAIN snDedup : snDedup[k] \in [id : Nat, seq : Nat, left : {snDedup[k].left}]

\* A subscription that may be told: it needed no token, or its token came back.
Awaiting(s) == \E c \in SnClients : snReq[c].pc = "token" /\ snReq[c].sub = s
MayBeTold(s) ==
  /\ s \in Nat /\ s < snNextSub
  /\ s \in DOMAIN snPending \/ Awaiting(s) => s \in snConfirmed

\* Ids are not used again; a record that says confirmed, in a row or in a
\* request that will write it, is of a subscription that may be told; a request
\* that has yet to store its token is the only one that knows it; and of a kept
\* confirmation no record knows otherwise.
IsAsk(q) == q \in [pc : {q.pc}, sub : Nat, rec : {q.rec}, rows : {q.rows}]
Holding(c) == snReq[c].pc \in {"token", "put"}
AsksKnown ==
  /\ snReq = [c \in SnClients |-> snReq[c]]
  /\ \A c \in SnClients :
       /\ IsAsk(snReq[c])
       /\ Holding(c) => snReq[c].sub < snNextSub
       /\ snReq[c].pc = "put" /\ snReq[c].rec.confirmed => MayBeTold(snReq[c].sub)
       /\ snReq[c].pc = "token" => ~snReq[c].rec.confirmed /\ snReq[c].sub \notin DOMAIN snPending
  /\ \A c, d \in SnClients :
       c # d /\ snReq[c].pc = "token" /\ snReq[d].pc = "token" => snReq[c].sub # snReq[d].sub
RowsKnown ==
  /\ \A s \in DOMAIN snSubs : s \in Nat /\ s < snNextSub /\ (snSubs[s].confirmed => MayBeTold(s))
  /\ \A t \in DOMAIN snPending : t \in Nat /\ t < snNextSub
KeptKnown ==
  /\ snKept \subseteq DOMAIN snPending
  /\ \A s \in snKept :
       /\ s \in DOMAIN snSubs => snSubs[s].confirmed
       /\ \A c \in SnClients : snReq[c].pc = "put" /\ snReq[c].sub = s => snReq[c].rec.confirmed
KnownSubs == AsksKnown /\ RowsKnown /\ KeptKnown

Told == \A i \in DOMAIN snGot : MayBeTold(snGot[i].sub) /\ snGot[i].seq <= snSeq

Answered ==
  \A a \in snAnswers : a[1] \in DOMAIN snDedup /\ a = <<a[1], snDedup[a[1]].id, snDedup[a[1]].seq>>

\* A publisher: a FIFO publish from its number to its answer has dedupMu, a key
\* nobody used and the newest sequence number; and whom it owes is subscribed,
\* still to be told, or told.
Serving(p) == snPub[p].fifo /\ snPub[p].pc \in {"number", "list", "deliver"}
IsPublisher(p) == snPub[p] \in PubRec(snPub[p]) /\ (snPub[p].pc # "idle" => snPub[p].batch \in SnBatches)
HasLock(p) == Serving(p) => snLock = p /\ Entry(p).key \notin DOMAIN snDedup
HasNumber(p) ==
  snPub[p].pc \in {"list", "deliver"} =>
    IF snPub[p].fifo
      THEN /\ snPub[p].seq = snSeq /\ snSeq > 0
           /\ \A i \in DOMAIN snGot :
                snGot[i].seq = snSeq => snPub[p].pc = "deliver" /\ snGot[i].sub \notin DOMAIN snPub[p].todo
      ELSE snPub[p].seq = 0
Owes(p) ==
  /\ snPub[p].pc \in {"begin", "lock", "number", "list"} =>
       \A s \in snOwed[p] : s \in DOMAIN snSubs /\ Accepts(snSubs[s], Entry(p))
  /\ snPub[p].pc = "deliver" =>
       \A s \in snOwed[p] : \/ s \in DOMAIN snPub[p].todo
                            \/ \E i \in DOMAIN snGot : snGot[i].sub = s /\ snGot[i].id = snPub[p].id
Tells(p) ==
  snPub[p].pc = "deliver" =>
    /\ snPub[p].todo = [s \in DOMAIN snPub[p].todo |-> snPub[p].todo[s]]
    /\ \A s \in DOMAIN snPub[p].todo : MayBeTold(s)
PublisherGood(p) == IsPublisher(p) /\ HasLock(p) /\ HasNumber(p) /\ Owes(p) /\ Tells(p)

TopicInv ==
  /\ TopicTypes /\ KnownSubs /\ Told /\ Answered /\ SubscriberOrder
  /\ \A p \in SnPublishers : PublisherGood(p)

LEMMA TopicStart == SnInit => TopicInv
<1> SUFFICES ASSUME SnInit PROVE TopicInv
  OBVIOUS
<1>1. /\ snPending = NoRows /\ snNextSub = 2 /\ snDedup = NoRows /\ snSeq = 0 /\ snNextId = 1
      /\ snPub = [p \in SnPublishers |-> NoPublish] /\ snGot = <<>> /\ snAnswers = {}
      /\ snOwed = [p \in SnPublishers |-> {}]
  BY DEF SnInit
<1>2. DOMAIN snSubs = {1}
  <2>1. PICK ep : snSubs = Put(NoRows, 1, [ep |-> ep, confirmed |-> TRUE])
    BY DEF SnInit
  <2> QED
    BY <2>1 DEF Put, NoRows
<1>3. DOMAIN NoRows = {}
  BY DEF NoRows
<1>4. KnownSubs
  <2>1. /\ snReq = [c \in SnClients |-> NoAsk] /\ snKept = {} /\ NoAsk.pc = "idle"
        /\ NoAsk \in [pc : {"idle"}, sub : Nat, rec : {NoAsk.rec}, rows : {NoAsk.rows}]
    BY DEF SnInit, NoAsk, Asks
  <2>2. \A c \in SnClients : snReq[c] = NoAsk
    BY <2>1
  <2>3. AsksKnown
    BY <2>1, <2>2 DEF AsksKnown, Holding, IsAsk
  <2>4. RowsKnown
    BY <1>1, <1>2, <1>3, <2>1, <2>2 DEF RowsKnown, MayBeTold, Awaiting
  <2> QED
    BY <2>1, <2>3, <2>4 DEF KnownSubs, KeptKnown
<1>5. snGot \in Seq(Copies) /\ DOMAIN snGot = {}
  BY <1>1, EmptySeq
<1>6. TopicTypes
  BY <1>1, <1>3, <1>5 DEF TopicTypes
<1>7. ASSUME NEW p \in SnPublishers PROVE PublisherGood(p)
  <2>1. snPub[p] = NoPublish
    BY <1>1
  <2>2. PICK b, t : NoPublish = [pc |-> "idle", batch |-> b, at |-> 1, fifo |-> FALSE, id |-> 0, seq |-> 0, todo |-> t]
    BY DEF NoPublish
  <2>3. NoPublish \in PubRec(NoPublish) /\ NoPublish.pc = "idle"
    BY <2>2 DEF PubRec
  <2> QED
    BY <2>1, <2>3 DEF PublisherGood, IsPublisher, HasLock, HasNumber, Owes, Tells, Serving
<1> QED
  BY <1>1, <1>4, <1>5, <1>6, <1>7 DEF TopicInv, Told, Answered, SubscriberOrder

\* One publisher moves; what it shares changes only if nobody else serves.
LEMMA OthersKeep ==
  ASSUME TopicInv, NEW p \in SnPublishers, NEW q, NEW o,
         snPub' = [snPub EXCEPT ![p] = q], snOwed' = [snOwed EXCEPT ![p] = o],
         UNCHANGED <<snSubs, snPending, snNextSub, snReq, snConfirmed, snKept>>,
         snGot' = snGot \/ \E c \in Copies : snGot' = Append(snGot, c) /\ (c.seq = 0 \/ Serving(p)),
         Serving(p) \/ ((snLock = "free" \/ snLock' = snLock) /\ UNCHANGED <<snDedup, snSeq>>)
  PROVE  /\ snPub' = [r \in SnPublishers |-> snPub'[r]] /\ snOwed' = [r \in SnPublishers |-> snOwed'[r]]
         /\ snPub'[p] = q /\ snOwed'[p] = o /\ KnownSubs'
         /\ \A r \in SnPublishers : r # p => PublisherGood(r)'
<1>1. /\ TopicTypes /\ KnownSubs /\ \A r \in SnPublishers : PublisherGood(r)
  BY DEF TopicInv
<1>2. /\ snPub' = [r \in SnPublishers |-> snPub'[r]] /\ snOwed' = [r \in SnPublishers |-> snOwed'[r]]
      /\ snPub'[p] = q /\ snOwed'[p] = o
      /\ \A r \in SnPublishers : r # p => snPub'[r] = snPub[r] /\ snOwed'[r] = snOwed[r]
  BY <1>1 DEF TopicTypes
<1>3. KnownSubs'
  BY <1>1 DEF KnownSubs, AsksKnown, RowsKnown, KeptKnown, Holding, MayBeTold, Awaiting
<1>4. /\ \A i \in DOMAIN snGot : i \in DOMAIN snGot' /\ snGot'[i] = snGot[i]
      /\ ~Serving(p) => \A i \in DOMAIN snGot' : i \in DOMAIN snGot \/ snGot'[i].seq = 0
  <2>1. snGot \in Seq(Copies)
    BY <1>1 DEF TopicTypes
  <2>2. CASE snGot' = snGot
    BY <2>2
  <2>3. ASSUME NEW c \in Copies, snGot' = Append(snGot, c), c.seq = 0 \/ Serving(p)
        PROVE  /\ \A i \in DOMAIN snGot : i \in DOMAIN snGot' /\ snGot'[i] = snGot[i]
               /\ ~Serving(p) => \A i \in DOMAIN snGot' : i \in DOMAIN snGot \/ snGot'[i].seq = 0
    <3>1. DOMAIN snGot = 1 .. Len(snGot) /\ DOMAIN snGot' = 1 .. Len(snGot) + 1 /\ Len(snGot) \in Nat
      BY <2>1, <2>3
    <3>2. \A i \in 1 .. Len(snGot) + 1 : snGot'[i] = IF i <= Len(snGot) THEN snGot[i] ELSE c
      BY <2>1, <2>3
    <3>3. \A i \in DOMAIN snGot : i \in DOMAIN snGot' /\ snGot'[i] = snGot[i]
      BY <3>1, <3>2
    <3>4. \A i \in DOMAIN snGot' : i \in DOMAIN snGot \/ snGot'[i] = c
      BY <3>1, <3>2
    <3> QED
      BY <2>3, <3>3, <3>4
  <2> QED
    BY <2>2, <2>3
<1>5. ASSUME NEW r \in SnPublishers, r # p PROVE PublisherGood(r)'
  <2>1. PublisherGood(r) /\ PublisherGood(p) /\ snPub'[r] = snPub[r] /\ snOwed'[r] = snOwed[r]
    BY <1>1, <1>2, <1>5
  <2>2. Serving(r) => ~Serving(p) /\ snLock = r /\ snLock' = snLock /\ UNCHANGED <<snDedup, snSeq>>
    <3>1. Serving(r) => snLock = r
      BY <2>1 DEF PublisherGood, HasLock
    <3>2. Serving(p) => snLock = p
      BY <2>1 DEF PublisherGood, HasLock
    <3>3. r # "free"
      BY SnConstants
    <3> QED
      BY <1>5, <3>1, <3>2, <3>3
  <2>3. Serving(r)' <=> Serving(r)
    BY <2>1 DEF Serving
  <2>4. Entry(r)' = Entry(r)
    BY <2>1 DEF Entry
  <2>5. IsPublisher(r)'
    BY <2>1 DEF PublisherGood, IsPublisher
  <2>6. HasLock(r)'
    BY <2>1, <2>2, <2>3, <2>4 DEF PublisherGood, HasLock
  <2>7. HasNumber(r)'
    <3>1. HasNumber(r)
      BY <2>1 DEF PublisherGood
    <3>2. CASE snPub[r].pc \in {"list", "deliver"} /\ snPub[r].fifo
      <4>1. Serving(r)
        BY <3>2 DEF Serving
      <4>2. /\ snPub[r].seq = snSeq /\ snSeq > 0
            /\ \A i \in DOMAIN snGot :
                 snGot[i].seq = snSeq => snPub[r].pc = "deliver" /\ snGot[i].sub \notin DOMAIN snPub[r].todo
        BY <3>1, <3>2 DEF HasNumber
      <4>3. \A i \in DOMAIN snGot' :
              snGot'[i].seq = snSeq => snPub[r].pc = "deliver" /\ snGot'[i].sub \notin DOMAIN snPub[r].todo
        BY <1>4, <2>2, <4>1, <4>2
      <4> QED
        BY <2>1, <2>2, <3>2, <4>1, <4>2, <4>3 DEF HasNumber
    <3> QED
      BY <2>1, <3>1, <3>2 DEF HasNumber
  <2>8. Owes(r)'
    BY <1>4, <2>1, <2>4 DEF PublisherGood, Owes
  <2>9. Tells(r)'
    BY <2>1 DEF PublisherGood, Tells, MayBeTold, Awaiting
  <2> QED
    BY <2>5, <2>6, <2>7, <2>8, <2>9 DEF PublisherGood
<1> QED
  BY <1>2, <1>3, <1>5

\* A step that numbers, tells and answers nothing.
LEMMA OnlyOneMoves ==
  ASSUME TopicInv, NEW p \in SnPublishers, NEW q, NEW o,
         snPub' = [snPub EXCEPT ![p] = q], snOwed' = [snOwed EXCEPT ![p] = o],
         UNCHANGED <<snSubs, snPending, snNextSub, snReq, snConfirmed, snKept, snGot, snDedup, snSeq, snNextId, snAnswers>>,
         snLock = "free" \/ snLock' = snLock,
         snPub'[p] = q /\ snOwed'[p] = o => PublisherGood(p)'
  PROVE  TopicInv'
<1>1. TopicTypes /\ Told /\ Answered /\ SubscriberOrder
  BY DEF TopicInv
<1>2. /\ snPub' = [r \in SnPublishers |-> snPub'[r]] /\ snOwed' = [r \in SnPublishers |-> snOwed'[r]]
      /\ snPub'[p] = q /\ snOwed'[p] = o /\ KnownSubs'
      /\ \A r \in SnPublishers : r # p => PublisherGood(r)'
  BY OthersKeep
<1>3. TopicTypes'
  BY <1>1, <1>2 DEF TopicTypes
<1>4. Told' /\ SubscriberOrder'
  BY <1>1 DEF Told, MayBeTold, Awaiting, SubscriberOrder
<1>5. Answered'
  BY <1>1 DEF Answered
<1> QED
  BY <1>2, <1>3, <1>4, <1>5 DEF TopicInv

\* What a publisher's record knows.
LEMMA PublisherIs ==
  ASSUME TopicInv, NEW p \in SnPublishers
  PROVE  /\ PublisherGood(p) /\ snPub[p] \in PubRec(snPub[p])
         /\ snPub[p].pc # "idle" => snPub[p].batch \in SnBatches
         /\ snOwed = [snOwed EXCEPT ![p] = snOwed[p]]
         /\ snPub[p].pc # "idle" => Entry(p).key \in Keys
<1>1. PublisherGood(p) /\ snPub[p] \in PubRec(snPub[p]) /\ TopicTypes
      /\ (snPub[p].pc # "idle" => snPub[p].batch \in SnBatches)
  BY DEF TopicInv, PublisherGood, IsPublisher
<1>2. snOwed = [snOwed EXCEPT ![p] = snOwed[p]]
  BY <1>1 DEF TopicTypes
<1>3. snPub[p].at \in Nat
  BY <1>1 DEF PubRec
<1>4. snPub[p].pc # "idle" => Entry(p).key \in Keys
  BY <1>1, <1>3 DEF Entry, Keys
<1> QED
  BY <1>1, <1>2, <1>4

LEMMA PublishStep == ASSUME TopicInv, NEW p \in SnPublishers, SnPublish(p) PROVE TopicInv'
<1>1. PICK b \in SnBatches :
        /\ snPub' = [snPub EXCEPT ![p] = [NoPublish EXCEPT !.pc = "begin", !.batch = b]]
        /\ snOwed' = [snOwed EXCEPT ![p] = Owed(p, b[1])]
  BY DEF SnPublish
<1>2. PICK q : q = [NoPublish EXCEPT !.pc = "begin", !.batch = b]
  OBVIOUS
<1>3. UNCHANGED <<snSubs, snPending, snNextSub, snReq, snConfirmed, snKept, snGot, snDedup, snSeq, snNextId, snAnswers, snLock>>
  BY DEF SnPublish, snadmin
<1>4. q \in PubRec(q) /\ q.pc = "begin" /\ q.batch = b /\ q.at = 1
  <2>1. PICK n, t : NoPublish = [pc |-> "idle", batch |-> n, at |-> 1, fifo |-> FALSE, id |-> 0, seq |-> 0, todo |-> t]
    BY DEF NoPublish
  <2>2. q = [pc |-> "begin", batch |-> b, at |-> 1, fifo |-> FALSE, id |-> 0, seq |-> 0, todo |-> t]
    BY <1>2, <2>1
  <2> QED
    BY <2>2 DEF PubRec
<1>5. ASSUME snPub'[p] = q, snOwed'[p] = Owed(p, b[1]) PROVE PublisherGood(p)'
  <2>1. Entry(p)' = b[1]
    BY <1>4, <1>5 DEF Entry
  <2>2. \A s \in snOwed'[p] : s \in DOMAIN snSubs' /\ Accepts(snSubs'[s], Entry(p)')
    BY <1>3, <1>5, <2>1 DEF Owed
  <2>3. IsPublisher(p)' /\ HasLock(p)' /\ HasNumber(p)' /\ Tells(p)'
    BY <1>4, <1>5 DEF IsPublisher, HasLock, HasNumber, Tells, Serving
  <2>4. Owes(p)'
    BY <1>4, <1>5, <2>2 DEF Owes
  <2> QED
    BY <2>3, <2>4 DEF PublisherGood
<1> HIDE DEF Owed
<1> QED
  BY <1>1, <1>2, <1>3, <1>5, OnlyOneMoves

LEMMA BeginStep == ASSUME TopicInv, NEW p \in SnPublishers, SnBegin(p) PROVE TopicInv'
<1>0. /\ PublisherGood(p) /\ snPub[p] \in PubRec(snPub[p]) /\ snPub[p].batch \in SnBatches
      /\ snPub[p].pc = "begin" /\ snOwed = [snOwed EXCEPT ![p] = snOwed[p]]
  BY PublisherIs DEF SnBegin
<1>1. PICK f \in BOOLEAN : f = (snFifo /\ snTopic)
  BY Zenon
<1>2. PICK q : q = [snPub[p] EXCEPT !.fifo = f, !.pc = IF f THEN "lock" ELSE "number"]
  OBVIOUS
<1>3. /\ snPub' = [snPub EXCEPT ![p] = q]
      /\ UNCHANGED <<snSubs, snPending, snNextSub, snReq, snConfirmed, snKept, snGot, snDedup, snSeq, snNextId, snAnswers, snLock, snOwed>>
  BY <1>1, <1>2 DEF SnBegin, snadmin
<1>4. /\ q \in PubRec(q) /\ q.pc \in {"lock", "number"} /\ (q.fifo => q.pc = "lock") /\ q.batch = snPub[p].batch
      /\ q.at = snPub[p].at
  BY <1>0, <1>1, <1>2 DEF PubRec
<1>5. ASSUME snPub'[p] = q, snOwed'[p] = snOwed[p] PROVE PublisherGood(p)'
  <2>1. Entry(p)' = Entry(p)
    BY <1>4, <1>5 DEF Entry
  <2>2. IsPublisher(p)' /\ HasLock(p)' /\ HasNumber(p)' /\ Tells(p)'
    BY <1>0, <1>4, <1>5 DEF IsPublisher, HasLock, HasNumber, Tells, Serving
  <2>3. \A s \in snOwed[p] : s \in DOMAIN snSubs /\ Accepts(snSubs[s], Entry(p))
    BY <1>0 DEF PublisherGood, Owes
  <2>4. Owes(p)'
    BY <1>3, <1>4, <1>5, <2>1, <2>3 DEF Owes
  <2> QED
    BY <2>2, <2>4 DEF PublisherGood
<1> QED
  BY <1>0, <1>3, <1>5, OnlyOneMoves

LEMMA ListStep == ASSUME TopicInv, NEW p \in SnPublishers, SnList(p) PROVE TopicInv'
<1>0. /\ PublisherGood(p) /\ snPub[p] \in PubRec(snPub[p]) /\ snPub[p].batch \in SnBatches
      /\ snPub[p].pc = "list" /\ snOwed = [snOwed EXCEPT ![p] = snOwed[p]] /\ KnownSubs
  BY PublisherIs DEF SnList, TopicInv
<1>1. PICK t : t = Listed(Entry(p))
  OBVIOUS
<1>2. PICK q : q = [snPub[p] EXCEPT !.pc = "deliver", !.todo = t]
  OBVIOUS
<1>3. /\ snPub' = [snPub EXCEPT ![p] = q]
      /\ UNCHANGED <<snSubs, snPending, snNextSub, snReq, snConfirmed, snKept, snGot, snDedup, snSeq, snNextId, snAnswers, snLock, snOwed>>
  BY <1>1, <1>2 DEF SnList, snadmin
<1>4. /\ q \in PubRec(q) /\ q.pc = "deliver" /\ q.batch = snPub[p].batch /\ q.at = snPub[p].at /\ q.todo = t
      /\ q.fifo = snPub[p].fifo /\ q.seq = snPub[p].seq /\ q.id = snPub[p].id
  BY <1>0, <1>2 DEF PubRec
<1>5. /\ t = [s \in DOMAIN t |-> t[s]]
      /\ DOMAIN t = {s \in DOMAIN snSubs : Accepts(snSubs[s], Entry(p))}
  BY <1>1 DEF Listed
<1>6. ASSUME snPub'[p] = q, snOwed'[p] = snOwed[p] PROVE PublisherGood(p)'
  <2>1. Entry(p)' = Entry(p) /\ Serving(p)' = Serving(p)
    BY <1>0, <1>4, <1>6 DEF Entry, Serving
  <2>2. IsPublisher(p)' /\ HasLock(p)'
    BY <1>0, <1>3, <1>4, <1>6, <2>1 DEF PublisherGood, IsPublisher, HasLock
  <2>3. HasNumber(p)'
    BY <1>0, <1>3, <1>4, <1>6 DEF PublisherGood, HasNumber
  <2>4. \A s \in snOwed[p] : s \in DOMAIN t
    BY <1>0, <1>5 DEF PublisherGood, Owes
  <2>5. Owes(p)'
    BY <1>3, <1>4, <1>6, <2>4 DEF Owes
  <2>6. \A s \in DOMAIN t : MayBeTold(s)'
    BY <1>0, <1>3, <1>5 DEF KnownSubs, RowsKnown, MayBeTold, Awaiting, Accepts
  <2>7. Tells(p)'
    BY <1>4, <1>5, <1>6, <2>6 DEF Tells
  <2> QED
    BY <2>2, <2>3, <2>5, <2>7 DEF PublisherGood
<1> QED
  BY <1>0, <1>3, <1>6, OnlyOneMoves

\* The next entry of a batch, or the end of it.
LEMMA FinishedGood ==
  ASSUME TopicInv, NEW p \in SnPublishers, snPub[p].pc # "idle", UNCHANGED snSubs,
         snPub'[p] = Finished(p), snOwed'[p] = NextOwed(p)
  PROVE  PublisherGood(p)'
<1>0. snPub[p] \in PubRec(snPub[p]) /\ snPub[p].batch \in SnBatches
  BY PublisherIs
<1>1. CASE snPub[p].at < Len(snPub[p].batch)
  <2>1. PICK a : a = snPub[p].at + 1
    OBVIOUS
  <2>2. PICK q : q = [snPub[p] EXCEPT !.pc = "begin", !.at = a, !.todo = NoRows]
    OBVIOUS
  <2>3. snPub'[p] = q
    BY <1>1, <2>1, <2>2 DEF Finished
  <2>4. a \in Nat
    BY <1>0, <2>1 DEF PubRec
  <2>5. q \in PubRec(q) /\ q.pc = "begin" /\ q.batch = snPub[p].batch /\ q.at = a
    BY <1>0, <2>2, <2>4 DEF PubRec
  <2>6. Entry(p)' = snPub[p].batch[a]
    BY <2>3, <2>5 DEF Entry
  <2>7. snOwed'[p] = Owed(p, snPub[p].batch[a])
    BY <1>1, <2>1 DEF NextOwed
  <2>8. Owes(p)'
    BY <2>3, <2>5, <2>6, <2>7 DEF Owes, Owed
  <2> QED
    BY <1>0, <2>3, <2>5, <2>8 DEF PublisherGood, IsPublisher, HasLock, HasNumber, Tells, Serving
<1>2. CASE ~(snPub[p].at < Len(snPub[p].batch))
  <2>1. snPub'[p] = NoPublish
    BY <1>2 DEF Finished
  <2>2. PICK b, t : NoPublish = [pc |-> "idle", batch |-> b, at |-> 1, fifo |-> FALSE, id |-> 0, seq |-> 0, todo |-> t]
    BY DEF NoPublish
  <2>3. NoPublish \in PubRec(NoPublish) /\ NoPublish.pc = "idle"
    BY <2>2 DEF PubRec
  <2> QED
    BY <2>1, <2>3 DEF PublisherGood, IsPublisher, HasLock, HasNumber, Owes, Tells, Serving
<1> QED
  BY <1>1, <1>2

\* A key in its window is answered from its first message; a new one takes the lock.
LEMMA DedupStep == ASSUME TopicInv, NEW p \in SnPublishers, SnDedup(p) PROVE TopicInv'
<1>0. /\ PublisherGood(p) /\ snPub[p] \in PubRec(snPub[p]) /\ snPub[p].batch \in SnBatches
      /\ snPub[p].pc = "lock" /\ snLock = "free" /\ snOwed = [snOwed EXCEPT ![p] = snOwed[p]]
      /\ UNCHANGED <<snSubs, snPending, snNextSub, snReq, snConfirmed, snKept, snGot, snDedup, snSeq, snNextId>>
  BY PublisherIs DEF SnDedup, snadmin
<1>1. PICK k : k = Entry(p).key
  OBVIOUS
<1>2. CASE k \in DOMAIN snDedup
  <2>1. /\ snPub' = [snPub EXCEPT ![p] = Finished(p)] /\ snOwed' = [snOwed EXCEPT ![p] = NextOwed(p)]
        /\ snAnswers' = snAnswers \union {<<k, snDedup[k].id, snDedup[k].seq>>}
    BY <1>1, <1>2 DEF SnDedup, HeldKey, SnAnswer
  <2>2. TopicTypes /\ Told /\ Answered /\ SubscriberOrder
    BY DEF TopicInv
  <2>3. ~Serving(p)
    BY <1>0 DEF Serving
  <2> DEFINE q == Finished(p)
             o == NextOwed(p)
  <2>4. /\ snPub' = [snPub EXCEPT ![p] = q] /\ snOwed' = [snOwed EXCEPT ![p] = o]
        /\ (snLock = "free" \/ snLock' = snLock) /\ UNCHANGED <<snDedup, snSeq>>
    BY <1>0, <2>1
  <2>5. snPub'[p] = q /\ snOwed'[p] = o => PublisherGood(p)'
    BY <1>0, FinishedGood
  <2> HIDE DEF q, o
  <2>6. /\ snPub' = [r \in SnPublishers |-> snPub'[r]] /\ snOwed' = [r \in SnPublishers |-> snOwed'[r]]
        /\ snPub'[p] = q /\ snOwed'[p] = o /\ KnownSubs'
        /\ \A r \in SnPublishers : r # p => PublisherGood(r)'
    BY <1>0, <2>4, OthersKeep
  <2>7. TopicTypes' /\ Told' /\ SubscriberOrder'
    BY <1>0, <2>2, <2>6 DEF TopicTypes, Told, MayBeTold, Awaiting, SubscriberOrder
  <2>8. Answered'
    BY <1>0, <1>2, <2>1, <2>2 DEF Answered
  <2> QED
    BY <2>5, <2>6, <2>7, <2>8 DEF TopicInv
<1>3. CASE k \notin DOMAIN snDedup
  <2>1. PICK q : q = [snPub[p] EXCEPT !.pc = "number"]
    OBVIOUS
  <2>2. snPub' = [snPub EXCEPT ![p] = q] /\ snLock' = p /\ UNCHANGED <<snAnswers, snOwed>>
    BY <1>1, <1>3, <2>1 DEF SnDedup, HeldKey
  <2>3. /\ q \in PubRec(q) /\ q.pc = "number" /\ q.batch = snPub[p].batch /\ q.at = snPub[p].at
    BY <1>0, <2>1 DEF PubRec
  <2>4. ASSUME snPub'[p] = q, snOwed'[p] = snOwed[p] PROVE PublisherGood(p)'
    <3>1. Entry(p)' = Entry(p)
      BY <2>3, <2>4 DEF Entry
    <3>2. IsPublisher(p)' /\ HasLock(p)' /\ HasNumber(p)' /\ Tells(p)'
      BY <1>0, <1>1, <1>3, <2>2, <2>3, <2>4, <3>1 DEF IsPublisher, HasLock, HasNumber, Tells
    <3>3. \A s \in snOwed[p] : s \in DOMAIN snSubs /\ Accepts(snSubs[s], Entry(p))
      BY <1>0 DEF PublisherGood, Owes
    <3>4. Owes(p)'
      BY <1>0, <2>3, <2>4, <3>1, <3>3 DEF Owes
    <3> QED
      BY <3>2, <3>4 DEF PublisherGood
  <2> QED
    BY <1>0, <2>2, <2>4, OnlyOneMoves
<1> QED
  BY <1>2, <1>3

\* The number is larger than any before it.
LEMMA NumberStep == ASSUME TopicInv, NEW p \in SnPublishers, SnNumber(p) PROVE TopicInv'
<1>0. /\ PublisherGood(p) /\ snPub[p] \in PubRec(snPub[p]) /\ snPub[p].batch \in SnBatches
      /\ snPub[p].pc = "number" /\ snOwed = [snOwed EXCEPT ![p] = snOwed[p]]
      /\ TopicTypes /\ Told /\ Answered /\ SubscriberOrder
  BY PublisherIs DEF SnNumber, TopicInv
<1>1. PICK n, v : n = snNextId /\ v = IF snPub[p].fifo THEN snSeq + 1 ELSE 0
  OBVIOUS
<1>2. PICK q : q = [snPub[p] EXCEPT !.pc = "list", !.id = n, !.seq = v]
  OBVIOUS
<1>3. /\ snPub' = [snPub EXCEPT ![p] = q] /\ snNextId' = snNextId + 1
      /\ snSeq' = IF snPub[p].fifo THEN snSeq + 1 ELSE snSeq
      /\ UNCHANGED <<snSubs, snPending, snNextSub, snReq, snConfirmed, snKept, snGot, snDedup, snAnswers, snLock, snOwed>>
  BY <1>1, <1>2 DEF SnNumber, snadmin, Counted
<1>4. n \in Nat /\ v \in Nat /\ snSeq \in Nat /\ snSeq' \in Nat /\ snNextId' \in Nat /\ snSeq <= snSeq'
  BY <1>0, <1>1, <1>3 DEF TopicTypes
<1>5. /\ q \in PubRec(q) /\ q.pc = "list" /\ q.batch = snPub[p].batch /\ q.at = snPub[p].at
      /\ q.fifo = snPub[p].fifo /\ q.seq = v
  BY <1>0, <1>2, <1>4 DEF PubRec
<1>6. /\ Serving(p) \/ ((snLock = "free" \/ snLock' = snLock) /\ UNCHANGED <<snDedup, snSeq>>)
  BY <1>0, <1>3 DEF Serving
<1>7. /\ snPub' = [r \in SnPublishers |-> snPub'[r]] /\ snOwed' = [r \in SnPublishers |-> snOwed'[r]]
      /\ snPub'[p] = q /\ snOwed'[p] = snOwed[p] /\ KnownSubs'
      /\ \A r \in SnPublishers : r # p => PublisherGood(r)'
  BY <1>0, <1>3, <1>6, OthersKeep
<1>8. \A i \in DOMAIN snGot : snGot[i].seq \in Nat /\ snGot[i].seq <= snSeq
  <2>1. \A i \in DOMAIN snGot : snGot[i] \in Copies
    BY <1>0 DEF TopicTypes
  <2> QED
    BY <1>0, <2>1 DEF Told, Copies
<1>9. PublisherGood(p)'
  <2>1. Entry(p)' = Entry(p) /\ Serving(p)' = Serving(p)
    BY <1>0, <1>5, <1>7 DEF Entry, Serving
  <2>2. IsPublisher(p)' /\ HasLock(p)' /\ Tells(p)'
    BY <1>0, <1>3, <1>5, <1>7, <2>1 DEF PublisherGood, IsPublisher, HasLock, Tells
  <2>3. HasNumber(p)'
    <3>1. CASE snPub[p].fifo
      <4>1. v = snSeq' /\ snSeq' > 0 /\ \A i \in DOMAIN snGot : snGot[i].seq # snSeq'
        BY <1>1, <1>3, <1>4, <1>8, <3>1
      <4> QED
        BY <1>3, <1>5, <1>7, <3>1, <4>1 DEF HasNumber
    <3>2. CASE ~snPub[p].fifo
      BY <1>1, <1>5, <1>7, <3>2 DEF HasNumber
    <3> QED
      BY <3>1, <3>2
  <2>4. \A s \in snOwed[p] : s \in DOMAIN snSubs /\ Accepts(snSubs[s], Entry(p))
    BY <1>0 DEF PublisherGood, Owes
  <2>5. Owes(p)'
    BY <1>3, <1>5, <1>7, <2>1, <2>4 DEF Owes
  <2> QED
    BY <2>2, <2>3, <2>5 DEF PublisherGood
<1>10. TopicTypes'
  BY <1>0, <1>3, <1>4, <1>7 DEF TopicTypes
<1>11. Told'
  <2>1. \A i \in DOMAIN snGot : snGot[i].seq <= snSeq'
    BY <1>4, <1>8
  <2> QED
    BY <1>0, <1>3, <2>1 DEF Told, MayBeTold, Awaiting
<1>12. Answered' /\ SubscriberOrder'
  BY <1>0, <1>3 DEF Answered, SubscriberOrder
<1> QED
  BY <1>7, <1>9, <1>10, <1>11, <1>12 DEF TopicInv

\* Every set of subscription ids that is not empty has a least one.
LEMMA FirstOfMany == ASSUME NEW S \in SUBSET Nat, S # {} PROVE MinOf(S) \in S
<1>1. PICK x \in S : \A y \in S : ~(<<y, x>> \in OpToRel(<, Nat))
  <2>1. S \subseteq Nat
    OBVIOUS
  <2> QED
    BY <2>1, WFMin, NatLessThanWellFounded, Zenon
<1>2. \A y \in S : ~(y < x)
  <2>1. \A y \in S : y \in Nat /\ x \in Nat
    OBVIOUS
  <2> QED
    BY <1>1, <2>1, Zenon DEF OpToRel
<1>3. \A y \in S : x <= y
  BY <1>2
<1> QED
  BY <1>1, <1>3 DEF MinOf

\* One copy for the first subscriber to be told.
LEMMA DeliverIs ==
  ASSUME TopicInv, NEW p \in SnPublishers, SnDeliver(p)
  PROVE  \E s \in DOMAIN snPub[p].todo, c \in Copies :
           /\ snGot' = Append(snGot, c)
           /\ c.sub = s /\ c.id = snPub[p].id /\ c.seq = snPub[p].seq
           /\ snPub' = [snPub EXCEPT ![p] = [snPub[p] EXCEPT !.todo = Del(snPub[p].todo, s)]]
<1>0. /\ PublisherGood(p) /\ snPub[p] \in PubRec(snPub[p]) /\ Entry(p).key \in Keys
      /\ snPub[p].pc = "deliver" /\ snPub[p].todo # NoRows
  BY PublisherIs DEF SnDeliver
<1>1. PICK t : t = snPub[p].todo
  OBVIOUS
<1>2. /\ t = [s \in DOMAIN t |-> t[s]] /\ DOMAIN t \in SUBSET Nat
  BY <1>0, <1>1 DEF PublisherGood, Tells, MayBeTold, Awaiting
<1>3. DOMAIN t # {}
  BY <1>0, <1>1, <1>2 DEF NoRows
<1>4. PICK s : s = MinOf(DOMAIN t)
  OBVIOUS
<1>5. s \in DOMAIN t /\ s \in Nat
  BY <1>2, <1>3, <1>4, FirstOfMany
<1>6. PICK w \in {"endpoint", "dlq", "lost"} :
        /\ snGot' = Append(snGot, Copy(p, s, w))
        /\ snPub' = [snPub EXCEPT ![p] = [snPub[p] EXCEPT !.todo = Del(snPub[p].todo, s)]]
  <2>1. CASE /\ snGot' = Append(snGot, Copy(p, s, "endpoint"))
             /\ snPub' = [snPub EXCEPT ![p].todo = Del(@, s)]
    BY <2>1
  <2>2. CASE /\ snGot' = Append(snGot, Copy(p, s, IF t[s].ep.dlq THEN "dlq" ELSE "lost"))
             /\ snPub' = [snPub EXCEPT ![p].todo = AfterRefusal(p, s)]
    BY <2>2 DEF AfterRefusal
  <2> QED
    BY <1>1, <1>4, <2>1, <2>2 DEF SnDeliver
<1>7. PICK i, v, k : i = snPub[p].id /\ v = snPub[p].seq /\ k = Entry(p).key
  OBVIOUS
<1>8. i \in Nat /\ v \in Nat /\ k \in Keys
  BY <1>0, <1>7 DEF PubRec
<1>9. PICK c : c = [to |-> w, sub |-> s, id |-> i, seq |-> v, key |-> k]
  OBVIOUS
<1>10. c \in Copies /\ c.sub = s /\ c.id = i /\ c.seq = v
  BY <1>5, <1>8, <1>9 DEF Copies
<1>11. Copy(p, s, w) = c
  BY <1>7, <1>9 DEF Copy
<1> QED
  BY <1>1, <1>5, <1>6, <1>7, <1>10, <1>11

LEMMA DeliverStep == ASSUME TopicInv, NEW p \in SnPublishers, SnDeliver(p) PROVE TopicInv'
<1>0. /\ PublisherGood(p) /\ snPub[p] \in PubRec(snPub[p]) /\ snPub[p].batch \in SnBatches
      /\ snPub[p].pc = "deliver" /\ snOwed = [snOwed EXCEPT ![p] = snOwed[p]]
      /\ TopicTypes /\ Told /\ Answered /\ SubscriberOrder
  BY PublisherIs DEF SnDeliver, TopicInv
<1>1. PICK s \in DOMAIN snPub[p].todo, c \in Copies :
        /\ snGot' = Append(snGot, c)
        /\ c.sub = s /\ c.id = snPub[p].id /\ c.seq = snPub[p].seq
        /\ snPub' = [snPub EXCEPT ![p] = [snPub[p] EXCEPT !.todo = Del(snPub[p].todo, s)]]
  BY DeliverIs
<1>2. PICK t, u : t = snPub[p].todo /\ u = Del(t, s)
  OBVIOUS
<1>3. u = [x \in DOMAIN u |-> u[x]] /\ DOMAIN u = DOMAIN t \ {s}
  BY <1>2 DEF Del
<1>4. PICK q : q = [snPub[p] EXCEPT !.todo = u]
  OBVIOUS
<1>5. /\ snPub' = [snPub EXCEPT ![p] = q]
      /\ UNCHANGED <<snSubs, snPending, snNextSub, snReq, snConfirmed, snKept, snDedup, snSeq, snNextId, snAnswers, snLock, snOwed>>
  BY <1>1, <1>2, <1>4 DEF SnDeliver, snadmin
<1>6. /\ q \in PubRec(q) /\ q.pc = "deliver" /\ q.batch = snPub[p].batch /\ q.at = snPub[p].at /\ q.todo = u
      /\ q.fifo = snPub[p].fifo /\ q.seq = snPub[p].seq /\ q.id = snPub[p].id
  BY <1>0, <1>4 DEF PubRec
<1>7. IF snPub[p].fifo
        THEN /\ Serving(p) /\ c.seq = snSeq
             /\ \A i \in DOMAIN snGot : snGot[i].seq = snSeq => snGot[i].sub \notin DOMAIN t
        ELSE c.seq = 0
  BY <1>0, <1>1, <1>2 DEF PublisherGood, HasNumber, Serving
<1>8. /\ snPub' = [r \in SnPublishers |-> snPub'[r]] /\ snOwed' = [r \in SnPublishers |-> snOwed'[r]]
      /\ snPub'[p] = q /\ snOwed'[p] = snOwed[p] /\ KnownSubs'
      /\ \A r \in SnPublishers : r # p => PublisherGood(r)'
  <2>1. Serving(p) \/ ((snLock = "free" \/ snLock' = snLock) /\ UNCHANGED <<snDedup, snSeq>>)
    BY <1>5
  <2>2. c.seq = 0 \/ Serving(p)
    BY <1>7
  <2> QED
    BY <1>0, <1>1, <1>5, <2>1, <2>2, OthersKeep
<1>9. snGot \in Seq(Copies) /\ snSeq \in Nat
  BY <1>0 DEF TopicTypes
<1>10. PICK n \in Nat : n = Len(snGot)
  BY <1>9
<1>11. /\ DOMAIN snGot = 1 .. n /\ DOMAIN snGot' = 1 .. n + 1 /\ snGot' \in Seq(Copies)
       /\ (\A i \in 1 .. n : snGot'[i] = snGot[i] /\ snGot[i] \in Copies) /\ snGot'[n + 1] = c
  BY <1>1, <1>9, <1>10
<1>12. \A i \in DOMAIN snGot' : (i \in DOMAIN snGot /\ snGot'[i] = snGot[i]) \/ (i = n + 1 /\ snGot'[i] = c)
  BY <1>11
<1>13. PublisherGood(p)'
  <2>1. Entry(p)' = Entry(p) /\ Serving(p)' = Serving(p)
    BY <1>0, <1>6, <1>8 DEF Entry, Serving
  <2>2. IsPublisher(p)' /\ HasLock(p)'
    BY <1>0, <1>5, <1>6, <1>8, <2>1 DEF PublisherGood, IsPublisher, HasLock
  <2>3. HasNumber(p)'
    <3>1. CASE snPub[p].fifo
      <4>1. \A i \in DOMAIN snGot' : snGot'[i].seq = snSeq => snGot'[i].sub \notin DOMAIN u
        BY <1>1, <1>3, <1>7, <1>12, <3>1
      <4>2. snPub[p].seq = snSeq /\ snSeq > 0
        BY <1>0, <3>1 DEF PublisherGood, HasNumber
      <4> QED
        BY <1>5, <1>6, <1>8, <3>1, <4>1, <4>2 DEF HasNumber
    <3>2. CASE ~snPub[p].fifo
      BY <1>1, <1>6, <1>7, <1>8, <3>2 DEF HasNumber
    <3> QED
      BY <3>1, <3>2
  <2>4. \A x \in snOwed[p] :
          \/ x \in DOMAIN u
          \/ \E i \in DOMAIN snGot' : snGot'[i].sub = x /\ snGot'[i].id = snPub[p].id
    <3> SUFFICES ASSUME NEW x \in snOwed[p], x \notin DOMAIN u
                 PROVE  \E i \in DOMAIN snGot' : snGot'[i].sub = x /\ snGot'[i].id = snPub[p].id
      OBVIOUS
    <3>1. x = s \/ \E i \in DOMAIN snGot : snGot[i].sub = x /\ snGot[i].id = snPub[p].id
      BY <1>0, <1>2, <1>3 DEF PublisherGood, Owes
    <3>2. CASE x = s
      <4>1. n + 1 \in DOMAIN snGot'
        BY <1>11
      <4> QED
        BY <1>1, <1>11, <3>2, <4>1
    <3>3. CASE \E i \in DOMAIN snGot : snGot[i].sub = x /\ snGot[i].id = snPub[p].id
      <4>1. \A i \in DOMAIN snGot : i \in DOMAIN snGot' /\ snGot'[i] = snGot[i]
        BY <1>11
      <4> QED
        BY <3>3, <4>1
    <3> QED
      BY <3>1, <3>2, <3>3
  <2>5. Owes(p)'
    BY <1>5, <1>6, <1>8, <2>4 DEF Owes
  <2>6. \A x \in DOMAIN u : MayBeTold(x)'
    BY <1>0, <1>2, <1>3, <1>5 DEF PublisherGood, Tells, MayBeTold, Awaiting
  <2>7. Tells(p)'
    BY <1>3, <1>6, <1>8, <2>6 DEF Tells
  <2> QED
    BY <2>2, <2>3, <2>5, <2>7 DEF PublisherGood
<1>14. TopicTypes' /\ Answered'
  BY <1>0, <1>5, <1>8, <1>11 DEF TopicTypes, Answered
<1>15. \A i \in DOMAIN snGot : MayBeTold(snGot[i].sub) /\ snGot[i].seq <= snSeq /\ snGot[i].seq \in Nat
  BY <1>0, <1>11 DEF Told, Copies
<1>16. Told'
  <2>1. MayBeTold(c.sub) /\ c.seq <= snSeq
    BY <1>0, <1>1, <1>7, <1>9 DEF PublisherGood, Tells
  <2>2. \A i \in DOMAIN snGot' : MayBeTold(snGot'[i].sub) /\ snGot'[i].seq <= snSeq
    BY <1>12, <1>15, <2>1
  <2> QED
    BY <1>5, <2>2 DEF Told, MayBeTold, Awaiting
<1>17. SubscriberOrder'
  <2> SUFFICES ASSUME NEW i \in DOMAIN snGot', NEW j \in DOMAIN snGot', i < j, snGot'[i].sub = snGot'[j].sub,
                      snGot'[i].seq > 0, snGot'[j].seq > 0
               PROVE  snGot'[i].seq < snGot'[j].seq
    BY DEF SubscriberOrder
  <2>1. i \in DOMAIN snGot /\ snGot'[i] = snGot[i]
    BY <1>11
  <2>2. CASE j \in DOMAIN snGot
    BY <1>0, <1>12, <1>11, <2>1, <2>2 DEF SubscriberOrder
  <2>3. CASE snGot'[j] = c
    <3>1. snPub[p].fifo /\ c.seq = snSeq
      BY <1>7, <2>3
    <3>2. snGot[i].seq # snSeq
      BY <1>1, <1>2, <1>7, <2>1, <2>3, <3>1
    <3> QED
      BY <1>9, <1>15, <2>1, <2>3, <3>1, <3>2
  <2> QED
    BY <1>12, <2>2, <2>3
<1> QED
  BY <1>8, <1>13, <1>14, <1>16, <1>17 DEF TopicInv

\* The answer of a publish that told everyone.
LEMMA DoneStep == ASSUME TopicInv, NEW p \in SnPublishers, SnDone(p) PROVE TopicInv'
<1>0. /\ PublisherGood(p) /\ snPub[p] \in PubRec(snPub[p])
      /\ snPub[p].pc = "deliver" /\ UNCHANGED <<snSubs, snPending, snNextSub, snReq, snConfirmed, snKept, snGot, snSeq, snNextId>>
      /\ TopicTypes /\ Told /\ Answered /\ SubscriberOrder
  BY PublisherIs DEF SnDone, TopicInv, snadmin
<1>1. PICK k, n, v : k = Entry(p).key /\ n = snPub[p].id /\ v = snPub[p].seq
  OBVIOUS
<1>2. n \in Nat /\ v \in Nat
  BY <1>0, <1>1 DEF PubRec
<1>3. PICK d : d = [id |-> n, seq |-> v, left |-> SnWindow]
  OBVIOUS
<1>4. d \in [id : Nat, seq : Nat, left : {d.left}] /\ d.id = n /\ d.seq = v
  BY <1>2, <1>3
<1> DEFINE q == Finished(p)
           o == NextOwed(p)
<1>5. snPub' = [snPub EXCEPT ![p] = q] /\ snOwed' = [snOwed EXCEPT ![p] = o]
  BY DEF SnDone
<1>6. snPub'[p] = q /\ snOwed'[p] = o => PublisherGood(p)'
  BY <1>0, FinishedGood
<1> HIDE DEF q, o
<1>7. CASE snPub[p].fifo
  <2>1. Serving(p) /\ k \notin DOMAIN snDedup
    BY <1>0, <1>1, <1>7 DEF PublisherGood, HasLock, Serving
  <2>2. /\ snDedup' = [x \in DOMAIN snDedup \union {k} |-> IF x = k THEN d ELSE snDedup[x]]
        /\ snAnswers' = snAnswers \union {<<k, n, v>>}
    BY <1>1, <1>3, <1>7 DEF SnDone, Remembered, SnAnswer, Put
  <2>3. \A a \in snAnswers' : a[1] \in DOMAIN snDedup' /\ a = <<a[1], snDedup'[a[1]].id, snDedup'[a[1]].seq>>
    <3> SUFFICES ASSUME NEW a \in snAnswers'
                 PROVE  a[1] \in DOMAIN snDedup' /\ a = <<a[1], snDedup'[a[1]].id, snDedup'[a[1]].seq>>
      OBVIOUS
    <3>1. CASE a \in snAnswers
      <4>1. a[1] \in DOMAIN snDedup /\ a = <<a[1], snDedup[a[1]].id, snDedup[a[1]].seq>>
        BY <1>0, <3>1 DEF Answered
      <4>2. a[1] \in DOMAIN snDedup' /\ snDedup'[a[1]] = snDedup[a[1]]
        BY <2>1, <2>2, <4>1
      <4> QED
        BY <4>1, <4>2
    <3>2. CASE a = <<k, n, v>>
      <4>1. a[1] = k /\ k \in DOMAIN snDedup' /\ snDedup'[k] = d
        BY <2>2, <3>2
      <4> QED
        BY <1>4, <3>2, <4>1
    <3> QED
      BY <2>2, <3>1, <3>2
  <2>4. \A x \in DOMAIN snDedup' : snDedup'[x] \in [id : Nat, seq : Nat, left : {snDedup'[x].left}]
    <3>1. \A x \in DOMAIN snDedup' : (x \in DOMAIN snDedup /\ snDedup'[x] = snDedup[x]) \/ snDedup'[x] = d
      BY <2>2
    <3> QED
      BY <1>0, <1>4, <3>1 DEF TopicTypes
  <2>5. /\ snPub' = [r \in SnPublishers |-> snPub'[r]] /\ snOwed' = [r \in SnPublishers |-> snOwed'[r]]
        /\ snPub'[p] = q /\ snOwed'[p] = o /\ KnownSubs'
        /\ \A r \in SnPublishers : r # p => PublisherGood(r)'
    BY <1>0, <1>5, <2>1, OthersKeep
  <2>6. TopicTypes' /\ Told' /\ SubscriberOrder'
    BY <1>0, <2>4, <2>5 DEF TopicTypes, Told, MayBeTold, Awaiting, SubscriberOrder
  <2> QED
    BY <1>6, <2>3, <2>5, <2>6 DEF TopicInv, Answered
<1>8. CASE ~snPub[p].fifo
  <2>1. UNCHANGED <<snDedup, snLock, snAnswers>>
    BY <1>8 DEF SnDone, Remembered
  <2> QED
    BY <1>0, <1>5, <1>6, <2>1, OnlyOneMoves
<1> QED
  BY <1>7, <1>8

\* A change of the topic or of its subscriptions, as publishers see it.
LEMMA AdminKeeps ==
  ASSUME TopicInv, UNCHANGED sncore, KnownSubs', snNextSub' \in Nat,
         snOwed' = [p \in SnPublishers |-> snOwed'[p]],
         \A p \in SnPublishers : \A s \in snOwed'[p] :
           /\ s \in snOwed[p]
           /\ s \in DOMAIN snSubs /\ Accepts(snSubs[s], Entry(p))
                => s \in DOMAIN snSubs' /\ Accepts(snSubs'[s], Entry(p)),
         \A s : MayBeTold(s) => MayBeTold(s)'
  PROVE  TopicInv'
<1>1. /\ TopicTypes /\ Told /\ Answered /\ SubscriberOrder /\ \A p \in SnPublishers : PublisherGood(p)
  BY DEF TopicInv
<1>2. UNCHANGED <<snDedup, snSeq, snNextId, snLock, snPub, snGot, snAnswers>>
  BY DEF sncore
<1>3. TopicTypes' /\ Answered' /\ SubscriberOrder'
  BY <1>1, <1>2 DEF TopicTypes, Answered, SubscriberOrder
<1>4. Told'
  BY <1>1, <1>2 DEF Told
<1>5. ASSUME NEW p \in SnPublishers PROVE PublisherGood(p)'
  <2>1. IsPublisher(p) /\ HasLock(p) /\ HasNumber(p) /\ Owes(p) /\ Tells(p)
    BY <1>1 DEF PublisherGood
  <2>2. Entry(p)' = Entry(p) /\ Serving(p)' = Serving(p)
    BY <1>2 DEF Entry, Serving
  <2>3. IsPublisher(p)' /\ HasLock(p)' /\ HasNumber(p)'
    BY <1>2, <2>1, <2>2 DEF IsPublisher, HasLock, HasNumber
  <2>4. Owes(p)'
    <3>1. CASE snPub[p].pc \in {"begin", "lock", "number", "list"}
      <4>1. \A s \in snOwed'[p] : s \in DOMAIN snSubs /\ Accepts(snSubs[s], Entry(p))
        BY <2>1, <3>1 DEF Owes
      <4>2. \A s \in snOwed'[p] : s \in DOMAIN snSubs' /\ Accepts(snSubs'[s], Entry(p))
        BY <4>1
      <4>3. \A s \in snOwed'[p] : s \in DOMAIN snSubs' /\ Accepts(snSubs[s], Entry(p))'
        BY <2>2, <4>2 DEF Accepts
      <4> QED
        BY <1>2, <2>2, <3>1, <4>3 DEF Owes
    <3>2. CASE snPub[p].pc \notin {"begin", "lock", "number", "list"}
      BY <1>2, <2>1, <3>2 DEF Owes
    <3> QED
      BY <3>1, <3>2
  <2>5. Tells(p)'
    BY <1>2, <2>1 DEF Tells
  <2> QED
    BY <2>3, <2>4, <2>5 DEF PublisherGood
<1> QED
  BY <1>3, <1>4, <1>5 DEF TopicInv

\* One request goes on; it does not come to hold a token.
LEMMA OneAsks ==
  ASSUME KnownSubs, NEW c \in SnClients, NEW q, IsAsk(q), snReq' = [snReq EXCEPT ![c] = q], q.pc # "token",
         snNextSub \in Nat, UNCHANGED snNextSub, DOMAIN snPending \subseteq DOMAIN snPending', snConfirmed' = snConfirmed,
         \A s \in DOMAIN snPending' : s \notin DOMAIN snPending => snReq[c].pc = "token" /\ s = snReq[c].sub,
         q.pc = "put" => q.sub < snNextSub /\ (q.rec.confirmed => MayBeTold(q.sub))
  PROVE  /\ snReq'[c] = q /\ (\A d \in SnClients : d # c => snReq'[d] = snReq[d])
         /\ AsksKnown' /\ \A s : MayBeTold(s) => MayBeTold(s)'
<1>1. AsksKnown
  BY DEF KnownSubs
<1>2. /\ snReq' = [d \in SnClients |-> snReq'[d]] /\ snReq'[c] = q
      /\ \A d \in SnClients : d # c => snReq'[d] = snReq[d]
  BY <1>1 DEF AsksKnown
<1>3. \A s : Awaiting(s)' => Awaiting(s)
  BY <1>2 DEF Awaiting
<1>4. \A s : MayBeTold(s) => MayBeTold(s)'
  BY <1>3 DEF MayBeTold, Awaiting
<1>5. ASSUME NEW d \in SnClients, d # c
      PROVE  /\ IsAsk(snReq[d]) /\ (Holding(d) => snReq[d].sub < snNextSub)
             /\ snReq[d].pc = "put" /\ snReq[d].rec.confirmed => MayBeTold(snReq[d].sub)'
             /\ snReq[d].pc = "token" => ~snReq[d].rec.confirmed /\ snReq[d].sub \notin DOMAIN snPending'
  <2>0. PICK x : x = snReq[d].sub
    OBVIOUS
  <2>1. /\ IsAsk(snReq[d]) /\ (Holding(d) => x < snNextSub)
        /\ snReq[d].pc = "put" /\ snReq[d].rec.confirmed => MayBeTold(x)
        /\ snReq[d].pc = "token" => ~snReq[d].rec.confirmed /\ x \notin DOMAIN snPending
    BY <1>1, <2>0 DEF AsksKnown
  <2>2. snReq[d].pc = "token" => x \notin DOMAIN snPending'
    BY <1>1, <1>5, <2>0, <2>1 DEF AsksKnown
  <2>3. snReq'[d] = snReq[d]
    BY <1>2, <1>5
  <2>4. MayBeTold(x)' => MayBeTold(snReq[d].sub)'
    BY <2>0, <2>3 DEF MayBeTold, Awaiting
  <2> QED
    BY <1>4, <2>0, <2>1, <2>2, <2>4
<1>6. \A d, e \in SnClients :
        d # e /\ snReq'[d].pc = "token" /\ snReq'[e].pc = "token" => snReq'[d].sub # snReq'[e].sub
  BY <1>1, <1>2 DEF AsksKnown
<1>7. q.pc = "put" /\ q.rec.confirmed => MayBeTold(snReq[c].sub)'
  <2>1. q.pc = "put" /\ q.rec.confirmed => MayBeTold(q.sub)'
    BY <1>4
  <2> QED
    BY <1>2, <2>1 DEF MayBeTold, Awaiting
<1>8. AsksKnown'
  <2> SUFFICES ASSUME NEW d \in SnClients
               PROVE  /\ IsAsk(snReq'[d]) /\ (Holding(d)' => snReq'[d].sub < snNextSub')
                      /\ snReq'[d].pc = "put" /\ snReq'[d].rec.confirmed => MayBeTold(snReq[d].sub)'
                      /\ snReq'[d].pc = "token" => ~snReq'[d].rec.confirmed /\ snReq'[d].sub \notin DOMAIN snPending'
    BY <1>2, <1>6 DEF AsksKnown, IsAsk
  <2>1. CASE d = c
    BY <1>2, <1>7, <2>1 DEF Holding
  <2>2. CASE d # c
    <3>1. snReq'[d] = snReq[d]
      BY <1>2, <2>2
    <3> QED
      BY <1>5, <2>2, <3>1 DEF Holding
  <2> QED
    BY <2>1, <2>2
<1> QED
  BY <1>2, <1>4, <1>8

LEMMA NoAskIs == NoAsk.pc = "idle" /\ IsAsk(NoAsk)
BY DEF NoAsk, Asks, IsAsk

LEMMA AskIs ==
  ASSUME NEW pc, NEW sub \in Nat, NEW rec, NEW rows, NEW q, q = Asks(pc, sub, rec, rows)
  PROVE  IsAsk(q) /\ q.pc = pc /\ q.sub = sub /\ q.rec = rec
BY DEF Asks, IsAsk

\* What a request does before it writes or removes a row.
LEMMA AskStep ==
  ASSUME TopicInv, NEW c \in SnClients,
         \/ Subscribe(c) \/ SetSubscriptionAttributes(c) \/ Unsubscribe(c) \/ DeleteTopic(c) \/ DeleteTopicLists(c)
  PROVE  TopicInv'
<1>0. KnownSubs /\ AsksKnown /\ RowsKnown /\ KeptKnown /\ snNextSub \in Nat /\ snOwed = [p \in SnPublishers |-> snOwed[p]]
  BY DEF TopicInv, TopicTypes, KnownSubs
<1>1. /\ UNCHANGED <<snPending, snNextSub, snConfirmed, snKept, snSubs, snOwed>> /\ UNCHANGED sncore
  BY DEF Subscribe, SetSubscriptionAttributes, Unsubscribe, DeleteTopic, DeleteTopicLists, rowsKept
<1>2. PICK q : /\ IsAsk(q) /\ snReq' = [snReq EXCEPT ![c] = q] /\ q.pc # "token"
               /\ q.pc = "put" => /\ q.sub < snNextSub /\ (q.rec.confirmed => MayBeTold(q.sub))
                                  /\ q.sub \in snKept => q.rec.confirmed
  <2>1. CASE Subscribe(c)
    <3>1. PICK rec : snReq' = [snReq EXCEPT ![c] = Asks("look", 0, rec, {})]
      BY <2>1 DEF Subscribe, Begins, Asked
    <3>2. PICK q : q = Asks("look", 0, rec, {})
      OBVIOUS
    <3>3. IsAsk(q) /\ q.pc = "look"
      BY <3>2, AskIs
    <3> QED
      BY <3>1, <3>2, <3>3
  <2>2. CASE SetSubscriptionAttributes(c)
    <3>0. PICK s \in DOMAIN snSubs : \E ep : Begins(c, Asks("put", s, [ep |-> ep, confirmed |-> snSubs[s].confirmed], {}))
      BY <2>2 DEF SetSubscriptionAttributes
    <3>1. PICK ep : Begins(c, Asks("put", s, [ep |-> ep, confirmed |-> snSubs[s].confirmed], {}))
      BY <3>0
    <3>2. s \in Nat /\ s < snNextSub /\ (snSubs[s].confirmed => MayBeTold(s)) /\ (s \in snKept => snSubs[s].confirmed)
      BY <1>0 DEF RowsKnown, KeptKnown
    <3> DEFINE q == Asks("put", s, [ep |-> ep, confirmed |-> snSubs[s].confirmed], {})
    <3>3. /\ IsAsk(q) /\ q.pc = "put" /\ q.sub = s /\ q.rec.confirmed = snSubs[s].confirmed
      BY <3>2 DEF Asks, IsAsk
    <3>4. snReq' = [snReq EXCEPT ![c] = q]
      BY <3>1 DEF Begins, Asked
    <3> HIDE DEF q
    <3> QED
      BY <3>2, <3>3, <3>4
  <2>3. CASE Unsubscribe(c)
    <3>1. PICK s : snReq' = [snReq EXCEPT ![c] = Asks("drop", 0, NoRecord, {s})]
      BY <2>3 DEF Unsubscribe, Begins, Asked
    <3>2. PICK q : q = Asks("drop", 0, NoRecord, {s})
      OBVIOUS
    <3>3. IsAsk(q) /\ q.pc = "drop"
      BY <3>2, AskIs
    <3> QED
      BY <3>1, <3>2, <3>3
  <2>4. CASE DeleteTopic(c)
    <3>1. PICK q : q = Asks("list", 0, NoRecord, {})
      OBVIOUS
    <3>2. IsAsk(q) /\ q.pc = "list" /\ snReq' = [snReq EXCEPT ![c] = q]
      BY <2>4, <3>1, AskIs DEF DeleteTopic, Begins, Asked
    <3> QED
      BY <3>2
  <2>5. CASE DeleteTopicLists(c)
    <3>1. PICK q : q = Asks("drop", 0, NoRecord, DOMAIN snSubs)
      OBVIOUS
    <3>2. IsAsk(q) /\ q.pc = "drop" /\ snReq' = [snReq EXCEPT ![c] = q]
      BY <2>5, <3>1, AskIs DEF DeleteTopicLists, Asked
    <3> QED
      BY <3>2
  <2> QED
    BY <2>1, <2>2, <2>3, <2>4, <2>5
<1>3. /\ snReq'[c] = q /\ (\A d \in SnClients : d # c => snReq'[d] = snReq[d])
      /\ AsksKnown' /\ \A s : MayBeTold(s) => MayBeTold(s)'
  BY <1>0, <1>1, <1>2, OneAsks
<1>4. RowsKnown'
  BY <1>0, <1>1, <1>3 DEF RowsKnown
<1>5. KeptKnown'
  BY <1>0, <1>1, <1>2, <1>3 DEF KeptKnown
<1> QED
  BY <1>0, <1>1, <1>3, <1>4, <1>5, AdminKeeps DEF KnownSubs

\* A new id: nobody has it.
LEMMA LooksStep == ASSUME TopicInv, NEW c \in SnClients, SubscribeLooks(c) PROVE TopicInv'
<1>0. KnownSubs /\ AsksKnown /\ RowsKnown /\ KeptKnown /\ snNextSub \in Nat /\ snOwed = [p \in SnPublishers |-> snOwed[p]]
  BY DEF TopicInv, TopicTypes, KnownSubs
<1>1. UNCHANGED <<snPending, snConfirmed, snKept, snSubs, snOwed>> /\ UNCHANGED sncore
  BY DEF SubscribeLooks, rowsKept
<1>2. CASE snReq' = [snReq EXCEPT ![c] = NoAsk] /\ UNCHANGED snNextSub
  <2>1. /\ snReq'[c] = NoAsk /\ (\A d \in SnClients : d # c => snReq'[d] = snReq[d])
        /\ AsksKnown' /\ \A s : MayBeTold(s) => MayBeTold(s)'
    BY <1>0, <1>1, <1>2, NoAskIs, OneAsks
  <2>2. RowsKnown' /\ KeptKnown'
    BY <1>0, <1>1, <1>2, <2>1, NoAskIs DEF RowsKnown, KeptKnown
  <2> QED
    BY <1>0, <1>1, <1>2, <2>1, <2>2, AdminKeeps DEF KnownSubs
<1>3. CASE ~(snReq' = [snReq EXCEPT ![c] = NoAsk] /\ UNCHANGED snNextSub)
  <2>1. PICK pc, rec : /\ snReq' = [snReq EXCEPT ![c] = Asks(pc, snNextSub, rec, {})]
                       /\ snNextSub' = snNextSub + 1 /\ pc \in {"put", "token"} /\ (pc = "token" => ~rec.confirmed)
                       /\ rec = snReq[c].rec /\ snReq[c].pc = "look"
    BY <1>3 DEF SubscribeLooks, Asked, Continues
  <2>a. PICK q, new : q = Asks(pc, snNextSub, rec, {}) /\ new = snNextSub
    OBVIOUS
  <2>2. IsAsk(q) /\ q.pc = pc /\ q.sub = snNextSub /\ q.rec = rec
    BY <1>0, <2>a, AskIs
  <2>3. /\ snReq' = [d \in SnClients |-> snReq'[d]] /\ snReq'[c] = q
        /\ \A d \in SnClients : d # c => snReq'[d] = snReq[d]
    BY <1>0, <2>1, <2>a DEF AsksKnown
  <2>4. /\ \A d \in SnClients : snReq[d].pc \in {"token", "put"} => snReq[d].sub < snNextSub /\ snReq[d].sub \in Nat
    BY <1>0 DEF AsksKnown, Holding, IsAsk
  <2>5. snNextSub \notin DOMAIN snPending /\ snNextSub \notin DOMAIN snSubs
    BY <1>0 DEF RowsKnown
  <2>6. \A s : s # new /\ Awaiting(s)' => Awaiting(s)
    BY <2>a, <2>2, <2>3 DEF Awaiting
  <2>7. \A s : MayBeTold(s) => MayBeTold(s)'
    BY <1>0, <1>1, <2>a, <2>1, <2>6 DEF MayBeTold, Awaiting
  <2>8. pc = "put" => ~Awaiting(new)'
    <3> SUFFICES ASSUME pc = "put", NEW d \in SnClients, snReq'[d].pc = "token", snReq'[d].sub = new PROVE FALSE
      BY DEF Awaiting
    <3>1. d # c /\ snReq'[d] = snReq[d]
      BY <2>2, <2>3
    <3>2. new < new /\ new \in Nat
      BY <1>0, <2>a, <2>4, <3>1
    <3> QED
      BY <3>2
  <2>9. pc = "put" => MayBeTold(new)'
    BY <1>0, <1>1, <2>a, <2>1, <2>5, <2>8 DEF MayBeTold, Awaiting
  <2>10. ASSUME NEW d \in SnClients, d # c, snReq[d].pc = "put", snReq[d].rec.confirmed
         PROVE  MayBeTold(snReq[d].sub)'
    <3>1. PICK x : x = snReq[d].sub
      OBVIOUS
    <3>2. MayBeTold(x)'
      BY <1>0, <2>7, <2>10, <3>1 DEF AsksKnown
    <3> QED
      BY <2>3, <2>10, <3>1, <3>2 DEF MayBeTold, Awaiting
  <2>11. AsksKnown'
    <3>1. \A d, e \in SnClients :
            d # e /\ snReq'[d].pc = "token" /\ snReq'[e].pc = "token" => snReq'[d].sub # snReq'[e].sub
      <4>1. \A d \in SnClients : d # c /\ snReq'[d].pc = "token" => snReq'[d].sub # new
        BY <1>0, <2>a, <2>3, <2>4
      <4> QED
        BY <1>0, <2>a, <2>2, <2>3, <4>1 DEF AsksKnown
    <3> SUFFICES ASSUME NEW d \in SnClients
                 PROVE  /\ IsAsk(snReq'[d]) /\ (Holding(d)' => snReq'[d].sub < snNextSub')
                        /\ snReq'[d].pc = "put" /\ snReq'[d].rec.confirmed => MayBeTold(snReq[d].sub)'
                        /\ snReq'[d].pc = "token" => ~snReq'[d].rec.confirmed /\ snReq'[d].sub \notin DOMAIN snPending'
      BY <2>3, <3>1 DEF AsksKnown, IsAsk
    <3>2. CASE d = c
      <4>1. snReq'[d].pc = "put" => MayBeTold(snReq[d].sub)'
        BY <2>a, <2>2, <2>3, <2>9, <3>2 DEF MayBeTold, Awaiting
      <4> QED
        BY <1>0, <1>1, <2>1, <2>2, <2>3, <2>5, <3>2, <4>1 DEF Holding
    <3>3. CASE d # c
      <4>1. /\ IsAsk(snReq[d]) /\ (Holding(d) => snReq[d].sub < snNextSub)
            /\ snReq[d].pc = "token" => ~snReq[d].rec.confirmed /\ snReq[d].sub \notin DOMAIN snPending
        BY <1>0 DEF AsksKnown
      <4>2. Holding(d) => snReq[d].sub < snNextSub + 1
        BY <1>0, <2>4, <4>1 DEF Holding
      <4> QED
        BY <1>1, <2>1, <2>3, <2>10, <3>3, <4>1, <4>2 DEF Holding
    <3> QED
      BY <3>2, <3>3
  <2>12. RowsKnown'
    BY <1>0, <1>1, <2>1, <2>7 DEF RowsKnown
  <2>13. KeptKnown'
    BY <1>0, <1>1, <2>2, <2>3, <2>5 DEF KeptKnown
  <2> QED
    BY <1>0, <1>1, <2>1, <2>7, <2>11, <2>12, <2>13, AdminKeeps DEF KnownSubs
<1> QED
  BY <1>2, <1>3

\* The token is stored under the id that the request holds.
LEMMA TokenStep == ASSUME TopicInv, NEW c \in SnClients, SubscribeSendsToken(c) PROVE TopicInv'
<1>0. KnownSubs /\ AsksKnown /\ RowsKnown /\ KeptKnown /\ snNextSub \in Nat /\ snOwed = [p \in SnPublishers |-> snOwed[p]]
  BY DEF TopicInv, TopicTypes, KnownSubs
<1>1. UNCHANGED <<snNextSub, snConfirmed, snKept, snSubs, snOwed>> /\ UNCHANGED sncore
  BY DEF SubscribeSendsToken, rowsKept
<1>2. /\ snReq[c].pc = "token" /\ snReq' = [snReq EXCEPT ![c] = [snReq[c] EXCEPT !.pc = "put"]]
      /\ snPending' = [t \in DOMAIN snPending \union {snReq[c].sub} |-> IF t = snReq[c].sub THEN snReq[c].rec ELSE snPending[t]]
  BY DEF SubscribeSendsToken, Continues, Asked, Put
<1>3. PICK q : q = [snReq[c] EXCEPT !.pc = "put"]
  OBVIOUS
<1>4. IsAsk(snReq[c]) /\ snReq[c].sub < snNextSub /\ snReq[c].sub \notin DOMAIN snPending
      /\ ~snReq[c].rec.confirmed
  BY <1>0, <1>2 DEF AsksKnown, Holding
<1>5. q.pc = "put" /\ q.sub = snReq[c].sub /\ q.rec = snReq[c].rec /\ IsAsk(q)
  BY <1>3, <1>4 DEF IsAsk
<1>6. /\ DOMAIN snPending \subseteq DOMAIN snPending'
      /\ \A s \in DOMAIN snPending' : s \notin DOMAIN snPending => s = snReq[c].sub
  BY <1>2
<1>7. /\ snReq'[c] = q /\ (\A d \in SnClients : d # c => snReq'[d] = snReq[d])
      /\ AsksKnown' /\ \A s : MayBeTold(s) => MayBeTold(s)'
  <2>1. snReq' = [snReq EXCEPT ![c] = q]
    BY <1>2, <1>3
  <2> QED
    BY <1>0, <1>1, <1>2, <1>4, <1>5, <1>6, <2>1, OneAsks
<1>8. RowsKnown'
  <2>1. snReq[c].sub \in Nat
    BY <1>4 DEF IsAsk
  <2> QED
    BY <1>0, <1>1, <1>4, <1>6, <1>7, <2>1 DEF RowsKnown
<1>9. KeptKnown'
  BY <1>0, <1>1, <1>4, <1>5, <1>6, <1>7 DEF KeptKnown
<1> QED
  BY <1>0, <1>1, <1>7, <1>8, <1>9, AdminKeeps DEF KnownSubs

\* A request writes the row it holds.
LEMMA PutsStep == ASSUME TopicInv, NEW c \in SnClients, PutsRow(c) PROVE TopicInv'
<1>0. KnownSubs /\ AsksKnown /\ RowsKnown /\ KeptKnown /\ snNextSub \in Nat
  BY DEF TopicInv, TopicTypes, KnownSubs
<1>1. UNCHANGED <<snPending, snNextSub, snConfirmed, snKept>> /\ UNCHANGED sncore
  BY DEF PutsRow
<1>2. PICK s, rec : /\ snReq[c].pc = "put" /\ s = snReq[c].sub /\ rec = snReq[c].rec /\ snReq' = [snReq EXCEPT ![c] = NoAsk]
                    /\ snSubs' = [x \in DOMAIN snSubs \union {s} |-> IF x = s THEN rec ELSE snSubs[x]]
                    /\ snOwed' = [p \in SnPublishers |-> {x \in snOwed[p] : x = s => Accepts(rec, Entry(p))}]
  BY DEF PutsRow, Continues, RowWritten, Put, Asked
<1>3. s \in Nat /\ s < snNextSub /\ (rec.confirmed => MayBeTold(s)) /\ (s \in snKept => rec.confirmed)
  BY <1>0, <1>2 DEF AsksKnown, Holding, IsAsk, KeptKnown
<1>4. /\ snReq'[c] = NoAsk /\ (\A d \in SnClients : d # c => snReq'[d] = snReq[d])
      /\ AsksKnown' /\ \A t : MayBeTold(t) => MayBeTold(t)'
  BY <1>0, <1>1, <1>2, NoAskIs, OneAsks
<1>5. \A x \in DOMAIN snSubs' : (x = s /\ snSubs'[x] = rec) \/ (x \in DOMAIN snSubs /\ snSubs'[x] = snSubs[x])
  <2>1. snSubs' = [x \in DOMAIN snSubs \union {s} |-> IF x = s THEN rec ELSE snSubs[x]]
    BY <1>2
  <2>2. \A x \in DOMAIN snSubs' : x \in DOMAIN snSubs \union {s}
    BY <2>1
  <2>3. \A x \in DOMAIN snSubs \union {s} : snSubs'[x] = IF x = s THEN rec ELSE snSubs[x]
    BY <2>1
  <2> QED
    BY <2>2, <2>3
<1>6. RowsKnown'
  BY <1>0, <1>1, <1>3, <1>4, <1>5 DEF RowsKnown
<1>7. KeptKnown'
  BY <1>0, <1>1, <1>3, <1>4, <1>5, NoAskIs DEF KeptKnown
<1>8. \A p \in SnPublishers : \A x \in snOwed'[p] :
        /\ x \in snOwed[p]
        /\ x \in DOMAIN snSubs /\ Accepts(snSubs[x], Entry(p)) => x \in DOMAIN snSubs' /\ Accepts(snSubs'[x], Entry(p))
  BY <1>2
<1> QED
  BY <1>0, <1>1, <1>2, <1>4, <1>6, <1>7, <1>8, AdminKeeps DEF KnownSubs

LEMMA ConfirmStep == ASSUME TopicInv, ConfirmSubscription PROVE TopicInv'
<1>0. KnownSubs /\ AsksKnown /\ RowsKnown /\ KeptKnown /\ snNextSub \in Nat
  BY DEF TopicInv, TopicTypes, KnownSubs
<1>1. UNCHANGED <<snPending, snNextSub, snReq>> /\ UNCHANGED sncore
  BY DEF ConfirmSubscription
<1>10. PICK s \in DOMAIN snPending :
          /\ RowWritten(s, Reconfirmed(snPending[s])) /\ snConfirmed' = snConfirmed \union {s}
          /\ snKept' = IF KnownUnconfirmed(s) THEN snKept ELSE snKept \union {s}
  BY DEF ConfirmSubscription
<1>11. PICK rec : rec = Reconfirmed(snPending[s])
  OBVIOUS
<1>2. /\ s \in DOMAIN snPending /\ rec.confirmed
      /\ snConfirmed' = snConfirmed \union {s}
      /\ snKept' = IF KnownUnconfirmed(s) THEN snKept ELSE snKept \union {s}
      /\ snSubs' = [x \in DOMAIN snSubs \union {s} |-> IF x = s THEN rec ELSE snSubs[x]]
      /\ snOwed' = [p \in SnPublishers |-> {x \in snOwed[p] : x = s => Accepts(rec, Entry(p))}]
  BY <1>10, <1>11 DEF RowWritten, Put, Reconfirmed
<1>3. s \in Nat /\ s < snNextSub
  BY <1>0 DEF RowsKnown
<1>4. (\A t : MayBeTold(t) => MayBeTold(t)') /\ MayBeTold(s)'
  BY <1>1, <1>2, <1>3 DEF MayBeTold, Awaiting
<1>5. AsksKnown'
  <2>1. \A d \in SnClients : MayBeTold(snReq[d].sub) => MayBeTold(snReq[d].sub)'
    BY <1>1, <1>2 DEF MayBeTold, Awaiting
  <2> QED
    BY <1>0, <1>1, <1>4, <2>1 DEF AsksKnown, Holding
<1>6. \A x \in DOMAIN snSubs' : (x = s /\ snSubs'[x] = rec) \/ (x \in DOMAIN snSubs /\ snSubs'[x] = snSubs[x])
  <2>1. snSubs' = [x \in DOMAIN snSubs \union {s} |-> IF x = s THEN rec ELSE snSubs[x]]
    BY <1>2
  <2>2. \A x \in DOMAIN snSubs' : x \in DOMAIN snSubs \union {s}
    BY <2>1
  <2>3. \A x \in DOMAIN snSubs \union {s} : snSubs'[x] = IF x = s THEN rec ELSE snSubs[x]
    BY <2>1
  <2> QED
    BY <2>2, <2>3
<1>7. RowsKnown'
  BY <1>0, <1>1, <1>2, <1>3, <1>4, <1>6 DEF RowsKnown
<1>8. KeptKnown'
  <2>1. snKept' \subseteq DOMAIN snPending
    BY <1>0, <1>2 DEF KeptKnown
  <2>2. ASSUME NEW t \in snKept'
        PROVE  /\ t \in DOMAIN snSubs' => snSubs'[t].confirmed
               /\ \A c \in SnClients : snReq[c].pc = "put" /\ snReq[c].sub = t => snReq[c].rec.confirmed
    <3>1. CASE t \in snKept
      BY <1>0, <1>2, <1>6, <3>1 DEF KeptKnown
    <3>2. CASE t \notin snKept
      BY <1>2, <1>6, <2>2, <3>2 DEF KnownUnconfirmed
    <3> QED
      BY <3>1, <3>2
  <2> QED
    BY <1>1, <2>1, <2>2 DEF KeptKnown
<1>9. \A p \in SnPublishers : \A x \in snOwed'[p] :
        /\ x \in snOwed[p]
        /\ x \in DOMAIN snSubs /\ Accepts(snSubs[x], Entry(p)) => x \in DOMAIN snSubs' /\ Accepts(snSubs'[x], Entry(p))
  BY <1>2
<1> QED
  BY <1>0, <1>1, <1>2, <1>4, <1>5, <1>7, <1>8, <1>9, AdminKeeps DEF KnownSubs

LEMMA DropStep == ASSUME TopicInv, NEW c \in SnClients, DropsRow(c) PROVE TopicInv'
<1>0. KnownSubs /\ AsksKnown /\ RowsKnown /\ KeptKnown /\ snNextSub \in Nat /\ snOwed = [p \in SnPublishers |-> snOwed[p]]
  BY DEF TopicInv, TopicTypes, KnownSubs
<1>1. UNCHANGED <<snPending, snNextSub, snConfirmed, snKept>> /\ UNCHANGED sncore /\ snReq[c].pc = "drop"
  BY DEF DropsRow, Continues
<1>2. PICK q : IsAsk(q) /\ snReq' = [snReq EXCEPT ![c] = q] /\ q.pc \in {"idle", "drop"}
  <2>1. CASE snReq' = [snReq EXCEPT ![c] = NoAsk]
    BY <2>1, NoAskIs
  <2>2. CASE snReq' # [snReq EXCEPT ![c] = NoAsk]
    <3>1. PICK rows : snReq' = [snReq EXCEPT ![c] = [snReq[c] EXCEPT !.rows = rows]]
      BY <2>2 DEF DropsRow, Asked
    <3>2. IsAsk(snReq[c])
      BY <1>0 DEF AsksKnown
    <3>3. [snReq[c] EXCEPT !.rows = rows].pc = "drop" /\ IsAsk([snReq[c] EXCEPT !.rows = rows])
      BY <1>1, <3>2 DEF IsAsk
    <3> QED
      BY <3>1, <3>3
  <2> QED
    BY <2>1, <2>2
<1>3. /\ snReq'[c] = q /\ (\A d \in SnClients : d # c => snReq'[d] = snReq[d])
      /\ AsksKnown' /\ \A t : MayBeTold(t) => MayBeTold(t)'
  BY <1>0, <1>1, <1>2, OneAsks
<1>4. PICK S : /\ (snSubs' = snSubs /\ S = {}) \/ snSubs' = [x \in DOMAIN snSubs \ S |-> snSubs[x]]
               /\ snOwed' = [p \in SnPublishers |-> snOwed[p] \ S]
  <2>1. CASE rowsKept
    <3>1. \A p \in SnPublishers : snOwed[p] = snOwed[p] \ {}
      OBVIOUS
    <3>2. snOwed' = [p \in SnPublishers |-> snOwed[p] \ {}] /\ snSubs' = snSubs
      BY <1>0, <2>1, <3>1 DEF rowsKept
    <3> QED
      BY <3>2
  <2>2. CASE \E s : RowDropped(s)
    <3>1. PICK s : RowDropped(s)
      BY <2>2
    <3> QED
      BY <3>1 DEF RowDropped, Del
  <2> QED
    BY <2>1, <2>2 DEF DropsRow
<1>5. \A x \in DOMAIN snSubs' : x \in DOMAIN snSubs /\ snSubs'[x] = snSubs[x]
  BY <1>4
<1>6. RowsKnown'
  BY <1>0, <1>1, <1>3, <1>5 DEF RowsKnown
<1>7. KeptKnown'
  BY <1>0, <1>1, <1>2, <1>3, <1>5 DEF KeptKnown
<1>8. \A p \in SnPublishers : \A x \in snOwed'[p] :
        /\ x \in snOwed[p]
        /\ x \in DOMAIN snSubs => x \in DOMAIN snSubs' /\ snSubs'[x] = snSubs[x]
  BY <1>4
<1>9. \A p \in SnPublishers : \A x \in snOwed'[p] :
        /\ x \in snOwed[p]
        /\ x \in DOMAIN snSubs /\ Accepts(snSubs[x], Entry(p)) => x \in DOMAIN snSubs' /\ Accepts(snSubs'[x], Entry(p))
  BY <1>8
<1>10. snOwed' = [p \in SnPublishers |-> snOwed'[p]]
  BY <1>4
<1> QED
  BY <1>0, <1>1, <1>3, <1>6, <1>7, <1>9, <1>10, AdminKeeps DEF KnownSubs

LEMMA TopicStays == ASSUME TopicInv, CreateTopic \/ UNCHANGED snvars PROVE TopicInv'
<1>0. KnownSubs /\ snNextSub \in Nat /\ snOwed = [p \in SnPublishers |-> snOwed[p]]
  BY DEF TopicInv, TopicTypes
<1>1. UNCHANGED <<snSubs, snPending, snNextSub, snReq, snConfirmed, snKept, snOwed, snReq, snConfirmed, snKept>> /\ UNCHANGED sncore
  BY DEF CreateTopic, snvars, sncore, rowsKept
<1>2. \A s : MayBeTold(s) <=> MayBeTold(s)'
  BY <1>1 DEF MayBeTold, Awaiting
<1>3. KnownSubs'
  BY <1>0, <1>1, <1>2 DEF KnownSubs, AsksKnown, RowsKnown, KeptKnown, Holding, MayBeTold, Awaiting
<1> QED
  BY <1>0, <1>1, <1>2, <1>3, AdminKeeps

\* A key leaves the window together with its answers.
LEMMA TickStep == ASSUME TopicInv, SnTick PROVE TopicInv'
<1>0. /\ TopicTypes /\ KnownSubs /\ Told /\ Answered /\ SubscriberOrder
      /\ \A p \in SnPublishers : PublisherGood(p)
  BY DEF TopicInv
<1>1. PICK left : /\ left = {k \in DOMAIN snDedup : snDedup[k].left > 1}
                  /\ snDedup' = [k \in left |-> [snDedup[k] EXCEPT !.left = @ - 1]]
                  /\ snAnswers' = {a \in snAnswers : a[1] \in left}
  BY DEF SnTick
<1>2. UNCHANGED <<snSubs, snPending, snNextSub, snReq, snConfirmed, snKept, snSeq, snNextId, snLock, snPub, snGot, snOwed>>
  BY DEF SnTick, snadmin
<1>3. \A k \in DOMAIN snDedup' : /\ k \in DOMAIN snDedup
                                 /\ snDedup'[k] \in [id : Nat, seq : Nat, left : {snDedup'[k].left}]
                                 /\ snDedup'[k].id = snDedup[k].id /\ snDedup'[k].seq = snDedup[k].seq
  <2> SUFFICES ASSUME NEW k \in left
               PROVE  /\ k \in DOMAIN snDedup
                      /\ snDedup'[k] \in [id : Nat, seq : Nat, left : {snDedup'[k].left}]
                      /\ snDedup'[k].id = snDedup[k].id /\ snDedup'[k].seq = snDedup[k].seq
    BY <1>1
  <2>1. k \in DOMAIN snDedup /\ snDedup[k] \in [id : Nat, seq : Nat, left : {snDedup[k].left}]
    BY <1>0, <1>1 DEF TopicTypes
  <2>2. PICK n : n = snDedup[k].left - 1
    OBVIOUS
  <2>3. snDedup'[k] = [snDedup[k] EXCEPT !.left = n]
    BY <1>1, <2>2
  <2>4. /\ snDedup'[k] \in [id : Nat, seq : Nat, left : {n}] /\ snDedup'[k].left = n
        /\ snDedup'[k].id = snDedup[k].id /\ snDedup'[k].seq = snDedup[k].seq
    BY <2>1, <2>3
  <2> QED
    BY <2>1, <2>4
<1>4. \A p \in SnPublishers : PublisherGood(p)'
  <2> SUFFICES ASSUME NEW p \in SnPublishers PROVE PublisherGood(p)'
    OBVIOUS
  <2>1. IsPublisher(p) /\ HasLock(p) /\ HasNumber(p) /\ Owes(p) /\ Tells(p)
    BY <1>0 DEF PublisherGood
  <2>2. Entry(p)' = Entry(p) /\ Serving(p)' = Serving(p)
    BY <1>2 DEF Entry, Serving
  <2>3. IsPublisher(p)' /\ HasLock(p)' /\ HasNumber(p)'
    BY <1>2, <1>3, <2>1, <2>2 DEF IsPublisher, HasLock, HasNumber
  <2>4. Owes(p)' /\ Tells(p)'
    BY <1>2, <2>1, <2>2 DEF Owes, Tells, MayBeTold, Awaiting
  <2> QED
    BY <2>3, <2>4 DEF PublisherGood
<1>5. TopicTypes'
  BY <1>0, <1>2, <1>3 DEF TopicTypes
<1>6. Answered'
  <2>1. \A a \in snAnswers' : a \in snAnswers /\ a[1] \in DOMAIN snDedup'
    BY <1>1
  <2> QED
    BY <1>0, <1>3, <2>1 DEF Answered
<1>7. KnownSubs' /\ Told' /\ SubscriberOrder'
  <2>1. KnownSubs'
    BY <1>0, <1>2 DEF KnownSubs, AsksKnown, RowsKnown, KeptKnown, Holding, MayBeTold, Awaiting
  <2> QED
    BY <1>0, <1>2, <2>1 DEF Told, MayBeTold, Awaiting, SubscriberOrder
<1> QED
  BY <1>4, <1>5, <1>6, <1>7 DEF TopicInv

LEMMA TopicStep == TopicInv /\ [SnsNext]_snvars => TopicInv'
BY PublishStep, BeginStep, DedupStep, NumberStep, ListStep, DeliverStep, DoneStep, AskStep, LooksStep, TokenStep,
   PutsStep, ConfirmStep, DropStep, TopicStays, TickStep
   DEF SnsNext, SnSteps

LEMMA TopicHolds == TopicInv => SubscriberOrder /\ OneMessagePerKey /\ NobodyPassedOver /\ OnlyConfirmed
                          /\ ConfirmationStays
<1> SUFFICES ASSUME TopicInv PROVE SubscriberOrder /\ OneMessagePerKey /\ NobodyPassedOver /\ OnlyConfirmed
                               /\ ConfirmationStays
  OBVIOUS
<1>1. OneMessagePerKey
  BY DEF TopicInv, Answered, OneMessagePerKey
<1>2. NobodyPassedOver
  <2>1. DOMAIN NoRows = {}
    BY DEF NoRows
  <2>2. \A p \in SnPublishers : Owes(p)
    BY DEF TopicInv, PublisherGood
  <2> QED
    BY <2>1, <2>2 DEF NobodyPassedOver, Owes
<1>3. OnlyConfirmed
  BY DEF TopicInv, Told, MayBeTold, Awaiting, OnlyConfirmed
<1>4. ConfirmationStays
  BY DEF TopicInv, KnownSubs, KeptKnown, ConfirmationStays
<1> QED
  BY <1>1, <1>2, <1>3, <1>4 DEF TopicInv

\* PublishesHold, for any publishers, batches, endpoints and requests: on a FIFO
\* topic a subscriber sees its messages in the order of their numbers, a key in
\* its window goes out once, everyone who should be told is told and nobody
\* whose token never came back is, no confirmation is undone by a request that
\* came after it, and requests about mobile push that do not overlap leave
\* nothing dangling.
THEOREM PublishesAreSound == SnsSpec => []PublishesHold
<1>1. SnInit /\ PlatformInit => TopicInv /\ PlatformInv
  BY TopicStart, PlatformStart DEF PlatformInv
<1>2. /\ TopicInv /\ PlatformInv
      /\ [(SnsNext /\ UNCHANGED plvars) \/ (PlatformNext /\ UNCHANGED snvars)]_<<snvars, plvars>>
      => (TopicInv /\ PlatformInv)'
  <2> SUFFICES ASSUME TopicInv, PlatformInv,
                      [(SnsNext /\ UNCHANGED plvars) \/ (PlatformNext /\ UNCHANGED snvars)]_<<snvars, plvars>>
               PROVE  TopicInv' /\ PlatformInv'
    OBVIOUS
  <2>1. [SnsNext]_snvars /\ [PlatformNext]_plvars
    OBVIOUS
  <2> QED
    BY <2>1, TopicStep, PlatformStep
<1>3. TopicInv /\ PlatformInv => PublishesHold
  BY TopicHolds, PlatformHolds DEF PublishesHold
<1> QED
  BY <1>1, <1>2, <1>3, PTL DEF SnsSpec
=============================================================================
