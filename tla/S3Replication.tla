--------------------------- MODULE S3Replication ---------------------------
(***************************************************************************)
(* Replication of one key of a versioned bucket (s3/replication.go and its *)
(* calls from s3.go).  A write holds versionMu until its replicas are      *)
(* written, so each request is one step.  A rule is [to, tag, markers,     *)
(* on]: the destination, the tag it asks for ("" any), whether it carries  *)
(* delete markers, and its status.                                         *)
(***************************************************************************)
EXTENDS Integers, Sequences, Tables

CONSTANTS
  RpBuckets,    \* destination buckets
  RpTags,       \* tags an object may carry, at most one
  RpRules,      \* configurations: sequences of rules
  RpMaxOps      \* requests made

\* rp.src: version -> [body, marker, tag, status]; rp.cur: the current
\* version.  rp.dst: bucket -> [up, cur, vers]; vers as in src, with the tags
\* of the current key in curTag.  rp.refs: the remembered replicas <<bucket,
\* version>>; rp.put: history, version -> the tag last put on it.
VARIABLE rp
rpvars == <<rp>>

NewBucket == [up |-> TRUE, cur |-> 0, curTag |-> "", vers |-> NoRows]

\* replicationRules and ruleMatches.
Rules == {rp.rules[i] : i \in DOMAIN rp.rules}
Matching(tag) == {r \in Rules : r.on /\ r.tag \in {"", tag}}
Reachable(rules) == {b \in RpBuckets : rp.dst[b].up /\ \E r \in rules : r.to = b}

\* What the request answers: one copy is enough.
Status(rules, reached) == IF reached # {} THEN "COMPLETED" ELSE IF rules # {} THEN "FAILED" ELSE ""

\* replicateObject at one destination: blob, record, version and tags.
Replica(d, v, rec) == [d EXCEPT !.cur = v, !.curTag = rec.tag,
    !.vers = Put(@, v, [rec EXCEPT !.status = "REPLICA"])]

\* putObject: the source first, then every destination that is there.
PutObject(tag) ==
  LET v == rp.ops + 1
      rules == Matching(tag)
      reached == Reachable(rules)
      rec == [body |-> v, marker |-> FALSE, tag |-> tag, status |-> Status(rules, reached)]
  IN rp' = [rp EXCEPT !.ops = @ + 1, !.cur = v, !.src = Put(@, v, rec), !.put = Put(@, v, tag),
                      !.dst = [b \in RpBuckets |-> IF b \in reached THEN Replica(@[b], v, rec) ELSE @[b]],
                      !.refs = @ \union {<<b, v>> : b \in reached}]

\* replicateDeleteMarker's rules, by the tags of the version it hides.
MarkerRules(tag) == {r \in Matching(tag) : r.markers}

\* The marker at one destination; the tags of the current key stay.
MarkerReplica(d, v, rec) == [d EXCEPT !.cur = v, !.vers = Put(@, v, [rec EXCEPT !.status = "REPLICA"])]

\* deleteObject of a versioned key: the marker, and its replicas.
DeleteObject ==
  LET v == rp.ops + 1
      old == IF rp.cur = 0 THEN "" ELSE rp.src[rp.cur].tag
      reached == Reachable(MarkerRules(old))
      rec == [body |-> 0, marker |-> TRUE, tag |-> "", status |-> ""]
  IN rp' = [rp EXCEPT !.ops = @ + 1, !.cur = v, !.src = Put(@, v, rec),
                      !.dst = [b \in RpBuckets |-> IF b \in reached THEN MarkerReplica(@[b], v, rec) ELSE @[b]]]

\* Mistake: the tags go to every replica of the key.
SyncEveryReplica(v, tag) ==
  [b \in RpBuckets |-> IF \E r \in rp.refs : r[1] = b THEN [rp.dst[b] EXCEPT !.curTag = tag,
      !.vers = Put(@, v, [rp.src[v] EXCEPT !.tag = tag])] ELSE rp.dst[b]]

\* syncReplicaTags: the replicas of that version; the store keeps tags of
\* versions the bucket does not have, which nothing reads.
SyncReplicaTags(v, tag) ==
  [b \in RpBuckets |->
     IF <<b, v>> \in rp.refs
     THEN [rp.dst[b] EXCEPT !.curTag = tag, !.vers = IF v \in DOMAIN @ THEN [@ EXCEPT ![v].tag = tag] ELSE @]
     ELSE rp.dst[b]]

\* PutObjectTagging of the current version; DeleteObjectTagging syncs nothing.
PutObjectTagging(tag) ==
  /\ rp.cur # 0 /\ ~rp.src[rp.cur].marker
  /\ rp' = [rp EXCEPT !.ops = @ + 1, !.src[rp.cur].tag = tag, !.put = Put(@, rp.cur, tag),
       !.dst = SyncReplicaTags(rp.cur, tag)]
DeleteObjectTagging ==
  /\ rp.cur # 0 /\ ~rp.src[rp.cur].marker
  /\ rp' = [rp EXCEPT !.ops = @ + 1, !.src[rp.cur].tag = ""]

\* prepareReplicationConfiguration: every destination must be there.
PutBucketReplication(rules) ==
  /\ \A i \in DOMAIN rules : rp.dst[rules[i].to].up
  /\ rp' = [rp EXCEPT !.ops = @ + 1, !.rules = rules]

\* A destination is emptied and deleted, and may be created again; the
\* remembered replicas stay.
DeleteDestination(b) == rp.dst[b].up /\ rp' = [rp EXCEPT !.ops = @ + 1,
    !.dst[b] = [NewBucket EXCEPT !.up = FALSE]]
CreateDestination(b) == ~rp.dst[b].up /\ rp' = [rp EXCEPT !.ops = @ + 1, !.dst[b] = NewBucket]

RpInit ==
  \E rules \in RpRules :
    rp = [ops |-> 0, src |-> NoRows, cur |-> 0, dst |-> [b \in RpBuckets |-> NewBucket],
        refs |-> {}, rules |-> rules, put |-> NoRows]
RpNext ==
  /\ rp.ops < RpMaxOps
  /\ \/ \E t \in RpTags \union {""} : PutObject(t) \/ PutObjectTagging(t)
     \/ DeleteObject \/ DeleteObjectTagging
     \/ \E rules \in RpRules : PutBucketReplication(rules)
     \/ \E b \in RpBuckets : DeleteDestination(b) \/ CreateDestination(b)
RpSpec == RpInit /\ [][RpNext]_rpvars

(***************************************************************************)
(* Properties                                                              *)
(***************************************************************************)

\* A replica is the source's version: the same body, marked as a replica, with
\* the tags last put on it, and the current key's tags are the current
\* version's; a write that answers COMPLETED has put its version somewhere.
ReplicasAreTheSource ==
  \A b \in RpBuckets :
    LET d == rp.dst[b] IN
    /\ \A v \in DOMAIN d.vers : /\ d.vers[v].body = rp.src[v].body /\ d.vers[v].marker = rp.src[v].marker /\ d.vers[v].status = "REPLICA"
                                /\ ~d.vers[v].marker => d.vers[v].tag = rp.put[v]
    /\ d.cur # 0 /\ ~d.vers[d.cur].marker => d.curTag = d.vers[d.cur].tag

\* A delete hides the replica only where a rule that matches the object carries
\* delete markers; elsewhere what was copied stays readable.
DeletesStayLocal ==
  [][\A b \in RpBuckets :
       rp.dst[b].up /\ rp'.dst[b].up /\ rp'.dst[b].cur # rp.dst[b].cur /\ rp'.dst[b].cur # 0 /\ rp'.dst[b].vers[rp'.dst[b].cur].marker
       => \E r \in Rules : r.to = b /\ r.on /\ r.markers]_rpvars
=============================================================================
