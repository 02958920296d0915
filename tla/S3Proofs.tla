------------------------------ MODULE S3Proofs ------------------------------
(***************************************************************************)
(* What a replica is, for any destinations, rules, tags and number of      *)
(* requests.  A version is younger than every other when it is made; the   *)
(* remembered replicas name every copy that is not a delete marker, so the *)
(* tags of a version reach all of its copies; and a destination that was   *)
(* given the current version of the source has nothing newer.              *)
(* Then one key under concurrent requests: what a request between its blob *)
(* and its record has written, how record, versions, blobs and tags stay   *)
(* together, and why no write reaches a locked version.  Then uploads in   *)
(* parts, whose completion works on copied parts, and ranges.              *)
(***************************************************************************)
EXTENDS S3Replication, S3Objects, S3PartsAndPages, FiniteSetTheorems, SequenceTheorems, TLAPS

Tag == RpTags \union {""}
Version == [body : Nat, marker : BOOLEAN, tag : Tag, status : {"", "COMPLETED", "FAILED", "REPLICA"}]
RowsOf(S) == UNION {[D -> S] : D \in SUBSET Nat}
Bucket == [up : BOOLEAN, cur : Nat, curTag : Tag, vers : RowsOf(Version)]

RpStates ==
  [ops : Nat, cur : Nat, src : RowsOf(Version), dst : [RpBuckets -> Bucket],
   refs : SUBSET (RpBuckets \X Nat), rules : RpRules, put : RowsOf(Tag)]
RpTypes == rp \in RpStates

\* The source's versions are numbered up to the current one.
Numbered ==
  /\ rp.cur <= rp.ops
  /\ DOMAIN rp.src \subseteq 1 .. rp.cur
  /\ rp.cur # 0 => rp.cur \in DOMAIN rp.src

\* The versions of a bucket called b, against the source's, the tags put on
\* them and the remembered replicas; and its current version, against the
\* source's.
Copies(d, b, src, put, refs) ==
  \A v \in DOMAIN d.vers :
    /\ v \in DOMAIN src
    /\ d.vers[v].body = src[v].body /\ d.vers[v].marker = src[v].marker
    /\ d.vers[v].status = "REPLICA"
    /\ ~d.vers[v].marker => <<b, v>> \in refs /\ v \in DOMAIN put /\ d.vers[v].tag = put[v]
Heads(d, b, refs, cur) ==
  /\ d.cur # 0 => d.cur \in DOMAIN d.vers /\ (~d.vers[d.cur].marker => d.curTag = d.vers[d.cur].tag)
  /\ <<b, cur>> \in refs => d.cur \in {0, cur}
  /\ \A v \in Nat : <<b, v>> \in refs => v \in 1 .. cur
Mirrors(d, b, src, put, refs, cur) == Copies(d, b, src, put, refs) /\ Heads(d, b, refs, cur)

RpInv == RpTypes /\ Numbered /\ \A b \in RpBuckets : Mirrors(rp.dst[b], b, rp.src, rp.put, rp.refs, rp.cur)

\* g is f with row v set to r.
Sets(g, f, v, r) ==
  DOMAIN g = DOMAIN f \union {v} /\ \A w \in DOMAIN f \union {v} : g[w] = IF w = v THEN r ELSE f[w]

\* g has the rows of f, of which only v may be another.
Kept(f, g, v) == \A w \in DOMAIN f : w \in DOMAIN g /\ (w # v => g[w] = f[w])

\* The remembered replicas in bucket b, of which only v's may be another.
SameBut(old, new, b, v) == \A w \in Nat : w # v => (<<b, w>> \in new <=> <<b, w>> \in old)

\* Rows stay rows when one is written (Put).
LEMMA RowsPut ==
  ASSUME NEW S, NEW f \in RowsOf(S), NEW v \in Nat, NEW r \in S
  PROVE  Put(f, v, r) \in RowsOf(S) /\ Sets(Put(f, v, r), f, v, r)
<1>1. PICK D \in SUBSET Nat : f \in [D -> S]
  BY DEF RowsOf
<1>2. Put(f, v, r) \in [D \union {v} -> S]
  BY <1>1 DEF Put
<1>3. D \union {v} \in SUBSET Nat
  OBVIOUS
<1> QED
  BY <1>2, <1>3 DEF RowsOf, Put, Sets

\* A row of a table of rows.
LEMMA RowsAt ==
  ASSUME NEW S, NEW f \in RowsOf(S), NEW v \in DOMAIN f
  PROVE  v \in Nat /\ f[v] \in S
BY DEF RowsOf

\* A new version, younger than all others, leaves what was copied before as it
\* was (putObject and deleteObject, at a destination they do not reach).
LEMMA Passed ==
  ASSUME NEW d \in Bucket, NEW b, NEW src \in RowsOf(Version), NEW put \in RowsOf(Tag), NEW refs,
         NEW cur \in Nat, NEW v \in Nat, v > cur, DOMAIN src \subseteq 1 .. cur,
         Mirrors(d, b, src, put, refs, cur),
         NEW src2, Kept(src, src2, v),
         NEW put2, Kept(put, put2, v),
         NEW refs2, \A w \in Nat : <<b, w>> \in refs2 <=> <<b, w>> \in refs
  PROVE  Mirrors(d, b, src2, put2, refs2, v)
<1>1. ASSUME NEW w \in DOMAIN d.vers PROVE w \in Nat /\ w # v /\ w \in DOMAIN src
  <2>1. w \in DOMAIN src
    BY DEF Mirrors, Copies
  <2>2. w \in 1 .. cur
    BY <2>1
  <2> QED
    BY <2>1, <2>2
<1>2. Copies(d, b, src2, put2, refs2)
  BY <1>1 DEF Mirrors, Copies, Kept
<1>3. Heads(d, b, refs2, v)
  <2>1. <<b, v>> \notin refs
    BY DEF Mirrors, Heads
  <2> QED
    BY <2>1 DEF Mirrors, Heads
<1> QED
  BY <1>2, <1>3 DEF Mirrors

\* The replica of a new version, an object or a delete marker, at a
\* destination that is reached.
LEMMA Copied ==
  ASSUME NEW d \in Bucket, NEW b, NEW src \in RowsOf(Version), NEW put \in RowsOf(Tag), NEW refs,
         NEW cur \in Nat, NEW v \in Nat, v > cur, DOMAIN src \subseteq 1 .. cur,
         Mirrors(d, b, src, put, refs, cur),
         NEW r, NEW copy, copy.body = r.body, copy.marker = r.marker, copy.tag = r.tag, copy.status = "REPLICA",
         NEW src2, Kept(src, src2, v),
         v \in DOMAIN src2, src2[v] = r,
         NEW put2, Kept(put, put2, v),
         NEW refs2, SameBut(refs, refs2, b, v),
         NEW e, e.cur = v, Sets(e.vers, d.vers, v, copy),
         ~r.marker => <<b, v>> \in refs2 /\ v \in DOMAIN put2 /\ put2[v] = r.tag /\ e.curTag = r.tag
  PROVE  Mirrors(e, b, src2, put2, refs2, v)
<1>1. ASSUME NEW w \in DOMAIN d.vers PROVE w \in Nat /\ w # v /\ w \in DOMAIN src
  <2>1. w \in DOMAIN src
    BY DEF Mirrors, Copies
  <2>2. w \in 1 .. cur
    BY <2>1
  <2> QED
    BY <2>1, <2>2
<1>2. Copies(e, b, src2, put2, refs2)
  <2> SUFFICES ASSUME NEW w \in DOMAIN e.vers
               PROVE  /\ w \in DOMAIN src2
                      /\ e.vers[w].body = src2[w].body /\ e.vers[w].marker = src2[w].marker
                      /\ e.vers[w].status = "REPLICA"
                      /\ ~e.vers[w].marker => <<b, w>> \in refs2 /\ w \in DOMAIN put2 /\ e.vers[w].tag = put2[w]
    BY DEF Copies
  <2>1. CASE w = v
    BY <2>1 DEF Sets
  <2>2. CASE w # v
    <3>1. w \in DOMAIN d.vers /\ e.vers[w] = d.vers[w]
      BY <2>2 DEF Sets
    <3>2. w \in Nat /\ w \in DOMAIN src /\ src2[w] = src[w]
      BY <1>1, <3>1, <2>2 DEF Kept
    <3> QED
      BY <2>2, <3>1, <3>2 DEF Mirrors, Copies, Kept, SameBut
  <2> QED
    BY <2>1, <2>2
<1>3. Heads(e, b, refs2, v)
  <2>1. e.vers[v] = copy /\ v \in DOMAIN e.vers
    BY DEF Sets
  <2>2. \A w \in Nat : <<b, w>> \in refs2 => w = v \/ w \in 1 .. cur
    BY DEF Mirrors, Heads, SameBut
  <2> QED
    BY <2>1, <2>2 DEF Heads
<1> QED
  BY <1>2, <1>3 DEF Mirrors

\* Tags that reach a bucket which has them remembered, or none that could have
\* changed (syncReplicaTags).
LEMMA Retagged ==
  ASSUME NEW d \in Bucket, NEW b, NEW src \in RowsOf(Version), NEW put \in RowsOf(Tag), NEW refs,
         NEW cur \in DOMAIN src, cur # 0, cur \in Nat, ~src[cur].marker, NEW tag \in Tag,
         Mirrors(d, b, src, put, refs, cur),
         NEW src2, NEW r, DOMAIN src2 = DOMAIN src, \A w \in DOMAIN src : src2[w] = IF w = cur THEN r ELSE src[w],
         r.body = src[cur].body, r.marker = src[cur].marker,
         NEW put2, Sets(put2, put, cur, tag),
         NEW e \in Bucket, <<b, cur>> \notin refs => e = d,
         <<b, cur>> \in refs =>
           /\ e.cur = d.cur /\ e.curTag = tag /\ DOMAIN e.vers = DOMAIN d.vers
           /\ \A w \in DOMAIN d.vers : IF w = cur
                THEN /\ e.vers[w].tag = tag /\ e.vers[w].body = d.vers[w].body
                     /\ e.vers[w].marker = d.vers[w].marker /\ e.vers[w].status = d.vers[w].status
                ELSE e.vers[w] = d.vers[w]
  PROVE  Mirrors(e, b, src2, put2, refs, cur)
<1>1. Copies(d, b, src, put, refs) /\ Heads(d, b, refs, cur)
  BY DEF Mirrors
<1>2. DOMAIN e.vers = DOMAIN d.vers
  OBVIOUS
<1>3. Copies(e, b, src2, put2, refs)
  <2> SUFFICES ASSUME NEW w \in DOMAIN d.vers
               PROVE  /\ w \in DOMAIN src2
                      /\ e.vers[w].body = src2[w].body /\ e.vers[w].marker = src2[w].marker
                      /\ e.vers[w].status = "REPLICA"
                      /\ ~e.vers[w].marker => <<b, w>> \in refs /\ w \in DOMAIN put2 /\ e.vers[w].tag = put2[w]
    BY <1>2 DEF Copies
  <2>0. /\ w \in DOMAIN src /\ d.vers[w].body = src[w].body /\ d.vers[w].marker = src[w].marker
        /\ d.vers[w].status = "REPLICA"
        /\ ~d.vers[w].marker => <<b, w>> \in refs /\ w \in DOMAIN put /\ d.vers[w].tag = put[w]
    BY <1>1 DEF Copies
  <2>1. CASE w = cur
    BY <2>0, <2>1 DEF Sets
  <2>2. CASE w # cur
    <3>1. e.vers[w] = d.vers[w] /\ src2[w] = src[w]
      BY <2>0, <2>2
    <3>2. w \in DOMAIN put => w \in DOMAIN put2 /\ put2[w] = put[w]
      BY <2>2 DEF Sets
    <3> QED
      BY <2>0, <3>1, <3>2
  <2> QED
    BY <2>1, <2>2
<1>4. Heads(e, b, refs, cur)
  <2>1. CASE <<b, cur>> \in refs
    BY <1>1, <1>2, <2>1 DEF Heads
  <2>2. CASE <<b, cur>> \notin refs
    BY <1>1, <2>2 DEF Heads
  <2> QED
    BY <2>1, <2>2
<1> QED
  BY <1>3, <1>4 DEF Mirrors

\* The invariant is inductive.
LEMMA RpStep == RpInv /\ [RpNext]_rpvars => RpInv'
<1> SUFFICES ASSUME RpInv, [RpNext]_rpvars PROVE RpInv'
    OBVIOUS
<1> DEFINE v == rp.ops + 1
<1>0. /\ rp.ops \in Nat /\ rp.cur \in Nat /\ rp.src \in RowsOf(Version) /\ rp.put \in RowsOf(Tag)
      /\ rp.dst \in [RpBuckets -> Bucket] /\ rp.refs \in SUBSET (RpBuckets \X Nat)
      /\ v \in Nat /\ v > rp.cur /\ DOMAIN rp.src \subseteq 1 .. rp.cur
      /\ \A b \in RpBuckets : Mirrors(rp.dst[b], b, rp.src, rp.put, rp.refs, rp.cur)
  BY DEF RpInv, RpTypes, RpStates, Numbered
<1>1. ASSUME NEW tag \in Tag, PutObject(tag) PROVE RpInv'
  <2> DEFINE rules == Matching(tag)
  <2> DEFINE reached == Reachable(rules)
             r == [body |-> v, marker |-> FALSE, tag |-> tag, status |-> Status(rules, reached)]
             dst == [b \in RpBuckets |-> IF b \in reached THEN Replica(rp.dst[b], v, r) ELSE rp.dst[b]]
             new == {<<b, v>> : b \in reached}
  <2>1. rp' = [rp EXCEPT !.ops = v, !.cur = v, !.src = Put(rp.src, v, r), !.put = Put(rp.put, v, tag),
                         !.dst = dst, !.refs = rp.refs \union new]
    BY <1>1, Zenon DEF PutObject
  <2>2. reached \in SUBSET RpBuckets /\ r \in Version /\ r.marker = FALSE /\ r.tag = tag
    BY <1>0 DEF Reachable, Status, Version
  <2>3. /\ rp'.ops = v /\ rp'.cur = v /\ rp'.src = Put(rp.src, v, r) /\ rp'.put = Put(rp.put, v, tag)
        /\ rp'.dst = dst /\ rp'.refs = rp.refs \union new /\ rp'.rules = rp.rules
        /\ (rp'.src \in RowsOf(Version) /\ dst \in [RpBuckets -> Bucket] /\ rp'.put \in RowsOf(Tag)
             /\ rp.refs \union new \in SUBSET (RpBuckets \X Nat) => rp' \in RpStates)
    <3> HIDE DEF r, reached, dst, new
    <3>1. rp \in RpStates /\ v \in Nat
      BY <1>0 DEF RpInv, RpTypes
    <3> HIDE DEF v
    <3>2. PICK src, put, d, refs : src = Put(rp.src, v, r) /\ put = Put(rp.put, v, tag) /\ d = dst
                                   /\ refs = rp.refs \union new
      BY Zenon
    <3>3. rp' = [rp EXCEPT !.ops = v, !.cur = v, !.src = src, !.put = put, !.dst = d, !.refs = refs]
      BY <2>1, <3>2, Zenon
    <3>4. /\ rp'.ops = v /\ rp'.cur = v /\ rp'.src = src /\ rp'.put = put
          /\ rp'.dst = d /\ rp'.refs = refs /\ rp'.rules = rp.rules
      BY <3>1, <3>3 DEF RpStates
    <3>5. src \in RowsOf(Version) /\ d \in [RpBuckets -> Bucket] /\ put \in RowsOf(Tag)
             /\ refs \in SUBSET (RpBuckets \X Nat) => rp' \in RpStates
      BY <3>1, <3>3 DEF RpStates
    <3> QED
      BY <3>2, <3>4, <3>5
  <2>4. ASSUME NEW b \in RpBuckets
        PROVE  rp'.dst[b] \in Bucket /\ Mirrors(rp'.dst[b], b, rp'.src, rp'.put, rp'.refs, rp'.cur)
    <3>1. /\ rp'.src \in RowsOf(Version) /\ rp'.put \in RowsOf(Tag)
          /\ Kept(rp.src, rp'.src, v) /\ Kept(rp.put, rp'.put, v)
          /\ v \in DOMAIN rp'.src /\ rp'.src[v] = r /\ v \in DOMAIN rp'.put /\ rp'.put[v] = tag
      <4> HIDE DEF r, v
      <4>1. tag \in Tag
        OBVIOUS
      <4>2. rp'.src \in RowsOf(Version) /\ Sets(rp'.src, rp.src, v, r)
        BY <1>0, <2>2, <2>3, RowsPut
      <4>3. rp'.put \in RowsOf(Tag) /\ Sets(rp'.put, rp.put, v, tag)
        BY <1>0, <4>1, <2>3, RowsPut
      <4> QED
        BY <4>2, <4>3 DEF Sets, Kept
    <3>2. SameBut(rp.refs, rp'.refs, b, v)
      BY <2>3 DEF SameBut
    <3>3. CASE b \in reached
      <4>1. <<b, v>> \in rp'.refs
        BY <2>3, <3>3
      <4>2. PICK copy : copy = [r EXCEPT !.status = "REPLICA"]
        OBVIOUS
      <4>3. /\ copy \in Version /\ copy.body = r.body /\ copy.marker = r.marker /\ copy.tag = r.tag
            /\ copy.status = "REPLICA"
        BY <2>2, <4>2 DEF Version
      <4>4. PICK f : f = Put(rp.dst[b].vers, v, copy)
        OBVIOUS
      <4>5. f \in RowsOf(Version) /\ Sets(f, rp.dst[b].vers, v, copy)
        <5>1. rp.dst[b].vers \in RowsOf(Version)
          BY <1>0 DEF Bucket
        <5> HIDE DEF v
        <5> QED
          BY <1>0, <5>1, <4>3, <4>4, RowsPut
      <4>6. PICK e : e = [rp.dst[b] EXCEPT !.cur = v, !.curTag = tag, !.vers = f]
        OBVIOUS
      <4>7. e \in Bucket /\ e.cur = v /\ e.curTag = tag /\ e.vers = f
        BY <1>0, <4>5, <4>6 DEF Bucket
      <4>8. rp'.dst[b] = e
        <5>1. rp'.dst[b] = Replica(rp.dst[b], v, r)
          BY <2>3, <3>3
        <5> QED
          BY <5>1, <2>2, <4>2, <4>4, <4>6, Zenon DEF Replica
      <4>9. Mirrors(e, b, rp'.src, rp'.put, rp'.refs, v)
        <5> HIDE DEF r, reached, dst, new, v
        <5> QED
          BY <1>0, <2>2, <3>1, <3>2, <4>1, <4>3, <4>5, <4>7, Copied
      <4> QED
        BY <2>3, <4>7, <4>8, <4>9
    <3>4. CASE b \notin reached
      <4>1. rp'.dst[b] = rp.dst[b]
        BY <2>3, <3>4
      <4>2. \A w \in Nat : <<b, w>> \in rp'.refs <=> <<b, w>> \in rp.refs
        BY <2>3, <3>4
      <4> HIDE DEF r, reached, dst, new, v
      <4>3. Mirrors(rp.dst[b], b, rp'.src, rp'.put, rp'.refs, v)
        BY <1>0, <3>1, <4>2, Passed
      <4> QED
        BY <1>0, <2>3, <4>1, <4>3
    <3> QED
      BY <3>3, <3>4
  <2>5. RpTypes' /\ Numbered'
    <3>1. dst \in [RpBuckets -> Bucket]
      BY <2>3, <2>4
    <3>2. rp.refs \union new \in SUBSET (RpBuckets \X Nat)
      BY <1>0, <2>2
    <3> HIDE DEF r, dst, new, v
    <3>3. rp'.src \in RowsOf(Version) /\ Sets(rp'.src, rp.src, v, r)
      BY <1>0, <2>2, <2>3, RowsPut
    <3>4. tag \in Tag
      OBVIOUS
    <3>5. rp'.put \in RowsOf(Tag)
      BY <1>0, <3>4, <2>3, RowsPut
    <3>6. RpTypes'
      BY <2>3, <3>1, <3>2, <3>3, <3>5 DEF RpTypes
    <3>7. Numbered'
      BY <1>0, <2>3, <3>3 DEF Numbered, Sets
    <3> QED
      BY <3>6, <3>7
  <2> QED
    BY <2>4, <2>5 DEF RpInv
<1>2. ASSUME NEW tag \in Tag, PutObjectTagging(tag) PROVE RpInv'
  <2> DEFINE cur == rp.cur
             dst == SyncReplicaTags(cur, tag)
  <2>1. cur # 0 /\ cur \in DOMAIN rp.src /\ ~rp.src[cur].marker /\ rp.src[cur] \in Version
    BY <1>2, <1>0, RowsAt DEF PutObjectTagging, RpInv, Numbered
  <2>2. PICK r : r = [rp.src[cur] EXCEPT !.tag = tag]
    OBVIOUS
  <2>3. r \in Version /\ r.body = rp.src[cur].body /\ r.marker = rp.src[cur].marker
    BY <2>1, <2>2 DEF Version
  <2>4. PICK src, put : src = [rp.src EXCEPT ![cur] = r] /\ put = Put(rp.put, cur, tag)
    OBVIOUS
  <2>5. /\ src \in RowsOf(Version) /\ DOMAIN src = DOMAIN rp.src
        /\ \A w \in DOMAIN rp.src : src[w] = IF w = cur THEN r ELSE rp.src[w]
    BY <1>0, <2>1, <2>3, <2>4 DEF RowsOf
  <2>6. put \in RowsOf(Tag) /\ Sets(put, rp.put, cur, tag)
    BY <1>0, <2>4, RowsPut
  <2>7. rp' = [rp EXCEPT !.ops = v, !.src = src, !.put = put, !.dst = dst]
    BY <1>2, <2>2, <2>4 DEF PutObjectTagging
  <2>8. ASSUME NEW b \in RpBuckets PROVE dst[b] \in Bucket /\ Mirrors(dst[b], b, src, put, rp.refs, cur)
    <3> DEFINE d == rp.dst[b]
    <3>1. d \in Bucket /\ d.vers \in RowsOf(Version) /\ Mirrors(d, b, rp.src, rp.put, rp.refs, cur)
      BY <1>0 DEF Bucket
    <3>2. CASE <<b, cur>> \in rp.refs
      <4>1. PICK f : f = IF cur \in DOMAIN d.vers THEN [d.vers EXCEPT ![cur] = [d.vers[cur] EXCEPT !.tag = tag]]
                         ELSE d.vers
        OBVIOUS
      <4>2. dst[b] = [d EXCEPT !.curTag = tag, !.vers = f]
        BY <3>2, <4>1 DEF SyncReplicaTags
      <4>3. f \in RowsOf(Version) /\ DOMAIN f = DOMAIN d.vers
        <5>1. CASE cur \in DOMAIN d.vers
          <6>1. PICK x : x = [d.vers[cur] EXCEPT !.tag = tag]
            OBVIOUS
          <6>2. x \in Version
            <7>1. d.vers[cur] \in Version
              BY <3>1, <5>1, RowsAt
            <7> QED
              BY <6>1, <7>1 DEF Version
          <6>3. f = [d.vers EXCEPT ![cur] = x]
            BY <4>1, <5>1, <6>1
          <6> QED
            BY <3>1, <6>2, <6>3 DEF RowsOf
        <5>2. CASE cur \notin DOMAIN d.vers
          BY <3>1, <4>1, <5>2
        <5> QED
          BY <5>1, <5>2
      <4>4. \A w \in DOMAIN d.vers : IF w = cur
                THEN /\ f[w].tag = tag /\ f[w].body = d.vers[w].body
                     /\ f[w].marker = d.vers[w].marker /\ f[w].status = d.vers[w].status
                ELSE f[w] = d.vers[w]
        <5> SUFFICES ASSUME NEW w \in DOMAIN d.vers
                     PROVE  IF w = cur
                              THEN /\ f[w].tag = tag /\ f[w].body = d.vers[w].body
                                   /\ f[w].marker = d.vers[w].marker /\ f[w].status = d.vers[w].status
                              ELSE f[w] = d.vers[w]
          OBVIOUS
        <5>1. CASE w = cur
          <6>1. d.vers[cur] \in Version
            BY <3>1, <5>1, RowsAt
          <6>2. PICK x : x = [d.vers[cur] EXCEPT !.tag = tag]
            OBVIOUS
          <6>3. f = [d.vers EXCEPT ![cur] = x]
            BY <4>1, <5>1, <6>2
          <6>4. f[cur] = x
            BY <3>1, <5>1, <6>3 DEF RowsOf
          <6> QED
            BY <5>1, <6>1, <6>2, <6>4 DEF Version
        <5>2. CASE w # cur
          BY <3>1, <4>1, <5>2 DEF RowsOf
        <5> QED
          BY <5>1, <5>2
      <4>5. dst[b] \in Bucket /\ dst[b].cur = d.cur /\ dst[b].curTag = tag /\ dst[b].vers = f
        BY <3>1, <4>2, <4>3 DEF Bucket
      <4>6. Mirrors(dst[b], b, src, put, rp.refs, cur)
        BY <1>0, <2>1, <2>3, <2>5, <2>6, <3>1, <3>2, <4>3, <4>4, <4>5, Retagged
      <4> QED
        BY <4>5, <4>6
    <3>3. CASE <<b, cur>> \notin rp.refs
      <4>1. dst[b] = d
        BY <3>3 DEF SyncReplicaTags
      <4>2. Mirrors(dst[b], b, src, put, rp.refs, cur)
        BY <1>0, <2>1, <2>3, <2>5, <2>6, <3>1, <3>3, <4>1, Retagged
      <4> QED
        BY <3>1, <4>1, <4>2
    <3> QED
      BY <3>2, <3>3
  <2>9. dst \in [RpBuckets -> Bucket]
    BY <2>8 DEF SyncReplicaTags
  <2>10. /\ rp' \in RpStates /\ rp'.ops = v /\ rp'.src = src /\ rp'.put = put /\ rp'.dst = dst /\ rp'.cur = cur
         /\ rp'.refs = rp.refs
    <3> HIDE DEF dst, v
    <3>1. rp \in RpStates
      BY DEF RpInv, RpTypes
    <3> QED
      BY <1>0, <2>5, <2>6, <2>7, <2>9, <3>1 DEF RpStates
  <2> QED
    <3> HIDE DEF dst
    <3> QED
      BY <1>0, <2>5, <2>8, <2>10 DEF RpInv, RpTypes, Numbered
<1>3. ASSUME DeleteObject PROVE RpInv'
  <2> DEFINE old == IF rp.cur = 0 THEN "" ELSE rp.src[rp.cur].tag
             reached == Reachable(MarkerRules(old))
             r == [body |-> 0, marker |-> TRUE, tag |-> "", status |-> ""]
             copy == [r EXCEPT !.status = "REPLICA"]
             dst == [b \in RpBuckets |-> IF b \in reached THEN MarkerReplica(rp.dst[b], v, r) ELSE rp.dst[b]]
  <2>1. rp' = [rp EXCEPT !.ops = v, !.cur = v, !.src = Put(rp.src, v, r), !.dst = dst]
    BY <1>3, Zenon DEF DeleteObject
  <2>2. /\ r \in Version /\ copy \in Version /\ r.marker
        /\ copy.body = r.body /\ copy.marker = r.marker /\ copy.tag = r.tag /\ copy.status = "REPLICA"
    BY DEF Version, Tag
  <2>3. PICK src : src = Put(rp.src, v, r)
    OBVIOUS
  <2>4. src \in RowsOf(Version) /\ Sets(src, rp.src, v, r)
    <3> HIDE DEF r, v
    <3> QED
      BY <1>0, <2>2, <2>3, RowsPut
  <2>5. /\ Kept(rp.src, src, v) /\ v \in DOMAIN src /\ src[v] = r
        /\ Kept(rp.put, rp.put, v) /\ \A b \in RpBuckets : SameBut(rp.refs, rp.refs, b, v)
    BY <2>4 DEF Sets, Kept, SameBut
  <2>6. ASSUME NEW b \in RpBuckets PROVE dst[b] \in Bucket /\ Mirrors(dst[b], b, src, rp.put, rp.refs, v)
    <3> DEFINE d == rp.dst[b]
    <3>1. d \in Bucket /\ d.vers \in RowsOf(Version)
      BY <1>0 DEF Bucket
    <3>2. CASE b \in reached
      <4>1. PICK f : f = Put(d.vers, v, copy)
        OBVIOUS
      <4>2. f \in RowsOf(Version) /\ Sets(f, d.vers, v, copy)
        <5> HIDE DEF d, copy, v
        <5> QED
          BY <1>0, <2>2, <3>1, <4>1, RowsPut
      <4>3. dst[b] = [d EXCEPT !.cur = v, !.vers = f]
        <5>1. dst[b] = MarkerReplica(rp.dst[b], v, r)
          BY <3>2
        <5> QED
          BY <4>1, <5>1, Zenon DEF MarkerReplica
      <4>4. dst[b] \in Bucket /\ dst[b].cur = v /\ dst[b].vers = f
        <5> HIDE DEF d, dst, v
        <5> QED
          BY <1>0, <3>1, <4>2, <4>3 DEF Bucket
      <4>5. PICK e : e = dst[b]
        OBVIOUS
      <4> HIDE DEF r, copy, dst, v, reached
      <4>6. Mirrors(e, b, src, rp.put, rp.refs, v)
        <5>1. e.cur = v /\ Sets(e.vers, d.vers, v, copy) /\ Mirrors(d, b, rp.src, rp.put, rp.refs, rp.cur)
          BY <1>0, <4>2, <4>4, <4>5
        <5> HIDE DEF d
        <5> QED
          BY <1>0, <2>2, <2>5, <3>1, <5>1, Copied
      <4> QED
        BY <4>4, <4>5, <4>6
    <3>3. CASE b \notin reached
      <4>1. dst[b] = d
        BY <3>3
      <4> HIDE DEF r, copy, dst, v, reached
      <4>2. Mirrors(d, b, src, rp.put, rp.refs, v)
        BY <1>0, <2>5, <3>1, Passed
      <4> QED
        BY <3>1, <4>1, <4>2
    <3> QED
      BY <3>2, <3>3
  <2>7. dst \in [RpBuckets -> Bucket]
    BY <2>6
  <2> HIDE DEF dst, r, copy
  <2>8. /\ rp' \in RpStates /\ rp'.ops = v /\ rp'.src = src /\ rp'.put = rp.put /\ rp'.dst = dst /\ rp'.cur = v
        /\ rp'.refs = rp.refs
    <3>1. rp \in RpStates /\ rp' = [rp EXCEPT !.ops = v, !.cur = v, !.src = src, !.dst = dst]
      BY <2>1, <2>3 DEF RpInv, RpTypes
    <3> HIDE DEF v
    <3> QED
      BY <1>0, <2>4, <2>7, <3>1 DEF RpStates
  <2>9. DOMAIN src \subseteq 1 .. v /\ v \in DOMAIN src
    BY <1>0, <2>4 DEF Sets
  <2> QED
    BY <1>0, <2>6, <2>8, <2>9 DEF RpInv, RpTypes, Numbered
<1>4. ASSUME DeleteObjectTagging PROVE RpInv'
  <2> DEFINE cur == rp.cur
  <2>1. cur # 0 /\ cur \in DOMAIN rp.src /\ ~rp.src[cur].marker /\ rp.src[cur] \in Version
    BY <1>4, <1>0, RowsAt DEF DeleteObjectTagging, RpInv, Numbered
  <2>2. PICK r : r = [rp.src[cur] EXCEPT !.tag = ""]
    OBVIOUS
  <2>3. r \in Version /\ r.body = rp.src[cur].body /\ r.marker = rp.src[cur].marker
    BY <2>1, <2>2 DEF Version, Tag
  <2>4. PICK src : src = [rp.src EXCEPT ![cur] = r]
    OBVIOUS
  <2>5. /\ src \in RowsOf(Version) /\ DOMAIN src = DOMAIN rp.src
        /\ \A w \in DOMAIN rp.src : src[w] = IF w = cur THEN r ELSE rp.src[w]
    BY <1>0, <2>1, <2>3, <2>4 DEF RowsOf
  <2>6. rp' = [rp EXCEPT !.ops = v, !.src = src]
    BY <1>4, <2>2, <2>4 DEF DeleteObjectTagging
  <2>7. /\ rp' \in RpStates /\ rp'.ops = v /\ rp'.src = src /\ rp'.put = rp.put /\ rp'.dst = rp.dst /\ rp'.cur = cur
        /\ rp'.refs = rp.refs
    <3>1. rp \in RpStates
      BY DEF RpInv, RpTypes
    <3> HIDE DEF v
    <3> QED
      BY <1>0, <2>5, <2>6, <3>1 DEF RpStates
  <2>8. ASSUME NEW b \in RpBuckets PROVE Mirrors(rp.dst[b], b, src, rp.put, rp.refs, cur)
    BY <1>0, <2>3, <2>5 DEF Mirrors, Copies
  <2> QED
    BY <1>0, <2>5, <2>7, <2>8 DEF RpInv, RpTypes, Numbered
<1>5. ASSUME NEW rules \in RpRules, PutBucketReplication(rules) PROVE RpInv'
  <2>1. rp \in RpStates /\ rp' = [rp EXCEPT !.ops = v, !.rules = rules]
    BY <1>5 DEF PutBucketReplication, RpInv, RpTypes
  <2>2. /\ rp' \in RpStates /\ rp'.ops = v /\ rp'.src = rp.src /\ rp'.put = rp.put
        /\ rp'.dst = rp.dst /\ rp'.cur = rp.cur /\ rp'.refs = rp.refs
    <3> HIDE DEF v
    <3> QED
      BY <1>0, <2>1 DEF RpStates
  <2> QED
    BY <1>0, <2>2 DEF RpInv, RpTypes, Numbered
<1>6. ASSUME NEW b \in RpBuckets, DeleteDestination(b) \/ CreateDestination(b) PROVE RpInv'
  <2>1. PICK d : /\ d \in {NewBucket, [NewBucket EXCEPT !.up = FALSE]}
                 /\ rp' = [rp EXCEPT !.ops = v, !.dst[b] = d]
    BY <1>6 DEF DeleteDestination, CreateDestination
  <2>2. d \in Bucket /\ d.cur = 0 /\ DOMAIN d.vers = {}
    <3>1. NoRows \in RowsOf(Version) /\ DOMAIN NoRows = {}
      <4>1. NoRows \in [{} -> Version]
        BY DEF NoRows
      <4> QED
        BY <4>1 DEF RowsOf
    <3> QED
      <4>1. NewBucket \in Bucket /\ NewBucket.cur = 0 /\ NewBucket.vers = NoRows
        BY <3>1 DEF NewBucket, Bucket, Tag
      <4>2. CASE d = NewBucket
        BY <3>1, <4>1, <4>2
      <4>3. CASE d = [NewBucket EXCEPT !.up = FALSE]
        <5>1. d \in Bucket /\ d.cur = 0 /\ d.vers = NoRows
          BY <4>1, <4>3 DEF Bucket
        <5> QED
          BY <3>1, <5>1
      <4> QED
        BY <2>1, <4>2, <4>3
  <2>3. /\ rp' \in RpStates /\ rp'.ops = v /\ rp'.src = rp.src /\ rp'.put = rp.put
        /\ rp'.dst = [rp.dst EXCEPT ![b] = d] /\ rp'.cur = rp.cur /\ rp'.refs = rp.refs
    <3>1. rp \in RpStates
      BY DEF RpInv, RpTypes
    <3> HIDE DEF v
    <3> QED
      BY <1>0, <2>1, <2>2, <3>1 DEF RpStates
  <2>4. Mirrors(d, b, rp.src, rp.put, rp.refs, rp.cur)
    BY <1>0, <2>2 DEF Mirrors, Copies, Heads
  <2> QED
    BY <1>0, <2>3, <2>4 DEF RpInv, RpTypes, Numbered
<1>7. CASE UNCHANGED rpvars
  BY <1>7 DEF rpvars, RpInv, RpTypes, Numbered
<1> QED
  BY <1>1, <1>2, <1>3, <1>4, <1>5, <1>6, <1>7 DEF RpNext, Tag

\* The invariant holds at first.
LEMMA RpStart == RpInit => RpInv
<1> SUFFICES ASSUME RpInit PROVE RpInv
    OBVIOUS
<1>1. PICK rules \in RpRules :
        rp = [ops |-> 0, src |-> NoRows, cur |-> 0, dst |-> [b \in RpBuckets |-> NewBucket],
              refs |-> {}, rules |-> rules, put |-> NoRows]
  BY DEF RpInit
<1>2. NoRows \in RowsOf(Version) /\ NoRows \in RowsOf(Tag) /\ DOMAIN NoRows = {}
  <2>1. NoRows \in [{} -> Version] /\ NoRows \in [{} -> Tag] /\ {} \in SUBSET Nat
    BY DEF NoRows
  <2> QED
    BY <2>1 DEF RowsOf
<1>3. NewBucket \in Bucket /\ NewBucket.cur = 0 /\ NewBucket.vers = NoRows
  BY <1>2 DEF NewBucket, Bucket, Tag
<1>4. rp \in RpStates
  BY <1>1, <1>2, <1>3 DEF RpStates
<1>5. /\ rp.ops = 0 /\ rp.cur = 0 /\ rp.src = NoRows /\ rp.refs = {}
      /\ \A b \in RpBuckets : rp.dst[b] = NewBucket
  BY <1>1
<1> QED
  BY <1>2, <1>3, <1>4, <1>5 DEF RpInv, RpTypes, Numbered, Mirrors, Copies, Heads

\* Whatever is put, tagged, deleted and configured, and however destinations
\* come and go, a replica is the source's version with the tags last put on it,
\* and the tags of a destination's current key are those of its current version
\* (replication.go, for any number of destinations, rules and requests).
THEOREM ReplicasAreFaithful == RpSpec => []ReplicasAreTheSource
<1>1. RpInv => ReplicasAreTheSource
  BY DEF RpInv, Mirrors, Copies, Heads, ReplicasAreTheSource
<1> QED
  BY <1>1, RpStart, RpStep, PTL DEF RpSpec

\* A destination hides its copy under a delete marker only by a rule in force
\* that carries delete markers to it (replicateDeleteMarker), for any number of
\* destinations, rules and requests.
THEOREM MarkersNeedTheirRule == RpSpec => DeletesStayLocal
<1>1. ASSUME RpInv, RpNext, NEW b \in RpBuckets, rp.dst[b].up, rp'.dst[b].up, rp'.dst[b].cur # rp.dst[b].cur,
             rp'.dst[b].cur # 0, rp'.dst[b].vers[rp'.dst[b].cur].marker
      PROVE  \E r \in Rules : r.to = b /\ r.on /\ r.markers
  <2>1. rp \in RpStates /\ rp.dst \in [RpBuckets -> Bucket] /\ rp.dst[b] \in Bucket /\ rp.ops \in Nat
    BY <1>1 DEF RpInv, RpTypes, RpStates
  <2> DEFINE v == rp.ops + 1
  <2>2. ASSUME NEW tag \in Tag, PutObject(tag) PROVE FALSE
    <3> DEFINE reached == Reachable(Matching(tag))
               r == [body |-> v, marker |-> FALSE, tag |-> tag, status |-> Status(Matching(tag), reached)]
               dst == [x \in RpBuckets |-> IF x \in reached THEN Replica(rp.dst[x], v, r) ELSE rp.dst[x]]
    <3>1. rp' = [rp EXCEPT !.ops = v, !.cur = v, !.src = Put(rp.src, v, r), !.put = Put(rp.put, v, tag),
                           !.dst = dst, !.refs = rp.refs \union {<<x, v>> : x \in reached}]
      BY <2>2, Zenon DEF PutObject
    <3>2. rp'.dst[b] = IF b \in reached THEN Replica(rp.dst[b], v, r) ELSE rp.dst[b]
      <4>1. rp'.dst = dst
        <5> HIDE DEF dst, r, v, reached
        <5> QED
          BY <2>1, <3>1 DEF RpStates
      <4> QED
        BY <4>1
    <3>3. PICK copy : copy = [r EXCEPT !.status = "REPLICA"]
      OBVIOUS
    <3>4. ~copy.marker
      BY <3>3
    <3>5. PICK f : f = Put(rp.dst[b].vers, v, copy)
      OBVIOUS
    <3>6. f[v] = copy
      BY <3>5 DEF Put
    <3>7. b \in reached => rp'.dst[b] = [rp.dst[b] EXCEPT !.cur = v, !.curTag = tag, !.vers = f]
      BY <3>2, <3>3, <3>5, Zenon DEF Replica
    <3>8. b \in reached => rp'.dst[b].cur = v /\ rp'.dst[b].vers = f
      <4> HIDE DEF v
      <4> QED
        BY <2>1, <3>7 DEF Bucket
    <3> QED
      BY <1>1, <3>2, <3>4, <3>6, <3>8
  <2>3. CASE DeleteObject
    <3> DEFINE old == IF rp.cur = 0 THEN "" ELSE rp.src[rp.cur].tag
               reached == Reachable(MarkerRules(old))
               r == [body |-> 0, marker |-> TRUE, tag |-> "", status |-> ""]
               dst == [x \in RpBuckets |-> IF x \in reached THEN MarkerReplica(rp.dst[x], v, r) ELSE rp.dst[x]]
    <3>1. rp' = [rp EXCEPT !.ops = v, !.cur = v, !.src = Put(rp.src, v, r), !.dst = dst]
      BY <2>3, Zenon DEF DeleteObject
    <3>2. rp'.dst = dst
      <4> HIDE DEF dst, r, v
      <4> QED
        BY <2>1, <3>1 DEF RpStates
    <3>3. b \in reached
      BY <1>1, <3>2
    <3> QED
      BY <3>3 DEF Reachable, MarkerRules, Matching
  <2>4. ASSUME NEW tag \in Tag, PutObjectTagging(tag) PROVE FALSE
    <3>1. rp'.dst = SyncReplicaTags(rp.cur, tag)
      BY <2>1, <2>4 DEF PutObjectTagging, RpStates
    <3>2. rp'.dst[b].cur = rp.dst[b].cur
      BY <2>1, <3>1 DEF SyncReplicaTags, Bucket
    <3> QED
      BY <1>1, <3>2
  <2>5. CASE DeleteObjectTagging
    <3>1. rp'.dst = rp.dst
      BY <2>1, <2>5 DEF DeleteObjectTagging, RpStates
    <3> QED
      BY <1>1, <3>1
  <2>6. ASSUME NEW rules \in RpRules, PutBucketReplication(rules) PROVE FALSE
    <3>1. rp'.dst = rp.dst
      BY <2>1, <2>6 DEF PutBucketReplication, RpStates
    <3> QED
      BY <1>1, <3>1
  <2>7. ASSUME NEW x \in RpBuckets, DeleteDestination(x) \/ CreateDestination(x) PROVE FALSE
    <3>1. ASSUME NEW d, d.cur = 0, rp' = [rp EXCEPT !.ops = v, !.dst[x] = d] PROVE FALSE
      <4>1. rp'.dst = [rp.dst EXCEPT ![x] = d]
        BY <2>1, <3>1 DEF RpStates
      <4> QED
        BY <1>1, <2>1, <3>1, <4>1
    <3>2. CASE DeleteDestination(x)
      <4>1. PICK d : d = [NewBucket EXCEPT !.up = FALSE]
        OBVIOUS
      <4>2. d.cur = 0
        BY <4>1 DEF NewBucket
      <4>3. rp' = [rp EXCEPT !.ops = v, !.dst[x] = d]
        BY <3>2, <4>1 DEF DeleteDestination
      <4> QED
        BY <3>1, <4>2, <4>3
    <3>3. CASE CreateDestination(x)
      <4>1. PICK d : d = NewBucket
        OBVIOUS
      <4>2. d.cur = 0
        BY <4>1 DEF NewBucket
      <4>3. rp' = [rp EXCEPT !.ops = v, !.dst[x] = d]
        BY <3>3, <4>1 DEF CreateDestination
      <4> QED
        BY <3>1, <4>2, <4>3
    <3> QED
      BY <2>7, <3>2, <3>3
  <2> QED
    BY <1>1, <2>2, <2>3, <2>4, <2>5, <2>6, <2>7 DEF RpNext, Tag
<1>2. RpInv /\ [RpNext]_rpvars =>
        [\A b \in RpBuckets :
           rp.dst[b].up /\ rp'.dst[b].up /\ rp'.dst[b].cur # rp.dst[b].cur /\ rp'.dst[b].cur # 0
             /\ rp'.dst[b].vers[rp'.dst[b].cur].marker
           => \E r \in Rules : r.to = b /\ r.on /\ r.markers]_rpvars
  BY <1>1
<1> QED
  BY <1>2, RpStart, RpStep, PTL DEF RpSpec, DeletesStayLocal

-----------------------------------------------------------------------------
(* One key under concurrent requests.                                      *)

\* Records of the key and of requests; what next and wants hold is not at issue.
ObjRec(n) == [is : BOOLEAN, vid : Nat, body : Nat, marker : BOOLEAN, has : BOOLEAN, order : Seq(Nat), next : {n}]
ReqRec(w) == [pc : {"idle", "put", "record", "delete", "unrecord", "versioning", "unbucket"},
              status : {"", "Enabled", "Suspended"}, body : Nat, tagged : BOOLEAN,
              lock : {"none", "hold", "GOVERNANCE"}, wants : {w}, bypass : BOOLEAN, fresh : BOOLEAN]

KeyTypes ==
  /\ obj \in ObjRec(obj.next) /\ blob \in Nat /\ ops \in Nat
  /\ vers \in [DOMAIN vers -> [body : Nat, marker : BOOLEAN]] /\ DOMAIN vers \subseteq Nat \ {NoVer}
  /\ vblob \in [DOMAIN vblob -> Nat] /\ vstatus \in {"", "Enabled", "Suspended"}
  /\ req = [r \in S3Reqs |-> req[r]]

\* A request under way needs its bucket; one between blob and record works on
\* an unversioned bucket, and its blob is the current one.
RequestOK(q, up, status, current) ==
  /\ q \in ReqRec(q.wants)
  /\ q.pc # "idle" => up
  /\ q.pc \in {"record", "unrecord"} => status = ""
  /\ q.pc = "record" => current = q.body
  /\ q.pc = "versioning" => q.status # ""
KeyRequests == \A r \in S3Reqs : RequestOK(req[r], bucket, vstatus, blob)

\* The record o of a key that has the versions vs.
Shape(o, vs) ==
  IF DOMAIN vs = {} THEN o.vid = NoVer /\ ~o.marker /\ ~o.has
  ELSE /\ o.is /\ o.has /\ Len(o.order) > 0 /\ IsInjective(o.order) /\ ToSet(o.order) = DOMAIN vs
       /\ o.vid = Last(o.order) /\ o.body = vs[o.vid].body /\ o.marker = vs[o.vid].marker

VersionBlobs ==
  /\ DOMAIN vblob = {v \in DOMAIN vers : ~vers[v].marker}
  /\ \A v \in DOMAIN vblob : vblob[v] = vers[v].body
CurrentBlob == Live /\ (DOMAIN vers = {} => Settled) => blob = obj.body
Tagged == DOMAIN s3tags \subseteq {NoVer} \union DOMAIN vers /\ TagsAgree
Emptied ==
  ~bucket => /\ ~obj.is /\ DOMAIN vers = {} /\ vstatus = ""
             /\ s3tags = NoRows /\ holds = NoRows /\ rets = NoRows

KeyGood ==
  /\ KeyTypes /\ KeyRequests /\ Shape(obj, vers) /\ (vstatus = "" => DOMAIN vers = {})
  /\ VersionBlobs /\ CurrentBlob /\ Tagged /\ Emptied
KeyInv == ~raced => KeyGood

\* Orders of versions.
LEMMA RemoveAtIs ==
  ASSUME NEW s \in Seq(Nat), NEW i \in 1 .. Len(s)
  PROVE  /\ RemoveAt(s, i) \in Seq(Nat) /\ Len(RemoveAt(s, i)) = Len(s) - 1
         /\ \A j \in 1 .. Len(s) - 1 : RemoveAt(s, i)[j] = IF j < i THEN s[j] ELSE s[j + 1]
<1> DEFINE front == SubSeq(s, 1, i - 1)
           back == SubSeq(s, i + 1, Len(s))
<1>1. front \in Seq(Nat) /\ Len(front) = i - 1 /\ \A j \in 1 .. i - 1 : front[j] = s[j]
  OBVIOUS
<1>2. back \in Seq(Nat) /\ Len(back) = Len(s) - i /\ \A j \in 1 .. Len(s) - i : back[j] = s[i + j]
  <2>1. i + 1 \in Nat /\ Len(s) \in Nat /\ i \in Nat
    OBVIOUS
  <2>2. back \in Seq(Nat) /\ Len(back) = Len(s) - i
    BY <2>1
  <2>3. \A j \in 1 .. Len(s) - i : back[j] = s[(i + 1) + j - 1]
    BY <2>1
  <2>4. \A j \in 1 .. Len(s) - i : (i + 1) + j - 1 = i + j
    BY <2>1
  <2> QED
    BY <2>2, <2>3, <2>4
<1> HIDE DEF front, back
<1> DEFINE both == front \o back
<1>3. /\ both \in Seq(Nat) /\ Len(both) = Len(front) + Len(back)
      /\ \A j \in 1 .. Len(front) + Len(back) :
           both[j] = IF j <= Len(front) THEN front[j] ELSE back[j - Len(front)]
  BY <1>1, <1>2, ConcatProperties
<1>4. RemoveAt(s, i) = both
  BY DEF RemoveAt, front, back
<1> HIDE DEF both
<1>5. Len(s) \in Nat /\ i \in Nat /\ i >= 1 /\ i <= Len(s) /\ Len(front) = i - 1 /\ Len(back) = Len(s) - i
  BY <1>1, <1>2
<1>6. both \in Seq(Nat) /\ Len(both) = Len(s) - 1
  BY <1>3, <1>5
<1>7. ASSUME NEW j \in 1 .. Len(s) - 1 PROVE both[j] = IF j < i THEN s[j] ELSE s[j + 1]
  <2>1. CASE j < i
    <3>1. both[j] = front[j]
      <4>1. j \in 1 .. Len(front) + Len(back) /\ j <= Len(front)
        BY <1>5, <2>1
      <4> QED
        BY <1>3, <4>1
    <3> QED
      BY <1>1, <1>5, <2>1, <3>1
  <2>2. CASE j >= i
    <3>1. both[j] = back[j - (i - 1)]
      <4>1. j \in 1 .. Len(front) + Len(back) /\ ~(j <= Len(front)) /\ j - Len(front) = j - (i - 1)
        BY <1>5, <2>2
      <4> QED
        BY <1>3, <4>1
    <3>2. j - (i - 1) \in 1 .. Len(s) - i /\ i + (j - (i - 1)) = j + 1
      BY <1>5, <2>2
    <3> QED
      BY <1>2, <1>5, <2>2, <3>1, <3>2
  <2> QED
    BY <1>5, <2>1, <2>2
<1> QED
  BY <1>4, <1>6, <1>7

LEMMA WithoutIs ==
  ASSUME NEW s \in Seq(Nat), IsInjective(s), NEW v \in Nat
  PROVE  /\ Without(s, v) \in Seq(Nat) /\ IsInjective(Without(s, v))
         /\ ToSet(Without(s, v)) = ToSet(s) \ {v}
         /\ Len(s) > 0 /\ Last(s) # v => Len(Without(s, v)) > 0 /\ Last(Without(s, v)) = Last(s)
<1>1. CASE v \notin ToSet(s)
  BY <1>1 DEF Without
<1>2. CASE v \in ToSet(s)
  <2> DEFINE i == CHOOSE j \in DOMAIN s : s[j] = v
             t == RemoveAt(s, i)
  <2>1. i \in 1 .. Len(s) /\ s[i] = v
    BY <1>2 DEF ToSet
  <2>2. Without(s, v) = t
    BY <1>2 DEF Without
  <2> HIDE DEF i
  <2>3. /\ t \in Seq(Nat) /\ Len(t) = Len(s) - 1
        /\ \A j \in 1 .. Len(s) - 1 : t[j] = IF j < i THEN s[j] ELSE s[j + 1]
    BY <2>1, RemoveAtIs
  <2> HIDE DEF t
  <2>4. \A j \in 1 .. Len(s) : s[j] = v => j = i
    BY <2>1 DEF IsInjective
  <2>5. IsInjective(t)
    <3> SUFFICES ASSUME NEW a \in 1 .. Len(s) - 1, NEW b \in 1 .. Len(s) - 1, t[a] = t[b] PROVE a = b
      <4>1. DOMAIN t = 1 .. Len(s) - 1
        BY <2>3
      <4> QED
        BY <4>1 DEF IsInjective
    <3>1. t[a] = (IF a < i THEN s[a] ELSE s[a + 1]) /\ t[b] = (IF b < i THEN s[b] ELSE s[b + 1])
      BY <2>3
    <3>2. \A c, d \in 1 .. Len(s) : s[c] = s[d] => c = d
      <4>1. DOMAIN s = 1 .. Len(s)
        OBVIOUS
      <4> QED
        BY <4>1 DEF IsInjective
    <3>3. Len(s) \in Nat /\ a \in Nat /\ b \in Nat /\ i \in Nat /\ a >= 1 /\ b >= 1 /\ a <= Len(s) - 1 /\ b <= Len(s) - 1
      BY <2>1
    <3> DEFINE p == IF a < i THEN a ELSE a + 1
               q == IF b < i THEN b ELSE b + 1
    <3>4. p \in 1 .. Len(s) /\ q \in 1 .. Len(s)
      BY <3>3
    <3>5. s[p] = s[q]
      BY <3>1
    <3>6. p = q
      BY <3>2, <3>4, <3>5
    <3> QED
      BY <3>3, <3>6
  <2>0. DOMAIN t = 1 .. Len(s) - 1 /\ DOMAIN s = 1 .. Len(s)
    BY <2>3
  <2>6. \A x : x \in ToSet(t) => x \in ToSet(s) \ {v}
    <3> SUFFICES ASSUME NEW a \in 1 .. Len(s) - 1 PROVE t[a] \in ToSet(s) \ {v}
      BY <2>0, Zenon DEF ToSet
    <3>1. PICK j \in 1 .. Len(s) : j # i /\ t[a] = s[j]
      <4>1. (IF a < i THEN a ELSE a + 1) \in 1 .. Len(s) /\ (IF a < i THEN a ELSE a + 1) # i
        BY <2>1
      <4> QED
        BY <2>3, <4>1
    <3>2. s[j] # v
      BY <2>4, <3>1
    <3> QED
      BY <2>0, <3>1, <3>2 DEF ToSet
  <2>7. \A x : x \in ToSet(s) \ {v} => x \in ToSet(t)
    <3> SUFFICES ASSUME NEW a \in 1 .. Len(s), s[a] # v PROVE \E b \in 1 .. Len(s) - 1 : t[b] = s[a]
      BY <2>0, Zenon DEF ToSet
    <3>1. CASE a < i
      <4>1. a \in 1 .. Len(s) - 1 /\ t[a] = s[a]
        BY <2>1, <2>3, <3>1
      <4> QED
        BY <4>1
    <3>2. CASE a > i
      <4>1. a - 1 \in 1 .. Len(s) - 1 /\ t[a - 1] = s[a]
        BY <2>1, <2>3, <3>2
      <4> QED
        BY <4>1
    <3> QED
      BY <2>1, <3>1, <3>2
  <2>8. Len(s) > 0 /\ Last(s) # v => Len(t) > 0 /\ Last(t) = Last(s)
    BY <2>1, <2>3 DEF Last
  <2> QED
    BY <2>2, <2>3, <2>5, <2>6, <2>7, <2>8
<1> QED
  BY <1>1, <1>2

LEMMA AppendIs ==
  ASSUME NEW s \in Seq(Nat), IsInjective(s), NEW v \in Nat, v \notin ToSet(s)
  PROVE  /\ Append(s, v) \in Seq(Nat) /\ Len(Append(s, v)) > 0 /\ IsInjective(Append(s, v))
         /\ ToSet(Append(s, v)) = ToSet(s) \union {v} /\ Last(Append(s, v)) = v
<1> DEFINE t == Append(s, v)
<1>1. /\ t \in Seq(Nat) /\ Len(t) = Len(s) + 1 /\ t[Len(s) + 1] = v
      /\ \A j \in 1 .. Len(s) : t[j] = s[j]
  OBVIOUS
<1> HIDE DEF t
<1>0. DOMAIN s = 1 .. Len(s) /\ DOMAIN t = 1 .. Len(s) + 1 /\ Len(s) \in Nat
  BY <1>1
<1>2. \A j \in 1 .. Len(s) : s[j] # v
  BY <1>0 DEF ToSet
<1>3. IsInjective(t)
  <2>1. \A a, b \in 1 .. Len(s) : s[a] = s[b] => a = b
    BY <1>0 DEF IsInjective
  <2> SUFFICES ASSUME NEW a \in 1 .. Len(s) + 1, NEW b \in 1 .. Len(s) + 1, t[a] = t[b] PROVE a = b
    BY <1>0 DEF IsInjective
  <2>2. \A c \in 1 .. Len(s) + 1 : c \in 1 .. Len(s) \/ c = Len(s) + 1
    BY <1>0
  <2>3. CASE a \in 1 .. Len(s) /\ b \in 1 .. Len(s)
    BY <1>1, <2>1, <2>3
  <2>4. CASE a = Len(s) + 1 \/ b = Len(s) + 1
    BY <1>1, <1>2, <2>2, <2>4
  <2> QED
    BY <2>2, <2>3, <2>4
<1>4. ToSet(t) = ToSet(s) \union {v}
  <2>1. \A x : x \in ToSet(t) => x \in ToSet(s) \union {v}
    <3> SUFFICES ASSUME NEW j \in 1 .. Len(s) + 1 PROVE t[j] \in ToSet(s) \union {v}
      BY <1>0 DEF ToSet
    <3>1. CASE j \in 1 .. Len(s)
      BY <1>0, <1>1, <3>1 DEF ToSet
    <3> QED
      BY <1>0, <1>1, <3>1
  <2>2. \A x \in ToSet(s) : x \in ToSet(t)
    <3> SUFFICES ASSUME NEW j \in 1 .. Len(s) PROVE s[j] \in ToSet(t)
      BY <1>0 DEF ToSet
    <3>1. j \in DOMAIN t /\ t[j] = s[j]
      BY <1>0, <1>1
    <3> QED
      BY <3>1 DEF ToSet
  <2>3. v \in ToSet(t)
    <3>1. Len(s) + 1 \in DOMAIN t
      BY <1>1
    <3> QED
      BY <1>1, <3>1 DEF ToSet
  <2> QED
    BY <2>1, <2>2, <2>3
<1> QED
  BY <1>1, <1>3, <1>4 DEF Last, t

LEMMA AscendingOfNone == Ascending({}) \in Seq(Nat) /\ Len(Ascending({})) = 0
<1>1. Cardinality({}) = 0
  BY FS_EmptySet
<1>2. PICK t : t \in [1 .. 0 -> {}]
  <2>1. [x \in {} |-> x] \in [1 .. 0 -> {}]
    OBVIOUS
  <2> QED
    BY <2>1
<1>3. Ascending({}) = CHOOSE u \in [1 .. 0 -> {}] : \A i, j \in DOMAIN u : i < j => u[i] < u[j]
  BY <1>1 DEF Ascending
<1>4. \A i, j \in DOMAIN t : i < j => t[i] < t[j]
  BY <1>2
<1>5. Ascending({}) \in [1 .. 0 -> {}]
  BY <1>2, <1>3, <1>4
<1>6. Ascending({}) \in [1 .. 0 -> Nat]
  BY <1>5
<1> QED
  BY <1>6

\* What a step needs to know of the requests and of the key.
LEMMA KeyFacts ==
  ASSUME KeyGood
  PROVE  /\ blob \in Nat /\ ops \in Nat /\ ops + 1 \in Nat
         /\ obj.vid \in Nat /\ obj.body \in Nat /\ obj.is \in BOOLEAN /\ obj.marker \in BOOLEAN
         /\ obj.has \in BOOLEAN /\ obj.order \in Seq(Nat)
         /\ DOMAIN req = S3Reqs
         /\ \A r \in S3Reqs : RequestOK(req[r], bucket, vstatus, blob)
         /\ \A v \in DOMAIN vers : v \in Nat /\ v # NoVer /\ vers[v].body \in Nat /\ vers[v].marker \in BOOLEAN
         /\ obj.vid # NoVer => obj.vid \in DOMAIN vers
         /\ DOMAIN vers # {} => obj.vid \in DOMAIN vers
<1>1. obj \in ObjRec(obj.next)
  BY DEF KeyGood, KeyTypes
<1>2. /\ obj.vid \in Nat /\ obj.body \in Nat /\ obj.is \in BOOLEAN /\ obj.marker \in BOOLEAN
      /\ obj.has \in BOOLEAN /\ obj.order \in Seq(Nat)
  BY <1>1 DEF ObjRec
<1>3. DOMAIN vers # {} => obj.vid \in DOMAIN vers
  <2> SUFFICES ASSUME DOMAIN vers # {} PROVE obj.vid \in DOMAIN vers
    OBVIOUS
  <2>1. Len(obj.order) > 0 /\ obj.vid = Last(obj.order) /\ ToSet(obj.order) = DOMAIN vers
    BY DEF KeyGood, Shape
  <2> QED
    BY <1>2, <2>1 DEF Last, ToSet
<1>4. obj.vid # NoVer => DOMAIN vers # {}
  BY DEF KeyGood, Shape
<1>5. DOMAIN req = S3Reqs
  <2>1. req = [r \in S3Reqs |-> req[r]]
    BY DEF KeyGood, KeyTypes
  <2> QED
    BY <2>1
<1>6. \A v \in DOMAIN vers : v \in Nat /\ v # NoVer /\ vers[v].body \in Nat /\ vers[v].marker \in BOOLEAN
  BY DEF KeyGood, KeyTypes
<1> QED
  <2>1. \A r \in S3Reqs : RequestOK(req[r], bucket, vstatus, blob)
    BY Zenon DEF KeyGood, KeyRequests
  <2>2. blob \in Nat /\ ops \in Nat
    BY DEF KeyGood, KeyTypes
  <2>3. ops + 1 \in Nat
    BY <2>2
  <2> QED
    BY <1>2, <1>3, <1>4, <1>5, <1>6, <2>1, <2>2, <2>3

\* The order on which a write or a version deletion works.
LEMMA OrderIs ==
  ASSUME KeyGood
  PROVE  ObjectVersionOrder \in Seq(Nat) /\ IsInjective(ObjectVersionOrder) /\ ToSet(ObjectVersionOrder) = DOMAIN vers
<1>1. CASE DOMAIN vers = {}
  <2>1. obj.vid = NoVer /\ ~obj.has
    BY <1>1 DEF KeyGood, Shape
  <2>2. DOMAIN vers \ {obj.vid} = {}
    BY <1>1
  <2>3. ObjectVersionOrder = Ascending({}) \o << >>
    BY <2>1, <2>2 DEF ObjectVersionOrder, ListedOrder
  <2>4. ObjectVersionOrder \in Seq(Nat) /\ Len(ObjectVersionOrder) = 0
    BY <2>3, AscendingOfNone, ConcatEmptySeq
  <2> QED
    BY <1>1, <2>4 DEF IsInjective, ToSet
<1>2. CASE DOMAIN vers # {}
  BY <1>2, KeyFacts DEF KeyGood, Shape, ObjectVersionOrder
<1> QED
  BY <1>1, <1>2

\* The record of a new current version (putObject, a delete marker).
LEMMA NewCurrentIs ==
  ASSUME KeyGood, NEW v \in Nat \ {NoVer}, NEW body \in Nat, NEW marker \in BOOLEAN, NEW next,
         NEW o, o = NewCurrent(v, body, marker, next)
  PROVE  /\ o \in ObjRec(o.next) /\ o.is /\ o.has /\ o.vid = v /\ o.body = body /\ o.marker = marker
         /\ Len(o.order) > 0 /\ IsInjective(o.order) /\ ToSet(o.order) = DOMAIN vers \union {v}
         /\ Last(o.order) = v
<1> DEFINE kept == Without(ObjectVersionOrder, v)
<1>1. kept \in Seq(Nat) /\ IsInjective(kept) /\ ToSet(kept) = DOMAIN vers \ {v}
  BY OrderIs, WithoutIs
<1> HIDE DEF kept
<1> DEFINE order == Append(kept, v)
<1>2. /\ order \in Seq(Nat) /\ Len(order) > 0 /\ IsInjective(order)
      /\ ToSet(order) = DOMAIN vers \union {v} /\ Last(order) = v
  BY <1>1, AppendIs
<1>3. o = [is |-> TRUE, vid |-> v, body |-> body, marker |-> marker, has |-> TRUE, order |-> order, next |-> next]
  BY DEF NewCurrent, kept
<1> HIDE DEF order
<1>4. o \in ObjRec(next) /\ o.next = next
  BY <1>2, <1>3 DEF ObjRec
<1> QED
  BY <1>2, <1>3, <1>4

\* A write of version v that becomes the current one: what is left to say of
\* blobs, tags and requests.
LEMMA Promoted ==
  ASSUME KeyGood, NEW v \in Nat \ {NoVer}, NEW body \in Nat, NEW marker \in BOOLEAN, NEW next,
         obj' = NewCurrent(v, body, marker, next),
         vers' = Put(vers, v, [body |-> body, marker |-> marker])
  PROVE  /\ Shape(obj, vers)' /\ DOMAIN vers' = DOMAIN vers \union {v}
         /\ obj' \in ObjRec(obj'.next) /\ obj'.vid = v /\ obj'.marker = marker /\ obj'.body = body /\ obj'.is
         /\ vers' \in [DOMAIN vers' -> [body : Nat, marker : BOOLEAN]] /\ DOMAIN vers' \subseteq Nat \ {NoVer}
         /\ vers'[v] = [body |-> body, marker |-> marker]
         /\ \A w \in DOMAIN vers : w # v => vers'[w] = vers[w]
<1>1. /\ obj' \in ObjRec(obj'.next) /\ obj'.is /\ obj'.has /\ obj'.vid = v /\ obj'.body = body /\ obj'.marker = marker
      /\ Len(obj'.order) > 0 /\ IsInjective(obj'.order) /\ ToSet(obj'.order) = DOMAIN vers \union {v}
      /\ Last(obj'.order) = v
  <2> DEFINE o == obj'
  <2>1. o = NewCurrent(v, body, marker, next)
    OBVIOUS
  <2> HIDE DEF o
  <2>2. /\ o \in ObjRec(o.next) /\ o.is /\ o.has /\ o.vid = v /\ o.body = body /\ o.marker = marker
        /\ Len(o.order) > 0 /\ IsInjective(o.order) /\ ToSet(o.order) = DOMAIN vers \union {v}
        /\ Last(o.order) = v
    BY <2>1, NewCurrentIs
  <2> QED
    BY <2>2 DEF o
<1>2. vers \in [DOMAIN vers -> [body : Nat, marker : BOOLEAN]] /\ DOMAIN vers \subseteq Nat \ {NoVer}
  BY DEF KeyGood, KeyTypes
<1>3. /\ DOMAIN vers' = DOMAIN vers \union {v}
      /\ vers'[v] = [body |-> body, marker |-> marker]
      /\ \A w \in DOMAIN vers : w # v => vers'[w] = vers[w]
  BY DEF Put
<1>4. vers' \in [DOMAIN vers' -> [body : Nat, marker : BOOLEAN]] /\ DOMAIN vers' \subseteq Nat \ {NoVer}
  <2>1. vers' = [w \in DOMAIN vers \union {v} |-> IF w = v THEN [body |-> body, marker |-> marker] ELSE vers[w]]
    BY DEF Put
  <2> QED
    BY <1>2, <1>3, <2>1
<1>5. Shape(obj, vers)'
  BY <1>1, <1>3 DEF Shape
<1> QED
  BY <1>1, <1>3, <1>4, <1>5

\* One request moves on to rec; the others are as they were.
LEMMA RequestsKeep ==
  ASSUME KeyGood, NEW r \in S3Reqs, NEW rec, req' = [req EXCEPT ![r] = rec],
         RequestOK(rec, bucket', vstatus', blob'),
         \A q \in S3Reqs : q # r => RequestOK(req[q], bucket', vstatus', blob')
  PROVE  /\ KeyRequests' /\ req' = [q \in S3Reqs |-> req'[q]]
         /\ req'[r] = rec /\ \A q \in S3Reqs : q # r => req'[q] = req[q]
<1>1. req = [q \in S3Reqs |-> req[q]]
  BY DEF KeyGood, KeyTypes
<1>2. /\ req' = [q \in S3Reqs |-> req'[q]]
      /\ req'[r] = rec /\ \A q \in S3Reqs : q # r => req'[q] = req[q]
  BY <1>1
<1>3. \A q \in S3Reqs : RequestOK(req'[q], bucket', vstatus', blob')
  BY <1>2
<1> QED
  BY <1>2, <1>3 DEF KeyRequests

LEMMA IdleIsOK == \A up, status, current : RequestOK(IdleReq, up, status, current)
<1>1. IdleReq \in ReqRec(IdleReq.wants)
  BY DEF IdleReq, ReqRec
<1> QED
  BY <1>1 DEF RequestOK, IdleReq

\* The end of an entry of a deletion.
LEMMA ChildEndsIs ==
  ASSUME KeyGood, NEW r \in S3Reqs, req[r].pc # "idle", ChildEnds(r),
         NEW status, NEW current
  PROVE  \E rec : /\ req' = [req EXCEPT ![r] = rec] /\ RequestOK(rec, bucket, status, current)
                  /\ rec.pc \in {"idle", "delete"}
<1>1. req[r] \in ReqRec(req[r].wants) /\ bucket
  BY KeyFacts DEF RequestOK
<1>2. vstatus \in {"", "Enabled", "Suspended"}
  BY DEF KeyGood, KeyTypes
<1>3. CASE Len(req[r].wants) = 1
  <2>1. req' = [req EXCEPT ![r] = IdleReq]
    BY <1>3 DEF ChildEnds
  <2>2. IdleReq.pc \in {"idle", "delete"}
    BY DEF IdleReq
  <2>3. RequestOK(IdleReq, bucket, status, current)
    BY IdleIsOK
  <2> QED
    BY <2>1, <2>2, <2>3
<1>4. CASE Len(req[r].wants) # 1
  <2>1. PICK rec : rec = Child(req[r], Tail(req[r].wants))
    OBVIOUS
  <2>2. req' = [req EXCEPT ![r] = rec]
    BY <1>1, <1>4, <2>1 DEF ChildEnds
  <2>3. PICK w : rec = [req[r] EXCEPT !.pc = "delete", !.status = vstatus, !.wants = w]
    BY <2>1 DEF Child
  <2>4. rec \in ReqRec(w) /\ rec.wants = w /\ rec.pc = "delete"
    BY <1>1, <1>2, <2>3 DEF ReqRec
  <2>5. RequestOK(rec, bucket, status, current)
    BY <1>1, <2>4 DEF RequestOK
  <2> QED
    BY <2>2, <2>4, <2>5
<1> QED
  BY <1>3, <1>4

\* A step that leaves the key alone.
LEMMA KeyUntouched ==
  ASSUME KeyGood, UNCHANGED <<bucket, vstatus, obj, vers, blob, vblob, s3tags>>,
         ~bucket => UNCHANGED <<holds, rets>>,
         KeyRequests', req' = [q \in S3Reqs |-> req'[q]], ops' \in Nat, Settled' => Settled
  PROVE  KeyGood'
<1>1. KeyTypes'
  BY DEF KeyGood, KeyTypes
<1>2. Shape(obj, vers)' /\ (vstatus = "" => DOMAIN vers = {})'
  BY DEF KeyGood
<1>3. VersionBlobs' /\ CurrentBlob'
  BY DEF KeyGood, VersionBlobs, CurrentBlob, Live
<1>4. Tagged'
  BY DEF KeyGood, Tagged, TagsAgree, Live
<1>5. Emptied'
  BY DEF KeyGood, Emptied
<1> QED
  BY <1>1, <1>2, <1>3, <1>4, <1>5 DEF KeyGood

\* A request begins.
LEMMA BeginsKeeps ==
  ASSUME KeyGood, NEW r \in S3Reqs, NEW rec, Begins(r, rec), bucket,
         UNCHANGED <<config, content>>, rec.pc \notin {"record", "unrecord"},
         RequestOK(rec, bucket, vstatus, blob)
  PROVE  KeyGood'
<1>1. UNCHANGED <<bucket, vstatus, obj, vers, blob, vblob, s3tags, holds, rets>>
  BY DEF config, content
<1>2. req' = [req EXCEPT ![r] = rec] /\ ops' \in Nat /\ req[r].pc = "idle"
  BY KeyFacts DEF Begins, IdleR
<1>3. /\ KeyRequests' /\ req' = [q \in S3Reqs |-> req'[q]]
      /\ req'[r] = rec /\ \A q \in S3Reqs : q # r => req'[q] = req[q]
  BY <1>1, <1>2, KeyFacts, RequestsKeep
<1>4. Settled' => Settled
  BY <1>2, <1>3 DEF Settled
<1> QED
  BY <1>1, <1>2, <1>3, <1>4, KeyUntouched

LEMMA PutBeginsKeeps ==
  ASSUME KeyGood, NEW r \in S3Reqs, NEW l \in {"none", "hold", "GOVERNANCE"}, NEW t \in BOOLEAN, PutBegins(r, l, t)
  PROVE  KeyGood'
<1>1. PICK n \in Nat : n = ops + 1
  BY KeyFacts
<1>2. PICK rec : rec = [IdleReq EXCEPT !.pc = "put", !.status = vstatus, !.body = n, !.lock = l, !.tagged = t]
  OBVIOUS
<1>3. vstatus \in {"", "Enabled", "Suspended"}
  BY DEF KeyGood, KeyTypes
<1>4. rec \in ReqRec(rec.wants) /\ rec.pc = "put"
  BY <1>2, <1>3 DEF IdleReq, ReqRec
<1>5. Begins(r, rec) /\ bucket /\ UNCHANGED <<config, content>>
  BY <1>1, <1>2 DEF PutBegins
<1> QED
  BY <1>4, <1>5, BeginsKeeps DEF RequestOK

LEMMA DeleteBeginsKeeps ==
  ASSUME KeyGood, NEW r \in S3Reqs, NEW wants, NEW b \in BOOLEAN, DeleteBegins(r, wants, b)
  PROVE  KeyGood'
<1>1. PICK n \in Nat : n = ops + 1
  BY KeyFacts
<1>2. PICK w, rec : rec = [IdleReq EXCEPT !.bypass = b, !.body = n, !.pc = "delete", !.status = vstatus, !.wants = w]
                    /\ Begins(r, rec)
  BY <1>1 DEF DeleteBegins, Child, IdleReq
<1>3. vstatus \in {"", "Enabled", "Suspended"}
  BY DEF KeyGood, KeyTypes
<1>4. rec \in ReqRec(rec.wants) /\ rec.pc = "delete"
  BY <1>2, <1>3 DEF IdleReq, ReqRec
<1>5. bucket /\ UNCHANGED <<config, content>>
  BY DEF DeleteBegins
<1> QED
  BY <1>2, <1>4, <1>5, BeginsKeeps DEF RequestOK

LEMMA VersioningBeginsKeeps ==
  ASSUME KeyGood, NEW r \in S3Reqs, NEW st \in {"Enabled", "Suspended"}, VersioningBegins(r, st)
  PROVE  KeyGood'
<1>1. PICK f \in BOOLEAN : f = (vstatus = "")
  BY Zenon
<1>2. PICK rec : rec = [IdleReq EXCEPT !.pc = "versioning", !.status = st, !.fresh = f]
  OBVIOUS
<1>3. rec \in ReqRec(rec.wants) /\ rec.pc = "versioning" /\ rec.status = st
  BY <1>2 DEF IdleReq, ReqRec
<1>4. Begins(r, rec) /\ bucket /\ UNCHANGED <<config, content>>
  BY <1>1, <1>2 DEF VersioningBegins
<1> QED
  BY <1>3, <1>4, BeginsKeeps DEF RequestOK

LEMMA DeleteBucketBeginsKeeps ==
  ASSUME KeyGood, NEW r \in S3Reqs, DeleteBucketBegins(r)
  PROVE  KeyGood'
<1>1. PICK rec : rec = [IdleReq EXCEPT !.pc = "unbucket"]
  OBVIOUS
<1>2. rec \in ReqRec(rec.wants) /\ rec.pc = "unbucket"
  BY <1>1 DEF IdleReq, ReqRec
<1>3. Begins(r, rec) /\ bucket /\ UNCHANGED <<config, content>>
  BY <1>1 DEF DeleteBucketBegins
<1> QED
  BY <1>2, <1>3, BeginsKeeps DEF RequestOK

LEMMA DeleteRefusedKeeps ==
  ASSUME KeyGood, NEW r \in S3Reqs, DeleteRefused(r)
  PROVE  KeyGood'
<1>1. UNCHANGED <<bucket, vstatus, obj, vers, blob, vblob, s3tags, holds, rets, ops>> /\ req[r].pc = "delete" /\ ChildEnds(r)
  BY DEF DeleteRefused, DeleteAt, config, content
<1>2. PICK rec : /\ req' = [req EXCEPT ![r] = rec] /\ RequestOK(rec, bucket, vstatus, blob)
                 /\ rec.pc \in {"idle", "delete"}
  BY <1>1, ChildEndsIs
<1>3. /\ KeyRequests' /\ req' = [q \in S3Reqs |-> req'[q]]
      /\ req'[r] = rec /\ \A q \in S3Reqs : q # r => req'[q] = req[q]
  BY <1>1, <1>2, KeyFacts, RequestsKeep
<1>4. Settled' => Settled
  BY <1>1, <1>3 DEF Settled
<1> QED
  BY <1>1, <1>3, <1>4, KeyFacts, KeyUntouched

\* A versioned write to version v under versionMu: the requests, which cannot
\* be between blob and record on a versioned bucket.
LEMMA VersionedStep ==
  ASSUME KeyGood, vstatus # "", NEW r \in S3Reqs, NEW rec, req' = [req EXCEPT ![r] = rec],
         UNCHANGED <<bucket, vstatus>>, RequestOK(rec, bucket, vstatus, blob'), bucket
  PROVE  /\ KeyRequests' /\ req' = [q \in S3Reqs |-> req'[q]]
         /\ (vstatus = "" => DOMAIN vers = {})' /\ Emptied'
<1>1. ASSUME NEW q \in S3Reqs PROVE RequestOK(req[q], bucket', vstatus', blob')
  BY KeyFacts DEF RequestOK
<1>2. RequestOK(rec, bucket', vstatus', blob')
  OBVIOUS
<1>3. KeyRequests' /\ req' = [q \in S3Reqs |-> req'[q]]
  BY <1>1, <1>2, RequestsKeep
<1> QED
  BY <1>3 DEF Emptied

LEMMA PutVersionedKeeps ==
  ASSUME KeyGood, NEW r \in S3Reqs, PutVersioned(r), ~raced'
  PROVE  KeyGood'
<1> DEFINE v == WriteVid(req[r].status, req[r].body)
           row == [body |-> req[r].body, marker |-> FALSE]
<1>1. /\ req[r].status = vstatus /\ vstatus # "" /\ bucket /\ req' = [req EXCEPT ![r] = IdleReq]
      /\ UNCHANGED <<bucket, vstatus, ops>>
      /\ blob' = req[r].body /\ vblob' = Put(vblob, v, req[r].body)
      /\ vers' = Put(vers, v, row) /\ obj' = NewCurrent(v, req[r].body, FALSE, obj.next)
      /\ TagsWritten({NoVer, v}, req[r].tagged, req[r].body)
  BY DEF PutVersioned, Finish, config
<1>2. req[r].body \in Nat /\ req[r].tagged \in BOOLEAN
  BY KeyFacts DEF RequestOK, ReqRec
<1>3. v \in Nat \ {NoVer}
  BY <1>2 DEF WriteVid, NullVer, NoVer
<1> HIDE DEF v
<1>4. /\ Shape(obj, vers)' /\ DOMAIN vers' = DOMAIN vers \union {v}
      /\ obj' \in ObjRec(obj'.next) /\ obj'.vid = v /\ ~obj'.marker /\ obj'.body = req[r].body /\ obj'.is
      /\ vers' \in [DOMAIN vers' -> [body : Nat, marker : BOOLEAN]] /\ DOMAIN vers' \subseteq Nat \ {NoVer}
      /\ vers'[v] = row
      /\ \A w \in DOMAIN vers : w # v => vers'[w] = vers[w]
  BY <1>1, <1>2, <1>3, Promoted
<1>5. KeyRequests' /\ req' = [q \in S3Reqs |-> req'[q]] /\ (vstatus = "" => DOMAIN vers = {})' /\ Emptied'
  BY <1>1, IdleIsOK, VersionedStep
<1>6. vblob \in [DOMAIN vblob -> Nat] /\ VersionBlobs /\ vstatus \in {"", "Enabled", "Suspended"}
  BY DEF KeyGood, KeyTypes
<1>7. vblob' = [w \in DOMAIN vblob \union {v} |-> IF w = v THEN req[r].body ELSE vblob[w]]
  BY <1>1 DEF Put
<1>8. KeyTypes'
  <2>1. vblob' \in [DOMAIN vblob' -> Nat]
    BY <1>2, <1>6, <1>7
  <2> QED
    BY <1>1, <1>2, <1>4, <1>5, <1>6, <2>1, KeyFacts DEF KeyTypes
<1>9. VersionBlobs'
  <2>0. vers'[v].marker = FALSE /\ vers'[v].body = req[r].body
    BY <1>4
  <2>3. DOMAIN vblob' = DOMAIN vblob \union {v} /\ DOMAIN vers' = DOMAIN vers \union {v}
    BY <1>4, <1>7
  <2>4. DOMAIN vblob = {w \in DOMAIN vers : ~vers[w].marker} /\ (\A w \in DOMAIN vblob : vblob[w] = vers[w].body)
    BY <1>6 DEF VersionBlobs
  <2>1. DOMAIN vblob' = {w \in DOMAIN vers' : ~vers'[w].marker}
    <3> SUFFICES ASSUME NEW w PROVE w \in DOMAIN vblob' <=> w \in DOMAIN vers' /\ ~vers'[w].marker
      OBVIOUS
    <3>1. CASE w = v
      BY <2>0, <2>3, <3>1
    <3>2. CASE w # v
      BY <1>4, <2>3, <2>4, <3>2
    <3> QED
      BY <3>1, <3>2
  <2>2. ASSUME NEW w \in DOMAIN vblob' PROVE vblob'[w] = vers'[w].body
    <3>1. CASE w = v
      BY <1>7, <2>0, <3>1
    <3>2. CASE w # v
      <4>1. w \in DOMAIN vblob /\ vblob'[w] = vblob[w]
        BY <1>7, <3>2
      <4>2. w \in DOMAIN vers /\ vblob[w] = vers[w].body
        BY <2>4, <4>1
      <4> QED
        BY <1>4, <3>2, <4>1, <4>2
    <3> QED
      BY <3>1, <3>2
  <2> QED
    BY <2>1, <2>2 DEF VersionBlobs
<1>10. CurrentBlob'
  BY <1>1, <1>4 DEF CurrentBlob
<1>11. Tagged'
  <2>1. DOMAIN s3tags \subseteq {NoVer} \union DOMAIN vers
    BY DEF KeyGood, Tagged
  <2>2. CASE req[r].tagged
    <3>1. s3tags' = [k \in DOMAIN s3tags \union {NoVer, v} |-> IF k \in {NoVer, v} THEN req[r].body ELSE s3tags[k]]
      BY <1>1, <2>2 DEF TagsWritten
    <3> QED
      BY <1>4, <2>1, <3>1 DEF Tagged, TagsAgree
  <2>3. CASE ~req[r].tagged
    <3>1. s3tags' = [k \in DOMAIN s3tags \ {NoVer, v} |-> s3tags[k]]
      BY <1>1, <2>3 DEF TagsWritten, DelAll
    <3> QED
      BY <1>4, <2>1, <3>1 DEF Tagged, TagsAgree
  <2> QED
    BY <2>2, <2>3
<1> QED
  BY <1>4, <1>5, <1>8, <1>9, <1>10, <1>11 DEF KeyGood

LEMMA DeleteMarkerKeeps ==
  ASSUME KeyGood, NEW r \in S3Reqs, DeleteMarker(r), ~raced'
  PROVE  KeyGood'
<1> DEFINE v == WriteVid(req[r].status, req[r].body)
           row == [body |-> req[r].body, marker |-> TRUE]
<1>1. /\ req[r].status = vstatus /\ vstatus # "" /\ bucket /\ ChildEnds(r) /\ req[r].pc = "delete"
      /\ UNCHANGED <<bucket, vstatus, ops, blob>>
      /\ vblob' = Del(vblob, v)
      /\ vers' = Put(vers, v, row) /\ obj' = NewCurrent(v, req[r].body, TRUE, NoRows)
      /\ s3tags' = DelAll(s3tags, {NoVer, v})
  BY DEF DeleteMarker, DeleteAt, config
<1>2. req[r].body \in Nat
  BY KeyFacts DEF RequestOK, ReqRec
<1>3. v \in Nat \ {NoVer}
  BY <1>2 DEF WriteVid, NullVer, NoVer
<1> HIDE DEF v
<1>4. /\ Shape(obj, vers)' /\ DOMAIN vers' = DOMAIN vers \union {v}
      /\ obj' \in ObjRec(obj'.next) /\ obj'.vid = v /\ obj'.marker
      /\ vers' \in [DOMAIN vers' -> [body : Nat, marker : BOOLEAN]] /\ DOMAIN vers' \subseteq Nat \ {NoVer}
      /\ vers'[v] = row
      /\ \A w \in DOMAIN vers : w # v => vers'[w] = vers[w]
  BY <1>1, <1>2, <1>3, Promoted
<1>5. KeyRequests' /\ req' = [q \in S3Reqs |-> req'[q]] /\ (vstatus = "" => DOMAIN vers = {})' /\ Emptied'
  <2>1. PICK rec : req' = [req EXCEPT ![r] = rec] /\ RequestOK(rec, bucket, vstatus, blob')
    BY <1>1, ChildEndsIs
  <2> QED
    BY <1>1, <2>1, VersionedStep
<1>6. vblob \in [DOMAIN vblob -> Nat] /\ VersionBlobs /\ vstatus \in {"", "Enabled", "Suspended"}
  BY DEF KeyGood, KeyTypes
<1>7. vblob' = [w \in DOMAIN vblob \ {v} |-> vblob[w]]
  BY <1>1 DEF Del
<1>8. KeyTypes'
  <2>1. vblob' \in [DOMAIN vblob' -> Nat]
    BY <1>6, <1>7
  <2> QED
    BY <1>1, <1>4, <1>5, <1>6, <2>1, KeyFacts DEF KeyTypes
<1>9. VersionBlobs'
  <2>0. vers'[v].marker = TRUE /\ vers'[v].body = req[r].body
    BY <1>4
  <2>3. DOMAIN vblob' = DOMAIN vblob \ {v} /\ DOMAIN vers' = DOMAIN vers \union {v}
    BY <1>4, <1>7
  <2>4. DOMAIN vblob = {w \in DOMAIN vers : ~vers[w].marker} /\ (\A w \in DOMAIN vblob : vblob[w] = vers[w].body)
    BY <1>6 DEF VersionBlobs
  <2>1. DOMAIN vblob' = {w \in DOMAIN vers' : ~vers'[w].marker}
    <3> SUFFICES ASSUME NEW w PROVE w \in DOMAIN vblob' <=> w \in DOMAIN vers' /\ ~vers'[w].marker
      OBVIOUS
    <3>1. CASE w = v
      BY <2>0, <2>3, <3>1
    <3>2. CASE w # v
      BY <1>4, <2>3, <2>4, <3>2
    <3> QED
      BY <3>1, <3>2
  <2>2. ASSUME NEW w \in DOMAIN vblob' PROVE vblob'[w] = vers'[w].body
    BY <1>4, <1>6, <1>7 DEF VersionBlobs
  <2> QED
    BY <2>1, <2>2 DEF VersionBlobs
<1>10. CurrentBlob'
  BY <1>4 DEF CurrentBlob, Live
<1>11. Tagged'
  <2>1. DOMAIN s3tags \subseteq {NoVer} \union DOMAIN vers
    BY DEF KeyGood, Tagged
  <2> QED
    BY <1>1, <1>4, <2>1 DEF Tagged, TagsAgree, DelAll, Live
<1> QED
  BY <1>4, <1>5, <1>8, <1>9, <1>10, <1>11 DEF KeyGood

\* A write of an unversioned key, alone.
LEMMA UnversionedStep ==
  ASSUME KeyGood, vstatus = "", bucket, NEW r \in S3Reqs, Alone(r), NEW rec, req' = [req EXCEPT ![r] = rec],
         UNCHANGED <<bucket, vstatus, vers, vblob>>, ops' = ops, blob' \in Nat,
         RequestOK(rec, bucket, vstatus, blob'),
         obj' \in ObjRec(obj'.next), Shape(obj, vers)', CurrentBlob',
         DOMAIN s3tags' \subseteq {NoVer}
  PROVE  KeyGood'
<1>1. ASSUME NEW q \in S3Reqs, q # r PROVE RequestOK(req[q], bucket', vstatus', blob')
  <2>1. req[q].pc = "idle" /\ RequestOK(req[q], bucket, vstatus, blob)
    BY <1>1, KeyFacts DEF Alone, IdleR
  <2> QED
    BY <2>1 DEF RequestOK
<1>2. RequestOK(rec, bucket', vstatus', blob')
  OBVIOUS
<1>3. KeyRequests' /\ req' = [q \in S3Reqs |-> req'[q]]
  BY <1>1, <1>2, RequestsKeep
<1>4. KeyTypes'
  BY <1>3 DEF KeyGood, KeyTypes
<1>5. DOMAIN vers = {} /\ VersionBlobs
  BY DEF KeyGood
<1>6. obj'.vid = NoVer
  BY <1>5 DEF Shape
<1>7. Tagged'
  BY <1>6 DEF Tagged, TagsAgree
<1>8. VersionBlobs' /\ Emptied' /\ (vstatus = "" => DOMAIN vers = {})'
  BY <1>5 DEF VersionBlobs, Emptied
<1> QED
  BY <1>3, <1>4, <1>7, <1>8 DEF KeyGood

LEMMA UnversionedKey ==
  ASSUME KeyGood, vstatus = ""
  PROVE  /\ DOMAIN vers = {} /\ obj.vid = NoVer /\ ~obj.marker /\ ~obj.has /\ DOMAIN s3tags \subseteq {NoVer}
         /\ obj \in ObjRec(obj.next)
BY DEF KeyGood, Shape, Tagged, KeyTypes

LEMMA NoObjIs == NoObj \in ObjRec(NoObj.next) /\ NoObj.vid = NoVer /\ ~NoObj.marker /\ ~NoObj.has /\ ~NoObj.is
<1>1. << >> \in Seq(Nat) /\ NoVer \in Nat
  BY EmptySeq DEF NoVer
<1> QED
  BY <1>1 DEF NoObj, ObjRec

LEMMA PutBlobKeeps ==
  ASSUME KeyGood, NEW r \in S3Reqs, PutBlob(r), ~raced'
  PROVE  KeyGood'
<1>1. /\ req[r].pc = "put" /\ vstatus = "" /\ bucket /\ Alone(r) /\ blob' = req[r].body
      /\ UNCHANGED <<bucket, vstatus, obj, vers, vblob, s3tags, ops>>
  BY DEF PutBlob, config
<1>2. PICK rec : rec = [req[r] EXCEPT !.pc = "record"]
  OBVIOUS
<1>3. req[r] \in ReqRec(req[r].wants)
  BY KeyFacts DEF RequestOK
<1>4. rec \in ReqRec(rec.wants) /\ rec.pc = "record" /\ rec.body = req[r].body /\ rec.body \in Nat
  BY <1>2, <1>3 DEF ReqRec
<1>5. req' = [req EXCEPT ![r] = rec] /\ req'[r] = rec
  <2>1. req = [q \in S3Reqs |-> req[q]]
    BY DEF KeyGood, KeyTypes
  <2> QED
    BY <1>2, <2>1 DEF PutBlob
<1>6. RequestOK(rec, bucket, vstatus, blob')
  BY <1>1, <1>4 DEF RequestOK
<1>7. CurrentBlob'
  <2>1. ~Settled' /\ DOMAIN vers' = {}
    BY <1>1, <1>4, <1>5, UnversionedKey DEF Settled
  <2> QED
    BY <2>1 DEF CurrentBlob
<1>8. Shape(obj, vers)' /\ obj' \in ObjRec(obj'.next) /\ DOMAIN s3tags' \subseteq {NoVer}
  BY <1>1, UnversionedKey DEF Shape
<1>9. blob' \in Nat
  BY <1>1, <1>4
<1> QED
  BY <1>1, <1>5, <1>6, <1>7, <1>8, <1>9, UnversionedStep

LEMMA PutRecordKeeps ==
  ASSUME KeyGood, NEW r \in S3Reqs, PutRecord(r), ~raced'
  PROVE  KeyGood'
<1>1. /\ req[r].pc = "record" /\ vstatus = "" /\ bucket /\ Alone(r) /\ req' = [req EXCEPT ![r] = IdleReq]
      /\ UNCHANGED <<bucket, vstatus, vers, blob, vblob, ops>>
      /\ TagsWritten({NoVer}, req[r].tagged, req[r].body)
  BY DEF PutRecord, config, Finish
<1>2. req[r].body \in Nat /\ req[r].tagged \in BOOLEAN /\ blob = req[r].body
  BY <1>1, KeyFacts DEF RequestOK, ReqRec
<1>3. PICK o : o = [NoObj EXCEPT !.is = TRUE, !.body = req[r].body] /\ obj' = o
  BY DEF PutRecord
<1>4. o \in ObjRec(o.next) /\ o.vid = NoVer /\ ~o.marker /\ ~o.has /\ o.body = req[r].body
  BY <1>2, <1>3, NoObjIs DEF ObjRec
<1>5. Shape(obj, vers)' /\ obj' \in ObjRec(obj'.next)
  BY <1>1, <1>3, <1>4, UnversionedKey DEF Shape
<1>6. CurrentBlob'
  BY <1>1, <1>2, <1>3, <1>4 DEF CurrentBlob
<1>7. DOMAIN s3tags' \subseteq {NoVer}
  BY <1>1, UnversionedKey DEF TagsWritten, DelAll
<1>8. RequestOK(IdleReq, bucket, vstatus, blob') /\ blob' \in Nat
  BY <1>1, IdleIsOK, KeyFacts
<1> QED
  BY <1>1, <1>5, <1>6, <1>7, <1>8, UnversionedStep

LEMMA DeleteBlobKeeps ==
  ASSUME KeyGood, NEW r \in S3Reqs, DeleteBlob(r), ~raced'
  PROVE  KeyGood'
<1>1. /\ req[r].pc = "delete" /\ vstatus = "" /\ Alone(r) /\ blob' = 0
      /\ UNCHANGED <<bucket, vstatus, obj, vers, vblob, s3tags, ops>>
  BY DEF DeleteBlob, DeleteAt, config
<1>2. PICK rec : rec = [req[r] EXCEPT !.pc = "unrecord"]
  OBVIOUS
<1>3. req[r] \in ReqRec(req[r].wants) /\ bucket
  BY <1>1, KeyFacts DEF RequestOK
<1>4. rec \in ReqRec(rec.wants) /\ rec.pc = "unrecord"
  BY <1>2, <1>3 DEF ReqRec
<1>5. req' = [req EXCEPT ![r] = rec] /\ req'[r] = rec
  <2>1. req = [q \in S3Reqs |-> req[q]]
    BY DEF KeyGood, KeyTypes
  <2> QED
    BY <1>2, <2>1 DEF DeleteBlob
<1>6. RequestOK(rec, bucket, vstatus, blob')
  BY <1>1, <1>3, <1>4 DEF RequestOK
<1>7. CurrentBlob'
  <2>1. ~Settled' /\ DOMAIN vers' = {}
    BY <1>1, <1>4, <1>5, UnversionedKey DEF Settled
  <2> QED
    BY <2>1 DEF CurrentBlob
<1>8. Shape(obj, vers)' /\ obj' \in ObjRec(obj'.next) /\ DOMAIN s3tags' \subseteq {NoVer}
  BY <1>1, UnversionedKey DEF Shape
<1> QED
  BY <1>1, <1>3, <1>5, <1>6, <1>7, <1>8, UnversionedStep

LEMMA DeleteRecordKeeps ==
  ASSUME KeyGood, NEW r \in S3Reqs, DeleteRecord(r), ~raced'
  PROVE  KeyGood'
<1>1. /\ req[r].pc = "unrecord" /\ vstatus = "" /\ Alone(r) /\ obj' = NoObj /\ s3tags' = Del(s3tags, NoVer)
      /\ UNCHANGED <<bucket, vstatus, vers, blob, vblob, ops>> /\ ChildEnds(r)
  BY DEF DeleteRecord, DeleteAt, config
<1>2. bucket /\ blob \in Nat
  BY <1>1, KeyFacts DEF RequestOK
<1>3. PICK rec : req' = [req EXCEPT ![r] = rec] /\ RequestOK(rec, bucket, vstatus, blob')
  BY <1>1, ChildEndsIs
<1>4. Shape(obj, vers)' /\ obj' \in ObjRec(obj'.next) /\ CurrentBlob'
  BY <1>1, NoObjIs, UnversionedKey DEF Shape, CurrentBlob, Live
<1>5. DOMAIN s3tags' \subseteq {NoVer}
  BY <1>1, UnversionedKey DEF Del
<1> QED
  BY <1>1, <1>2, <1>3, <1>4, <1>5, UnversionedStep

\* A version that goes, and what becomes current.
LEMMA DeleteVersionKeeps ==
  ASSUME KeyGood, NEW r \in S3Reqs, DeleteVersion(r), ~raced'
  PROVE  KeyGood'
<1> DEFINE v == Want(r)
           kept == Without(ObjectVersionOrder, v)
           last == IF Len(kept) = 0 THEN NoVer ELSE Last(kept)
<1>1. PICK next : next = ResumePoints(v)
  OBVIOUS
<1>2. /\ req[r].pc = "delete" /\ ChildEnds(r) /\ v \in DOMAIN vers
      /\ UNCHANGED <<bucket, vstatus, ops>>
      /\ vers' = Del(vers, v) /\ vblob' = Del(vblob, v)
      /\ IF obj.vid = v
           THEN RestoreCurrentVersion(last, kept, next)
           ELSE /\ obj' = [obj EXCEPT !.has = TRUE, !.order = kept, !.next = next]
                /\ s3tags' = Del(s3tags, v) /\ blob' = blob
  BY <1>1 DEF DeleteVersion, DeleteAt, Deletable, config
<1>3. v \in Nat /\ v # NoVer /\ DOMAIN vers # {}
  BY <1>2, KeyFacts
<1> HIDE DEF v
<1>4. kept \in Seq(Nat) /\ IsInjective(kept) /\ ToSet(kept) = DOMAIN vers \ {v}
  BY <1>3, OrderIs, WithoutIs
<1>5. /\ obj.is /\ obj.has /\ Len(obj.order) > 0 /\ ToSet(obj.order) = DOMAIN vers /\ obj.vid = Last(obj.order)
      /\ obj.body = vers[obj.vid].body /\ obj.marker = vers[obj.vid].marker /\ IsInjective(obj.order)
  BY <1>3 DEF KeyGood, Shape
<1>6. v # obj.vid => Len(kept) > 0 /\ Last(kept) = obj.vid
  BY <1>3, <1>5, KeyFacts, WithoutIs DEF ObjectVersionOrder
<1> HIDE DEF kept
<1>7. vstatus # "" /\ bucket /\ req[r].pc # "idle"
  BY <1>2, <1>3, KeyFacts DEF KeyGood, RequestOK
<1>8. KeyRequests' /\ req' = [q \in S3Reqs |-> req'[q]] /\ (vstatus = "" => DOMAIN vers = {})' /\ Emptied'
  <2>1. PICK rec : req' = [req EXCEPT ![r] = rec] /\ RequestOK(rec, bucket, vstatus, blob')
    BY <1>2, <1>7, ChildEndsIs
  <2> QED
    BY <1>2, <1>7, <2>1, VersionedStep
<1>9. /\ vers \in [DOMAIN vers -> [body : Nat, marker : BOOLEAN]] /\ DOMAIN vers \subseteq Nat \ {NoVer}
      /\ vblob \in [DOMAIN vblob -> Nat] /\ VersionBlobs /\ vstatus \in {"", "Enabled", "Suspended"}
      /\ DOMAIN s3tags \subseteq {NoVer} \union DOMAIN vers
  BY DEF KeyGood, KeyTypes, Tagged
<1>10. vers' = [w \in DOMAIN vers \ {v} |-> vers[w]] /\ vblob' = [w \in DOMAIN vblob \ {v} |-> vblob[w]]
  BY <1>2 DEF Del
<1>11. VersionBlobs'
  <2>1. DOMAIN vblob = {w \in DOMAIN vers : ~vers[w].marker} /\ (\A w \in DOMAIN vblob : vblob[w] = vers[w].body)
    BY <1>9 DEF VersionBlobs
  <2>2. ASSUME NEW w PROVE w \in DOMAIN vblob' <=> w \in DOMAIN vers' /\ ~vers'[w].marker
    BY <1>10, <2>1
  <2>3. ASSUME NEW w \in DOMAIN vblob' PROVE vblob'[w] = vers'[w].body
    BY <1>10, <2>1
  <2> QED
    BY <2>2, <2>3 DEF VersionBlobs
<1>12. /\ vers' \in [DOMAIN vers' -> [body : Nat, marker : BOOLEAN]] /\ DOMAIN vers' \subseteq Nat \ {NoVer}
       /\ vblob' \in [DOMAIN vblob' -> Nat]
  BY <1>9, <1>10
<1>13. obj' \in ObjRec(obj'.next) /\ Shape(obj, vers)' /\ blob' \in Nat /\ CurrentBlob' /\ Tagged'
  <2>1. CASE obj.vid = v /\ Len(kept) = 0
    <3>1. obj' = NoObj /\ blob' = 0 /\ s3tags' = DelAll(s3tags, {NoVer, v})
      BY <1>2, <2>1 DEF RestoreCurrentVersion
    <3>2. DOMAIN vers' = {}
      <4>1. ToSet(kept) = {}
        BY <1>4, <2>1 DEF ToSet
      <4> QED
        BY <1>4, <1>10, <4>1
    <3>3. Shape(obj, vers)' /\ obj' \in ObjRec(obj'.next)
      BY <3>1, <3>2, NoObjIs DEF Shape
    <3>4. CurrentBlob' /\ Tagged'
      BY <1>9, <1>10, <3>1, NoObjIs DEF CurrentBlob, Tagged, TagsAgree, Live, DelAll
    <3> QED
      BY <3>1, <3>3, <3>4
  <2>2. CASE obj.vid = v /\ Len(kept) > 0
    <3>1. PICK w : w = Last(kept) /\ w \in DOMAIN vers /\ w # v
      <4>1. Last(kept) \in ToSet(kept)
        BY <1>4, <2>2 DEF Last, ToSet
      <4> QED
        BY <1>4, <4>1
    <3>2. w # NoVer /\ w \in Nat /\ vers[w].body \in Nat /\ vers[w].marker \in BOOLEAN
      BY <3>1, KeyFacts
    <3>3. /\ obj' = [is |-> TRUE, vid |-> w, body |-> vers[w].body, marker |-> vers[w].marker,
                     has |-> TRUE, order |-> kept, next |-> next]
          /\ blob' = (IF vers[w].marker THEN 0 ELSE vblob[w])
          /\ s3tags' = IF w \in DOMAIN s3tags THEN Put(Del(s3tags, v), NoVer, s3tags[w])
                       ELSE Del(Del(s3tags, v), NoVer)
      <4>1. last = w
        BY <2>2, <3>1
      <4> QED
        BY <1>2, <2>2, <3>2, <4>1 DEF RestoreCurrentVersion
    <3>4. obj' \in ObjRec(next) /\ obj'.next = next /\ obj'.vid = w
      BY <1>4, <3>2, <3>3 DEF ObjRec
    <3>5. DOMAIN vers' = DOMAIN vers \ {v} /\ vers'[w] = vers[w] /\ w \in DOMAIN vers'
      BY <1>10, <3>1
    <3>6. Shape(obj, vers)'
      BY <1>4, <2>2, <3>1, <3>3, <3>5 DEF Shape
    <3>7. ~vers[w].marker => w \in DOMAIN vblob /\ vblob[w] = vers[w].body
      BY <1>9, <3>1 DEF VersionBlobs
    <3>8. blob' \in Nat /\ CurrentBlob'
      BY <3>2, <3>3, <3>7 DEF CurrentBlob, Live
    <3>9. Tagged'
      <4>1. CASE w \in DOMAIN s3tags
        <5>1. s3tags' = Put(Del(s3tags, v), NoVer, s3tags[w])
          BY <3>3, <4>1
        <5>2. DOMAIN s3tags' = (DOMAIN s3tags \ {v}) \union {NoVer} /\ s3tags'[NoVer] = s3tags[w] /\ s3tags'[w] = s3tags[w]
          BY <3>1, <3>2, <4>1, <5>1 DEF Put, Del
        <5> QED
          BY <1>9, <3>1, <3>4, <3>5, <4>1, <5>2 DEF Tagged, TagsAgree
      <4>2. CASE w \notin DOMAIN s3tags
        <5>1. s3tags' = Del(Del(s3tags, v), NoVer)
          BY <3>3, <4>2
        <5>2. DOMAIN s3tags' = DOMAIN s3tags \ {v, NoVer}
          BY <5>1 DEF Del
        <5> QED
          BY <1>9, <3>4, <3>5, <4>2, <5>2 DEF Tagged, TagsAgree
      <4> QED
        BY <4>1, <4>2
    <3> QED
      BY <3>4, <3>6, <3>8, <3>9
  <2>3. CASE obj.vid # v
    <3>1. obj' = [obj EXCEPT !.has = TRUE, !.order = kept, !.next = next] /\ s3tags' = Del(s3tags, v) /\ blob' = blob
      BY <1>2, <2>3
    <3>2. obj \in ObjRec(obj.next)
      BY DEF KeyGood, KeyTypes
    <3>3. /\ obj' \in ObjRec(obj'.next) /\ obj'.is = obj.is /\ obj'.vid = obj.vid /\ obj'.body = obj.body
          /\ obj'.marker = obj.marker /\ obj'.has /\ obj'.order = kept
      BY <1>4, <3>1, <3>2 DEF ObjRec
    <3>4. obj.vid \in DOMAIN vers /\ DOMAIN vers' = DOMAIN vers \ {v} /\ vers'[obj.vid] = vers[obj.vid]
      BY <1>3, <1>10, <2>3, KeyFacts
    <3>5. Shape(obj, vers)'
      BY <1>4, <1>5, <1>6, <2>3, <3>3, <3>4 DEF Shape
    <3>6. blob' \in Nat /\ CurrentBlob'
      BY <1>3, <3>1, <3>3, <3>4, KeyFacts DEF KeyGood, CurrentBlob, Live
    <3>7. Tagged'
      <4>1. TagsAgree
        BY DEF KeyGood, Tagged
      <4>2. s3tags' = [k \in DOMAIN s3tags \ {v} |-> s3tags[k]]
        BY <3>1 DEF Del
      <4> QED
        BY <1>3, <1>9, <2>3, <3>3, <3>4, <4>1, <4>2 DEF Tagged, TagsAgree, Live
    <3> QED
      BY <3>3, <3>5, <3>6, <3>7
  <2> QED
    <3>1. Len(kept) \in Nat
      BY <1>4
    <3> QED
      BY <2>1, <2>2, <2>3, <3>1
<1>14. KeyTypes'
  BY <1>2, <1>8, <1>9, <1>12, <1>13, KeyFacts DEF KeyTypes
<1> QED
  BY <1>8, <1>11, <1>13, <1>14 DEF KeyGood

\* Every other request is idle, and so is r afterwards.
LEMMA AloneStep ==
  ASSUME KeyGood, NEW r \in S3Reqs, Alone(r), req' = [req EXCEPT ![r] = IdleReq]
  PROVE  /\ KeyRequests' /\ req' = [q \in S3Reqs |-> req'[q]]
         /\ req[r].pc \notin {"record", "unrecord"} => Settled
<1>1. ASSUME NEW q \in S3Reqs, q # r PROVE req[q].pc = "idle" /\ RequestOK(req[q], bucket', vstatus', blob')
  <2>1. req[q].pc = "idle" /\ RequestOK(req[q], bucket, vstatus, blob)
    BY <1>1, KeyFacts DEF Alone, IdleR
  <2> QED
    BY <2>1 DEF RequestOK
<1>2. RequestOK(IdleReq, bucket', vstatus', blob')
  BY IdleIsOK
<1> QED
  BY <1>1, <1>2, RequestsKeep DEF Settled

\* The first time versioning is configured the object of the bucket becomes
\* version "null".
LEMMA VersioningApplyKeeps ==
  ASSUME KeyGood, NEW r \in S3Reqs, VersioningApply(r), ~raced'
  PROVE  KeyGood'
<1>1. /\ req[r].pc = "versioning" /\ req' = [req EXCEPT ![r] = IdleReq] /\ Alone(r) /\ bucket
      /\ UNCHANGED <<bucket, blob, ops>>
      /\ vstatus' = IF Migrates(r) /\ blob = 0 THEN vstatus ELSE req[r].status
      /\ IF Migrates(r) /\ blob # 0
           THEN /\ vblob' = Put(vblob, NullVer, blob)
                /\ obj' = [obj EXCEPT !.vid = NullVer, !.has = TRUE, !.order = <<NullVer>>]
                /\ vers' = Put(vers, NullVer, [body |-> obj.body, marker |-> FALSE])
                /\ s3tags' = IF NoVer \in DOMAIN s3tags THEN Put(s3tags, NullVer, s3tags[NoVer]) ELSE s3tags
           ELSE UNCHANGED <<obj, vers, vblob, s3tags>>
  BY DEF VersioningApply, Finish
<1>2. KeyRequests' /\ req' = [q \in S3Reqs |-> req'[q]] /\ Settled
  BY <1>1, AloneStep
<1>3. req[r].status \in {"Enabled", "Suspended"}
  BY <1>1, KeyFacts DEF RequestOK, ReqRec
<1>4. KeyTypes /\ VersionBlobs /\ Tagged /\ CurrentBlob /\ Shape(obj, vers) /\ (vstatus = "" => DOMAIN vers = {})
  BY DEF KeyGood
<1>5. Emptied'
  BY <1>1 DEF Emptied
<1>6. CASE ~(Migrates(r) /\ blob # 0)
  <2>1. UNCHANGED <<obj, vers, vblob, s3tags>>
    BY <1>1, <1>6
  <2>2. vstatus' \in {vstatus, req[r].status}
    BY <1>1
  <2>3. KeyTypes'
    BY <1>1, <1>2, <1>3, <1>4, <2>1, <2>2 DEF KeyTypes
  <2>4. CurrentBlob'
    BY <1>1, <1>2, <1>4, <2>1 DEF CurrentBlob, Live
  <2>5. VersionBlobs' /\ Tagged' /\ Shape(obj, vers)'
    BY <1>4, <2>1 DEF VersionBlobs, Tagged, TagsAgree, Live
  <2>6. (vstatus = "" => DOMAIN vers = {})'
    BY <1>3, <1>4, <2>1, <2>2
  <2> QED
    BY <1>2, <1>5, <2>3, <2>4, <2>5, <2>6 DEF KeyGood
<1>7. CASE Migrates(r) /\ blob # 0
  <2>1. /\ vblob' = Put(vblob, NullVer, blob)
        /\ obj' = [obj EXCEPT !.vid = NullVer, !.has = TRUE, !.order = <<NullVer>>]
        /\ vers' = Put(vers, NullVer, [body |-> obj.body, marker |-> FALSE])
        /\ s3tags' = IF NoVer \in DOMAIN s3tags THEN Put(s3tags, NullVer, s3tags[NoVer]) ELSE s3tags
        /\ vstatus' = req[r].status /\ vstatus' # ""
    BY <1>1, <1>3, <1>7
  <2>2. obj.is /\ obj.vid = NoVer /\ ~obj.marker
    BY <1>7 DEF Migrates
  <2>3. DOMAIN vers = {} /\ obj.body \in Nat /\ blob \in Nat
    BY <2>2, KeyFacts
  <2>4. blob = obj.body
    BY <1>2, <1>4, <2>2 DEF CurrentBlob, Live
  <2>5. PICK s : s = <<NullVer>>
    OBVIOUS
  <2>6. s \in Seq(Nat) /\ Len(s) = 1 /\ s[1] = NullVer /\ DOMAIN s = {1}
    BY <2>5 DEF NullVer
  <2>7. obj \in ObjRec(obj.next)
    BY <1>4 DEF KeyTypes
  <2>8. /\ obj' \in ObjRec(obj'.next) /\ obj'.is /\ obj'.vid = NullVer /\ obj'.body = obj.body
        /\ ~obj'.marker /\ obj'.has /\ obj'.order = s
    BY <2>1, <2>2, <2>5, <2>6, <2>7 DEF ObjRec, NullVer
  <2>9. /\ DOMAIN vers' = {NullVer} /\ vers'[NullVer] = [body |-> obj.body, marker |-> FALSE]
        /\ vers' \in [DOMAIN vers' -> [body : Nat, marker : BOOLEAN]]
    <3>1. vers' = [w \in {NullVer} |-> [body |-> obj.body, marker |-> FALSE]]
      BY <2>1, <2>3 DEF Put
    <3> QED
      BY <2>3, <3>1
  <2>10. DOMAIN vblob' = {NullVer} /\ vblob' = [w \in {NullVer} |-> blob]
    BY <1>4, <2>1, <2>3 DEF VersionBlobs, Put
  <2>11. Shape(obj, vers)'
    <3>1. IsInjective(s) /\ ToSet(s) = {NullVer} /\ Last(s) = NullVer
      BY <2>6 DEF IsInjective, ToSet, Last
    <3>2. vers'[obj'.vid].body = obj'.body /\ vers'[obj'.vid].marker = obj'.marker
      <4>1. PICK row : row = [body |-> obj.body, marker |-> FALSE]
        OBVIOUS
      <4>2. row.body = obj.body /\ row.marker = FALSE
        BY <4>1
      <4>3. vers'[obj'.vid] = row
        BY <2>8, <2>9, <4>1
      <4>4. obj'.marker = FALSE /\ obj'.body = obj.body
        BY <2>8 DEF ObjRec
      <4> QED
        BY <4>2, <4>3, <4>4, Zenon
    <3>3. Len(obj'.order) > 0 /\ IsInjective(obj'.order) /\ ToSet(obj'.order) = DOMAIN vers' /\ obj'.vid = Last(obj'.order)
      BY <2>6, <2>8, <2>9, <3>1
    <3>4. DOMAIN vers' # {}
      BY <2>9
    <3> QED
      BY <2>8, <3>2, <3>3, <3>4 DEF Shape
  <2>12. VersionBlobs'
    BY <2>4, <2>9, <2>10 DEF VersionBlobs
  <2>13. CurrentBlob'
    BY <1>1, <2>4, <2>8 DEF CurrentBlob
  <2>14. DOMAIN s3tags \subseteq {NoVer}
    BY <1>4, <2>3 DEF Tagged
  <2>15. Tagged'
    <3>1. CASE NoVer \in DOMAIN s3tags
      <4>1. s3tags' = Put(s3tags, NullVer, s3tags[NoVer])
        BY <2>1, <3>1
      <4>2. DOMAIN s3tags' = {NoVer, NullVer} /\ s3tags'[NoVer] = s3tags[NoVer] /\ s3tags'[NullVer] = s3tags[NoVer]
        BY <2>14, <3>1, <4>1 DEF Put, NoVer, NullVer
      <4> QED
        BY <2>8, <2>9, <4>2 DEF Tagged, TagsAgree
    <3>2. CASE NoVer \notin DOMAIN s3tags
      BY <2>1, <2>8, <2>9, <2>14, <3>2 DEF Tagged, TagsAgree, NoVer, NullVer
    <3> QED
      BY <3>1, <3>2
  <2>16. KeyTypes'
    <3>1. vblob' \in [DOMAIN vblob' -> Nat]
      BY <2>3, <2>10
    <3>2. DOMAIN vers' \subseteq Nat \ {NoVer}
      BY <2>9 DEF NullVer, NoVer
    <3>3. ops' \in Nat /\ blob' \in Nat
      BY <1>1, KeyFacts
    <3> QED
      BY <1>2, <1>3, <2>1, <2>8, <2>9, <3>1, <3>2, <3>3 DEF KeyTypes
  <2> QED
    BY <1>2, <1>5, <2>1, <2>11, <2>12, <2>13, <2>15, <2>16 DEF KeyGood
<1> QED
  BY <1>6, <1>7

LEMMA PutTaggingKeeps ==
  ASSUME KeyGood, NEW t \in BOOLEAN, PutTagging(t)
  PROVE  KeyGood'
<1> DEFINE keys == {NoVer} \union (IF obj.vid = NoVer THEN {} ELSE {obj.vid})
<1>1. /\ UNCHANGED <<bucket, vstatus, obj, vers, blob, vblob, req>> /\ ops' = ops + 1 /\ bucket
      /\ TagsWritten(keys, t, ops')
  BY DEF PutTagging, config
<1>2. /\ KeyTypes /\ KeyRequests /\ Shape(obj, vers) /\ (vstatus = "" => DOMAIN vers = {})
      /\ VersionBlobs /\ CurrentBlob /\ Tagged
  BY DEF KeyGood
<1>3. ops' \in Nat
  BY <1>1, KeyFacts
<1>4. KeyTypes'
  BY <1>1, <1>2, <1>3 DEF KeyTypes
<1>5. KeyRequests'
  BY <1>1, <1>2 DEF KeyRequests
<1>6. /\ Shape(obj, vers)' /\ (vstatus = "" => DOMAIN vers = {})' /\ VersionBlobs' /\ CurrentBlob' /\ Emptied'
  BY <1>1, <1>2 DEF VersionBlobs, CurrentBlob, Live, Settled, Emptied
<1>7. Tagged'
  <2>1. DOMAIN s3tags \subseteq {NoVer} \union DOMAIN vers /\ (obj.vid # NoVer => obj.vid \in DOMAIN vers)
    BY <1>2, KeyFacts DEF Tagged
  <2>2. NoVer \in keys /\ (obj.vid # NoVer => obj.vid \in keys) /\ keys \subseteq {NoVer} \union DOMAIN vers
    BY <2>1
  <2> HIDE DEF keys
  <2>3. CASE t
    <3>1. s3tags' = [k \in DOMAIN s3tags \union keys |-> IF k \in keys THEN ops' ELSE s3tags[k]]
      BY <1>1, <2>3 DEF TagsWritten
    <3> QED
      BY <1>1, <2>1, <2>2, <3>1 DEF Tagged, TagsAgree
  <2>4. CASE ~t
    <3>1. s3tags' = [k \in DOMAIN s3tags \ keys |-> s3tags[k]]
      BY <1>1, <2>4 DEF TagsWritten, DelAll
    <3> QED
      BY <1>1, <2>1, <2>2, <3>1 DEF Tagged, TagsAgree
  <2> QED
    BY <2>3, <2>4
<1> QED
  BY <1>4, <1>5, <1>6, <1>7 DEF KeyGood

\* The bucket goes, and comes back.
LEMMA DeleteBucketApplyKeeps ==
  ASSUME KeyGood, NEW r \in S3Reqs, DeleteBucketApply(r), ~raced'
  PROVE  KeyGood'
<1>1. /\ req' = [req EXCEPT ![r] = IdleReq] /\ Alone(r) /\ ~obj.is /\ vers = NoRows
      /\ UNCHANGED <<obj, vers, blob, vblob, ops>>
      /\ vstatus' = "" /\ s3tags' = NoRows /\ holds' = NoRows /\ rets' = NoRows
  BY DEF DeleteBucketApply, Finish
<1>2. KeyRequests' /\ req' = [q \in S3Reqs |-> req'[q]]
  BY <1>1, AloneStep
<1>3. DOMAIN NoRows = {}
  BY DEF NoRows
<1>4. KeyTypes /\ VersionBlobs /\ Shape(obj, vers)
  BY DEF KeyGood
<1>5. KeyTypes'
  BY <1>1, <1>2, <1>4 DEF KeyTypes
<1>6. VersionBlobs' /\ CurrentBlob' /\ Shape(obj, vers)'
  BY <1>1, <1>4 DEF VersionBlobs, CurrentBlob, Live
<1>7. Tagged' /\ Emptied' /\ (vstatus = "" => DOMAIN vers = {})'
  BY <1>1, <1>3 DEF Tagged, TagsAgree, Live, Emptied
<1> QED
  BY <1>2, <1>5, <1>6, <1>7 DEF KeyGood

LEMMA CreateBucketKeeps ==
  ASSUME KeyGood, NEW l \in BOOLEAN, CreateBucket(l)
  PROVE  KeyGood'
<1>1. /\ ~bucket /\ bucket' /\ ops' = ops + 1 /\ UNCHANGED <<obj, vers, blob, vblob, s3tags, req>>
      /\ vstatus' = (IF l THEN "Enabled" ELSE vstatus)
  BY DEF CreateBucket, content
<1>2. /\ KeyTypes /\ VersionBlobs /\ Shape(obj, vers) /\ Tagged /\ CurrentBlob
      /\ ~obj.is /\ DOMAIN vers = {} /\ vstatus = ""
  BY <1>1 DEF KeyGood, Emptied
<1>3. ASSUME NEW r \in S3Reqs PROVE RequestOK(req[r], bucket', vstatus', blob')
  <2>1. RequestOK(req[r], bucket, vstatus, blob)
    BY KeyFacts
  <2> QED
    BY <1>1, <2>1 DEF RequestOK
<1>4. KeyRequests'
  BY <1>1, <1>3 DEF KeyRequests
<1>5. ops' \in Nat
  BY <1>1, KeyFacts
<1>6. KeyTypes'
  BY <1>1, <1>2, <1>5 DEF KeyTypes
<1>7. VersionBlobs' /\ Shape(obj, vers)' /\ Tagged' /\ CurrentBlob' /\ Emptied' /\ (vstatus = "" => DOMAIN vers = {})'
  BY <1>1, <1>2 DEF VersionBlobs, Tagged, TagsAgree, Live, CurrentBlob, Emptied
<1> QED
  BY <1>4, <1>6, <1>7 DEF KeyGood

\* What changes only locks, the clock or the lister.
LEMMA ElsewhereKeeps ==
  ASSUME KeyGood, UNCHANGED <<bucket, vstatus, obj, vers, blob, vblob, s3tags, ops, req>>,
         ~bucket => UNCHANGED <<holds, rets>>
  PROVE  KeyGood'
<1>1. KeyRequests' /\ req' = [q \in S3Reqs |-> req'[q]] /\ ops' \in Nat
  BY DEF KeyGood, KeyTypes, KeyRequests
<1>2. Settled' => Settled
  BY DEF Settled
<1> QED
  BY <1>1, <1>2, KeyUntouched

LEMMA KeyStays == ASSUME S3Next, ~raced' PROVE ~raced
BY DEF S3Next, S3Requests, S3Buckets, S3Locks, S3Tagging, S3Listing, PutBegins, PutVersioned, PutBlob, PutRecord,
       DeleteBegins, DeleteMarker, DeleteVersion, DeleteRefused, DeleteBlob, DeleteRecord, VersioningBegins,
       VersioningApply, DeleteBucketBegins, DeleteBucketApply, CreateBucket, PutObjectLockConfiguration,
       PutObjectLegalHold, S3Tick, PutTagging, ListBegins, ListPage

LEMMA KeyStart == S3Init => KeyGood
<1> SUFFICES ASSUME S3Init PROVE KeyGood
  OBVIOUS
<1>1. DOMAIN NoRows = {}
  BY DEF NoRows
<1>2. /\ bucket = TRUE /\ vstatus \in {"", "Enabled"} /\ obj = NoObj /\ vers = NoRows /\ blob = 0 /\ vblob = NoRows
      /\ s3tags = NoRows /\ ops = 0 /\ req = [r \in S3Reqs |-> IdleReq]
  BY DEF S3Init
<1>3. KeyTypes
  <2>1. vers \in [DOMAIN vers -> [body : Nat, marker : BOOLEAN]] /\ vblob \in [DOMAIN vblob -> Nat]
    BY <1>1, <1>2 DEF NoRows
  <2> QED
    BY <1>1, <1>2, <2>1, NoObjIs DEF KeyTypes
<1>4. KeyRequests
  BY <1>2, IdleIsOK DEF KeyRequests
<1>5. Shape(obj, vers) /\ VersionBlobs /\ CurrentBlob /\ Tagged /\ Emptied
  BY <1>1, <1>2, NoObjIs DEF Shape, VersionBlobs, CurrentBlob, Tagged, TagsAgree, Live, Emptied
<1> QED
  BY <1>1, <1>2, <1>3, <1>4, <1>5 DEF KeyGood

LEMMA KeyStep == KeyInv /\ [S3Next]_s3vars => KeyInv'
<1>1. ASSUME KeyGood, ~raced', S3Next PROVE KeyGood'
  <2>1. ASSUME NEW r \in S3Reqs, NEW l \in {"none", "hold", "GOVERNANCE"}, NEW t \in BOOLEAN, PutBegins(r, l, t)
        PROVE  KeyGood'
    BY <1>1, <2>1, PutBeginsKeeps
  <2>2. ASSUME NEW r \in S3Reqs, NEW w, NEW b \in BOOLEAN, DeleteBegins(r, w, b) PROVE KeyGood'
    BY <1>1, <2>2, DeleteBeginsKeeps
  <2>3. ASSUME NEW r \in S3Reqs, NEW st \in {"Enabled", "Suspended"}, VersioningBegins(r, st) PROVE KeyGood'
    BY <1>1, <2>3, VersioningBeginsKeeps
  <2>4. ASSUME NEW r \in S3Reqs, PutVersioned(r) \/ PutBlob(r) \/ PutRecord(r) PROVE KeyGood'
    BY <1>1, <2>4, PutVersionedKeeps, PutBlobKeeps, PutRecordKeeps
  <2>5. ASSUME NEW r \in S3Reqs,
               DeleteMarker(r) \/ DeleteVersion(r) \/ DeleteRefused(r) \/ DeleteBlob(r) \/ DeleteRecord(r)
        PROVE  KeyGood'
    BY <1>1, <2>5, DeleteMarkerKeeps, DeleteVersionKeeps, DeleteRefusedKeeps, DeleteBlobKeeps, DeleteRecordKeeps
  <2>6. ASSUME NEW r \in S3Reqs, VersioningApply(r) \/ DeleteBucketBegins(r) \/ DeleteBucketApply(r) PROVE KeyGood'
    BY <1>1, <2>6, VersioningApplyKeeps, DeleteBucketBeginsKeeps, DeleteBucketApplyKeeps
  <2>7. ASSUME NEW l \in BOOLEAN, CreateBucket(l) PROVE KeyGood'
    BY <1>1, <2>7, CreateBucketKeeps
  <2>8. ASSUME NEW t \in BOOLEAN, PutTagging(t) PROVE KeyGood'
    BY <1>1, <2>8, PutTaggingKeeps
  <2>9. ASSUME NEW d, PutObjectLockConfiguration(d) PROVE KeyGood'
    BY <1>1, <2>9, ElsewhereKeeps DEF PutObjectLockConfiguration, content
  <2>10. ASSUME NEW v, NEW on, PutObjectLegalHold(v, on) PROVE KeyGood'
    BY <1>1, <2>10, ElsewhereKeeps DEF PutObjectLegalHold, config
  <2>11. ASSUME S3Tick \/ ListBegins \/ ListPage PROVE KeyGood'
    BY <1>1, <2>11, ElsewhereKeeps DEF S3Tick, ListBegins, ListPage, config, content
  <2> QED
    BY <1>1, <2>1, <2>2, <2>3, <2>4, <2>5, <2>6, <2>7, <2>8, <2>9, <2>10, <2>11
       DEF S3Next, S3Requests, S3Buckets, S3Locks, S3Tagging, S3Listing
<1>2. ASSUME KeyGood, UNCHANGED s3vars PROVE KeyGood'
  BY <1>2, ElsewhereKeeps DEF s3vars
<1> QED
  BY <1>1, <1>2, KeyStays DEF KeyInv, s3vars

\* The inductive invariant says what the runs check.
LEMMA KeyGoodHolds == KeyInv => KeysHold
<1> SUFFICES ASSUME KeyGood PROVE KeyAgrees /\ DeletedBucketIsEmpty
  <2>1. raced => KeyAgrees /\ DeletedBucketIsEmpty
    BY DEF KeyAgrees, DeletedBucketIsEmpty
  <2> QED
    BY <2>1 DEF KeyInv, KeysHold
<1>1. /\ KeyTypes /\ Shape(obj, vers) /\ VersionBlobs /\ CurrentBlob /\ TagsAgree /\ Emptied
  BY DEF KeyGood, Tagged
<1>2. ASSUME NEW f, NEW S, f \in [DOMAIN f -> S], DOMAIN f = {} PROVE f = NoRows
  BY <1>2 DEF NoRows
<1>3. DOMAIN vers = {} <=> vers = NoRows
  <2>1. vers \in [DOMAIN vers -> [body : Nat, marker : BOOLEAN]]
    BY <1>1 DEF KeyTypes
  <2>2. DOMAIN NoRows = {}
    BY DEF NoRows
  <2> QED
    BY <1>2, <2>1, <2>2
<1>4. Settled => BlobsAgree
  BY <1>1 DEF VersionBlobs, CurrentBlob, BlobsAgree
<1>5. IF vers = NoRows THEN obj.is => obj.vid = NoVer ELSE VersionedObject
  BY <1>1, <1>3 DEF Shape, VersionedObject
<1>6. KeyAgrees
  BY <1>1, <1>4, <1>5 DEF KeyAgrees
<1>7. ~bucket => vblob = NoRows
  <2>1. vblob \in [DOMAIN vblob -> Nat] /\ (~bucket => DOMAIN vblob = {})
    BY <1>1 DEF KeyTypes, VersionBlobs, Emptied
  <2> QED
    BY <1>2, <2>1
<1> QED
  BY <1>1, <1>3, <1>6, <1>7 DEF DeletedBucketIsEmpty, Emptied

\* The record, the versions, the blobs and the tags of a key agree, and a bucket
\* goes only when nothing is left in it, for any number of concurrent requests
\* (putObject, deleteObject, restoreCurrentVersion, versioning, deleteBucket).
THEOREM KeysAgree == S3Spec => []KeysHold
<1>1. S3Init => KeyInv
  BY KeyStart DEF KeyInv
<1> QED
  BY <1>1, KeyStep, KeyGoodHolds, PTL DEF S3Spec

-----------------------------------------------------------------------------
(* Locked versions.                                                        *)

\* Requests that number a body, and those that will write the version of it.
Counts(q) == q.pc \in {"put", "delete", "unrecord"}
Writes(q) == q.pc = "put" \/ (q.pc = "delete" /\ q.status # "" /\ q.wants[1] = NoVer)

\* A request with lock headers runs on an Enabled bucket, no suspension is
\* under way on a bucket with Object Lock, the version a write is about to make
\* is not there, and only the first entry of a deletion can write a marker.
RequestLocks(q, on, n, vs) ==
  /\ q.pc = "put" /\ q.lock # "none" => q.status = "Enabled"
  /\ q.pc = "versioning" /\ q.status = "Suspended" => ~on
  /\ Counts(q) => q.body > 0 /\ q.body <= n
  /\ Writes(q) => q.body + 1 \notin vs
  /\ q.pc \in {"delete", "unrecord"} =>
       q.wants \in Seq(Nat) /\ Len(q.wants) > 0 /\ \A i \in 2 .. Len(q.wants) : q.wants[i] # NoVer
Apart == \A q, r \in S3Reqs : q # r /\ Counts(req[q]) /\ Counts(req[r]) => req[q].body # req[r].body
LockRequests == (\A r \in S3Reqs : RequestLocks(req[r], lockOn, ops, DOMAIN vers)) /\ Apart

\* Object Lock needs versioning, and version "null", which is written over,
\* has no lock document.
LockConfig == (lockOn => vstatus = "Enabled") /\ (lockDays > 0 => lockOn)
LockDocs == NullVer \notin DOMAIN holds /\ NullVer \notin DOMAIN rets
LockGood == LockConfig /\ LockDocs /\ LockRequests /\ \A v \in DOMAIN vers : v <= ops + 1
LockInv == ~raced => KeyGood /\ LockGood

LEMMA LockFacts ==
  ASSUME KeyGood, LockGood, NEW r \in S3Reqs
  PROVE  /\ req[r] \in ReqRec(req[r].wants) /\ req[r].body \in Nat
         /\ RequestLocks(req[r], lockOn, ops, DOMAIN vers)
         /\ \A v \in DOMAIN vers : v \in Nat /\ v <= ops + 1
<1>1. RequestOK(req[r], bucket, vstatus, blob) /\ \A v \in DOMAIN vers : v \in Nat
  BY KeyFacts
<1>2. req[r] \in ReqRec(req[r].wants)
  BY <1>1 DEF RequestOK
<1>3. req[r].body \in Nat
  BY <1>2 DEF ReqRec
<1>4. RequestLocks(req[r], lockOn, ops, DOMAIN vers) /\ \A v \in DOMAIN vers : v <= ops + 1
  BY Zenon DEF LockGood, LockRequests
<1> QED
  BY <1>1, <1>2, <1>3, <1>4

LEMMA NullIsLeast == \A n \in Nat : NullVer <= n + 1
BY DEF NullVer

\* One request moves on to rec, which has a body of its own; the others keep
\* what they were promised.
LEMMA LockMoves ==
  ASSUME KeyGood, LockGood, NEW r \in S3Reqs, NEW rec, req' = [req EXCEPT ![r] = rec],
         RequestLocks(rec, lockOn', ops', DOMAIN vers'), lockOn' => lockOn,
         ops' \in Nat, ops' >= ops,
         Counts(rec) => rec.body = ops + 1 \/ (Counts(req[r]) /\ rec.body = req[r].body),
         \A v \in DOMAIN vers' : v \in DOMAIN vers \/ v = NullVer \/ (Writes(req[r]) /\ v = req[r].body + 1)
  PROVE  LockRequests' /\ \A v \in DOMAIN vers' : v <= ops' + 1
<1>0. ops \in Nat
  BY KeyFacts
<1>1. req'[r] = rec /\ \A q \in S3Reqs : q # r => req'[q] = req[q]
  <2>1. req = [q \in S3Reqs |-> req[q]]
    BY DEF KeyGood, KeyTypes
  <2> QED
    BY <2>1
<1>2. ASSUME NEW q \in S3Reqs PROVE Writes(req[q]) => Counts(req[q])
  BY DEF Writes, Counts
<1>3. ASSUME NEW q \in S3Reqs, Counts(req[q])
      PROVE  req[q].body \in Nat /\ req[q].body > 0 /\ req[q].body <= ops
  BY <1>3, LockFacts, Zenon DEF RequestLocks
<1>4. ASSUME NEW q \in S3Reqs, NEW p \in S3Reqs, q # p, Counts(req[q]), Counts(req[p])
      PROVE  req[q].body # req[p].body
  BY <1>4, Zenon DEF LockGood, LockRequests, Apart
<1>5. ASSUME NEW q \in S3Reqs, q # r PROVE RequestLocks(req[q], lockOn', ops', DOMAIN vers')
  <2>1. RequestLocks(req[q], lockOn, ops, DOMAIN vers)
    BY LockFacts
  <2>2. Counts(req[q]) => req[q].body > 0 /\ req[q].body <= ops'
    BY <1>0, <1>3
  <2>3. Writes(req[q]) => req[q].body + 1 \notin DOMAIN vers'
    <3> SUFFICES ASSUME Writes(req[q]), req[q].body + 1 \in DOMAIN vers' PROVE FALSE
      OBVIOUS
    <3>1. Counts(req[q]) /\ req[q].body + 1 \notin DOMAIN vers
      BY <1>2, <2>1 DEF RequestLocks
    <3>2. req[q].body \in Nat /\ req[q].body > 0
      BY <1>3, <3>1
    <3>3. Writes(req[r]) /\ req[q].body + 1 = req[r].body + 1
      BY <3>1, <3>2 DEF NullVer
    <3>4. Counts(req[r]) /\ req[r].body \in Nat
      BY <1>2, <1>3, <3>3
    <3>5. req[q].body # req[r].body
      BY <1>4, <1>5, <3>1, <3>4
    <3> QED
      BY <3>2, <3>3, <3>4, <3>5
  <2> QED
    BY <2>1, <2>2, <2>3, Zenon DEF RequestLocks
<1>6. \A q \in S3Reqs : RequestLocks(req'[q], lockOn', ops', DOMAIN vers')
  BY <1>1, <1>5
<1>7. Apart'
  <2>1. ASSUME NEW q \in S3Reqs, q # r, Counts(req[q]), Counts(rec) PROVE req[q].body # rec.body
    <3>1. CASE rec.body = ops + 1
      BY <1>0, <1>3, <2>1, <3>1
    <3>2. CASE Counts(req[r]) /\ rec.body = req[r].body
      BY <1>4, <2>1, <3>2
    <3> QED
      BY <2>1, <3>1, <3>2
  <2> SUFFICES ASSUME NEW q \in S3Reqs, NEW p \in S3Reqs, q # p, Counts(req'[q]), Counts(req'[p])
               PROVE  req'[q].body # req'[p].body
    BY Zenon DEF Apart
  <2> QED
    BY <1>1, <1>4, <2>1
<1>8. ASSUME NEW v \in DOMAIN vers' PROVE v <= ops' + 1
  <2>1. CASE v \in DOMAIN vers
    BY <1>0, <2>1, LockFacts
  <2>2. CASE v = NullVer
    BY <2>2, NullIsLeast
  <2>3. CASE Writes(req[r]) /\ v = req[r].body + 1
    BY <1>0, <1>2, <1>3, <2>3
  <2> QED
    BY <2>1, <2>2, <2>3
<1> QED
  BY <1>6, <1>7, <1>8 DEF LockRequests

\* No request moves.
LEMMA LockRests ==
  ASSUME KeyGood, LockGood, UNCHANGED <<req, vers>>, ops' \in Nat, ops' >= ops,
         (lockOn' => lockOn) \/ \A r \in S3Reqs : IdleR(r)
  PROVE  LockRequests' /\ \A v \in DOMAIN vers' : v <= ops' + 1
<1>0. ops \in Nat
  BY KeyFacts
<1>1. ASSUME NEW q \in S3Reqs PROVE RequestLocks(req[q], lockOn', ops', DOMAIN vers)
  <2>1. RequestLocks(req[q], lockOn, ops, DOMAIN vers) /\ req[q].body \in Nat
    BY LockFacts
  <2>2. Counts(req[q]) => req[q].body > 0 /\ req[q].body <= ops'
    BY <1>0, <2>1 DEF RequestLocks
  <2>3. (lockOn' => lockOn) \/ req[q].pc = "idle"
    BY DEF IdleR
  <2> QED
    BY <2>1, <2>2, <2>3 DEF RequestLocks
<1>2. Apart'
  BY DEF LockGood, LockRequests, Apart
<1>3. \A v \in DOMAIN vers : v <= ops' + 1
  <2>1. \A v \in DOMAIN vers : v \in Nat /\ v <= ops + 1
    BY KeyFacts DEF LockGood
  <2> QED
    BY <1>0, <2>1
<1> QED
  BY <1>1, <1>2, <1>3 DEF LockRequests

LEMMA IdleLocks == \A on, n, vs : RequestLocks(IdleReq, on, n, vs) /\ ~Counts(IdleReq)
BY DEF RequestLocks, IdleReq, Counts, Writes

LEMMA TailIs ==
  ASSUME NEW t \in Seq(Nat), Len(t) > 0
  PROVE  /\ Tail(t) \in Seq(Nat) /\ Len(Tail(t)) = Len(t) - 1
         /\ \A i \in 1 .. Len(t) - 1 : Tail(t)[i] = t[i + 1]
<1>1. t # << >>
  OBVIOUS
<1> QED
  BY <1>1, HeadTailProperties

LEMMA WithNoVer ==
  ASSUME NEW t \in Seq(Nat), Len(t) > 0
  PROVE  /\ <<NoVer>> \o Tail(t) \in Seq(Nat) /\ Len(<<NoVer>> \o Tail(t)) = Len(t)
         /\ \A i \in 2 .. Len(t) : (<<NoVer>> \o Tail(t))[i] = t[i]
<1>1. PICK rest : rest = Tail(t)
  OBVIOUS
<1>2. PICK first : first = <<NoVer>>
  OBVIOUS
<1>3. rest \in Seq(Nat) /\ Len(rest) = Len(t) - 1 /\ \A i \in 1 .. Len(t) - 1 : rest[i] = t[i + 1]
  BY <1>1, TailIs
<1>4. first \in Seq(Nat) /\ Len(first) = 1
  BY <1>2 DEF NoVer
<1>5. PICK both : both = first \o rest
  OBVIOUS
<1>6. /\ both \in Seq(Nat) /\ Len(both) = Len(first) + Len(rest)
      /\ \A i \in 1 .. Len(first) + Len(rest) :
           both[i] = IF i <= Len(first) THEN first[i] ELSE rest[i - Len(first)]
  BY <1>3, <1>4, <1>5, ConcatProperties
<1>7. Len(t) \in Nat /\ Len(both) = Len(t)
  BY <1>3, <1>4, <1>6
<1>8. ASSUME NEW i \in 2 .. Len(t) PROVE both[i] = t[i]
  <2>1. i \in 1 .. Len(first) + Len(rest) /\ ~(i <= Len(first)) /\ i - Len(first) = i - 1
    BY <1>3, <1>4, <1>7
  <2>2. i - 1 \in 1 .. Len(t) - 1 /\ (i - 1) + 1 = i
    BY <1>7
  <2>3. both[i] = rest[i - 1]
    BY <1>6, <2>1
  <2> QED
    BY <1>3, <2>2, <2>3
<1> QED
  BY <1>1, <1>2, <1>5, <1>6, <1>7, <1>8

\* What is left to do of a deletion: only its first entry can have no version.
LEMMA ChildWants ==
  ASSUME NEW t \in Seq(Nat), Len(t) > 0, \A i \in 2 .. Len(t) : t[i] # NoVer,
         NEW w, w = IF vstatus = "" /\ t[1] = NullVer THEN <<NoVer>> \o Tail(t) ELSE t
  PROVE  /\ w \in Seq(Nat) /\ Len(w) > 0 /\ \A i \in 2 .. Len(w) : w[i] # NoVer
         /\ vstatus # "" => w[1] = t[1]
<1>1. CASE ~(vstatus = "" /\ t[1] = NullVer)
  BY <1>1
<1>2. CASE vstatus = "" /\ t[1] = NullVer
  <2>1. w = <<NoVer>> \o Tail(t)
    BY <1>2
  <2>2. /\ w \in Seq(Nat) /\ Len(w) = Len(t)
        /\ \A i \in 2 .. Len(t) : w[i] = t[i]
    BY <2>1, WithNoVer
  <2> QED
    BY <1>2, <2>2
<1> QED
  BY <1>1, <1>2

\* The end of an entry of a deletion: what is left writes no marker.
LEMMA ChildLocks ==
  ASSUME KeyGood, LockGood, NEW r \in S3Reqs, req[r].pc \in {"delete", "unrecord"}, ChildEnds(r),
         NEW on, NEW vs
  PROVE  \E rec : /\ req' = [req EXCEPT ![r] = rec] /\ RequestLocks(rec, on, ops, vs)
                  /\ Counts(rec) => Counts(req[r]) /\ rec.body = req[r].body
<1> DEFINE s == req[r].wants
<1>1. /\ req[r] \in ReqRec(s) /\ bucket /\ Counts(req[r]) /\ req[r].body \in Nat /\ req[r].body > 0 /\ req[r].body <= ops
      /\ s \in Seq(Nat) /\ Len(s) > 0 /\ \A i \in 2 .. Len(s) : s[i] # NoVer
  <2>1. RequestOK(req[r], bucket, vstatus, blob)
    BY KeyFacts
  <2>2. bucket
    BY <2>1 DEF RequestOK
  <2> QED
    BY <2>2, LockFacts DEF RequestLocks, Counts
<1> HIDE DEF s
<1>2. CASE Len(s) = 1
  <2>1. req' = [req EXCEPT ![r] = IdleReq]
    BY <1>2 DEF ChildEnds, s
  <2> QED
    BY <2>1, IdleLocks
<1>3. CASE Len(s) # 1
  <2>1. PICK t : t = Tail(s)
    OBVIOUS
  <2>2. t \in Seq(Nat) /\ Len(t) > 0 /\ \A i \in 1 .. Len(t) : t[i] # NoVer
    <3>1. t \in Seq(Nat) /\ Len(t) = Len(s) - 1 /\ \A i \in 1 .. Len(s) - 1 : t[i] = s[i + 1]
      BY <1>1, <2>1, TailIs
    <3>2. \A i \in 1 .. Len(s) - 1 : i + 1 \in 2 .. Len(s)
      BY <1>1
    <3>3. Len(t) > 0
      BY <1>1, <1>3, <3>1
    <3>4. ASSUME NEW i \in 1 .. Len(s) - 1 PROVE t[i] # NoVer
      BY <1>1, <3>1, <3>2
    <3> QED
      BY <3>1, <3>3, <3>4
  <2>3. PICK w : w = IF vstatus = "" /\ t[1] = NullVer THEN <<NoVer>> \o Tail(t) ELSE t
    OBVIOUS
  <2>4. /\ w \in Seq(Nat) /\ Len(w) > 0 /\ \A i \in 2 .. Len(w) : w[i] # NoVer
        /\ vstatus # "" => w[1] = t[1]
    <3>1. \A i \in 2 .. Len(t) : t[i] # NoVer
      BY <2>2
    <3> QED
      BY <2>2, <2>3, <3>1, ChildWants
  <2>5. PICK rec : rec = [req[r] EXCEPT !.pc = "delete", !.status = vstatus, !.wants = w]
    OBVIOUS
  <2>6. req' = [req EXCEPT ![r] = rec]
    <3>1. rec = Child(req[r], t)
      BY <2>3, <2>5, Zenon DEF Child
    <3> QED
      BY <1>1, <1>3, <2>1, <3>1 DEF ChildEnds, s
  <2>7. rec.pc = "delete" /\ rec.status = vstatus /\ rec.wants = w /\ rec.body = req[r].body
    BY <1>1, <2>5 DEF ReqRec
  <2>8. ~Writes(rec)
    <3>1. t[1] # NoVer
      BY <2>2
    <3> QED
      BY <2>4, <2>7, <3>1 DEF Writes
  <2>9. RequestLocks(rec, on, ops, vs)
    <3>1. rec.pc # "put" /\ rec.pc # "versioning" /\ rec.body > 0 /\ rec.body <= ops
      BY <1>1, <2>7
    <3>2. rec.wants \in Seq(Nat) /\ Len(rec.wants) > 0 /\ \A i \in 2 .. Len(rec.wants) : rec.wants[i] # NoVer
      BY <2>4, <2>7, Zenon
    <3> QED
      BY <2>7, <2>8, <3>1, <3>2 DEF RequestLocks
  <2> QED
    BY <1>1, <2>6, <2>7, <2>9, Zenon
<1> QED
  BY <1>2, <1>3

\* A request begins, with a body nobody has.
LEMMA BeginsLocks ==
  ASSUME KeyGood, LockGood, NEW r \in S3Reqs, NEW rec, Begins(r, rec), UNCHANGED <<config, content>>,
         Counts(rec) => rec.body = ops + 1, RequestLocks(rec, lockOn, ops + 1, DOMAIN vers)
  PROVE  LockGood'
<1>1. /\ UNCHANGED <<vstatus, lockOn, lockDays, vers, holds, rets>>
      /\ ops' = ops + 1 /\ req' = [req EXCEPT ![r] = rec]
  BY DEF config, content, Begins
<1>2. ops' \in Nat /\ ops' >= ops
  <2>1. ops \in Nat
    BY KeyFacts
  <2> QED
    BY <1>1, <2>1
<1>3. LockRequests' /\ \A v \in DOMAIN vers' : v <= ops' + 1
  <2>1. RequestLocks(rec, lockOn', ops', DOMAIN vers')
    BY <1>1
  <2>2. /\ lockOn' => lockOn
        /\ Counts(rec) => rec.body = ops + 1 \/ (Counts(req[r]) /\ rec.body = req[r].body)
        /\ \A v \in DOMAIN vers' : v \in DOMAIN vers \/ v = NullVer \/ (Writes(req[r]) /\ v = req[r].body + 1)
    BY <1>1
  <2> QED
    BY <1>1, <1>2, <2>1, <2>2, LockMoves
<1> QED
  BY <1>1, <1>3 DEF LockGood, LockConfig, LockDocs

LEMMA FreshBody ==
  ASSUME KeyGood, LockGood
  PROVE  ops + 1 \in Nat /\ ops + 1 > 0 /\ ops + 1 + 1 \notin DOMAIN vers
<1>1. ops \in Nat /\ \A v \in DOMAIN vers : v \in Nat /\ v <= ops + 1
  BY KeyFacts DEF LockGood
<1> QED
  BY <1>1

LEMMA PutBeginsLocks ==
  ASSUME KeyGood, LockGood, NEW r \in S3Reqs, NEW l \in {"none", "hold", "GOVERNANCE"}, NEW t \in BOOLEAN,
         PutBegins(r, l, t)
  PROVE  LockGood'
<1>1. PICK n \in Nat : n = ops + 1
  BY FreshBody
<1>2. PICK rec : rec = [IdleReq EXCEPT !.pc = "put", !.status = vstatus, !.body = n, !.lock = l, !.tagged = t]
  OBVIOUS
<1>3. Begins(r, rec) /\ UNCHANGED <<config, content>> /\ (l # "none" => lockOn)
  BY <1>1, <1>2 DEF PutBegins, LockAllowed
<1>4. rec.pc = "put" /\ rec.status = vstatus /\ rec.body = n /\ rec.lock = l
  BY <1>2 DEF IdleReq
<1>5. n > 0 /\ n <= n /\ n + 1 \notin DOMAIN vers
  BY <1>1, FreshBody
<1>6. lockOn => vstatus = "Enabled"
  BY DEF LockGood, LockConfig
<1>7. RequestLocks(rec, lockOn, n, DOMAIN vers)
  BY <1>3, <1>4, <1>5, <1>6 DEF RequestLocks
<1> QED
  BY <1>1, <1>3, <1>4, <1>7, BeginsLocks

LEMMA DeleteBeginsLocks ==
  ASSUME KeyGood, LockGood, NEW r \in S3Reqs, NEW wants \in Seq(Nat), Len(wants) > 0,
         \A i \in 2 .. Len(wants) : wants[i] # NoVer, NEW b \in BOOLEAN, DeleteBegins(r, wants, b)
  PROVE  LockGood'
<1>1. PICK n \in Nat : n = ops + 1
  BY FreshBody
<1>2. PICK w : w = IF vstatus = "" /\ wants[1] = NullVer THEN <<NoVer>> \o Tail(wants) ELSE wants
  OBVIOUS
<1>3. PICK rec : rec = [IdleReq EXCEPT !.bypass = b, !.body = n, !.pc = "delete", !.status = vstatus, !.wants = w]
  OBVIOUS
<1>4. Begins(r, rec) /\ UNCHANGED <<config, content>>
  BY <1>1, <1>2, <1>3 DEF DeleteBegins, Child, IdleReq
<1>5. rec.pc = "delete" /\ rec.body = n /\ rec.wants = w
  BY <1>3 DEF IdleReq
<1>6. n > 0 /\ n <= n /\ n + 1 \notin DOMAIN vers
  BY <1>1, FreshBody
<1>7. w \in Seq(Nat) /\ Len(w) > 0 /\ \A i \in 2 .. Len(w) : w[i] # NoVer
  BY <1>2, ChildWants
<1>8. RequestLocks(rec, lockOn, n, DOMAIN vers)
  <2>1. rec.wants \in Seq(Nat) /\ Len(rec.wants) > 0 /\ \A i \in 2 .. Len(rec.wants) : rec.wants[i] # NoVer
    BY <1>5, <1>7, Zenon
  <2> QED
    BY <1>5, <1>6, <2>1 DEF RequestLocks
<1> QED
  BY <1>1, <1>4, <1>5, <1>8, BeginsLocks

LEMMA VersioningBeginsLocks ==
  ASSUME KeyGood, LockGood, NEW r \in S3Reqs, NEW st \in {"Enabled", "Suspended"}, VersioningBegins(r, st)
  PROVE  LockGood'
<1>1. PICK f : f = (vstatus = "")
  BY Zenon
<1>2. PICK rec : rec = [IdleReq EXCEPT !.pc = "versioning", !.status = st, !.fresh = f]
  OBVIOUS
<1>3. Begins(r, rec) /\ UNCHANGED <<config, content>> /\ (st = "Suspended" => ~lockOn)
  BY <1>1, <1>2 DEF VersioningBegins, MaySuspend
<1>4. rec.pc = "versioning" /\ rec.status = st
  BY <1>2 DEF IdleReq
<1>5. RequestLocks(rec, lockOn, ops + 1, DOMAIN vers) /\ ~Counts(rec)
  BY <1>3, <1>4 DEF RequestLocks, Counts, Writes
<1> QED
  BY <1>3, <1>5, BeginsLocks

LEMMA DeleteBucketBeginsLocks ==
  ASSUME KeyGood, LockGood, NEW r \in S3Reqs, DeleteBucketBegins(r)
  PROVE  LockGood'
<1>1. PICK rec : rec = [IdleReq EXCEPT !.pc = "unbucket"]
  OBVIOUS
<1>2. rec.pc = "unbucket"
  BY <1>1 DEF IdleReq
<1>3. Begins(r, rec) /\ UNCHANGED <<config, content>>
  BY <1>1 DEF DeleteBucketBegins
<1>4. RequestLocks(rec, lockOn, ops + 1, DOMAIN vers) /\ ~Counts(rec)
  BY <1>2 DEF RequestLocks, Counts, Writes
<1> QED
  BY <1>3, <1>4, BeginsLocks

\* The version a write makes: of its own number, or "null".
LEMMA WrittenVersion ==
  ASSUME KeyGood, LockGood, NEW r \in S3Reqs, Writes(req[r]), NEW v, v = WriteVid(req[r].status, req[r].body)
  PROVE  /\ v = NullVer \/ (v = req[r].body + 1 /\ v # NullVer /\ v \notin DOMAIN vers)
         /\ req[r].status = "Enabled" => v # NullVer
<1>1. Counts(req[r]) /\ RequestLocks(req[r], lockOn, ops, DOMAIN vers) /\ req[r].body \in Nat
  BY LockFacts DEF Writes, Counts
<1>2. req[r].body > 0 /\ req[r].body + 1 \notin DOMAIN vers
  BY <1>1 DEF RequestLocks
<1>3. v = IF req[r].status = "Enabled" THEN req[r].body + 1 ELSE 1
  BY DEF WriteVid, NullVer
<1> QED
  BY <1>1, <1>2, <1>3 DEF NullVer

LEMMA PutVersionedLocks ==
  ASSUME KeyGood, LockGood, NEW r \in S3Reqs, PutVersioned(r), ~raced'
  PROVE  LockGood'
<1>1. PICK v : v = WriteVid(req[r].status, req[r].body)
  OBVIOUS
<1>2. PICK row : row = [body |-> req[r].body, marker |-> FALSE]
  OBVIOUS
<1>3. /\ req[r].pc = "put" /\ req[r].status = vstatus /\ req' = [req EXCEPT ![r] = IdleReq]
      /\ UNCHANGED <<vstatus, lockOn, lockDays, ops>>
      /\ vers' = Put(vers, v, row) /\ LocksWritten(v, req[r].lock)
  BY <1>1, <1>2 DEF PutVersioned, Finish, config
<1>4. Writes(req[r])
  BY <1>3 DEF Writes
<1>5. /\ v = NullVer \/ (v = req[r].body + 1 /\ v # NullVer /\ v \notin DOMAIN vers)
      /\ req[r].status = "Enabled" => v # NullVer
  BY <1>1, <1>4, WrittenVersion
<1>6. LockConfig'
  BY <1>3 DEF LockGood, LockConfig
<1>7. LockDocs'
  <2>1. req[r].lock # "none" \/ lockDays > 0 => v # NullVer
    <3>1. RequestLocks(req[r], lockOn, ops, DOMAIN vers)
      BY LockFacts
    <3>2. req[r].lock # "none" => req[r].status = "Enabled"
      BY <1>3, <3>1 DEF RequestLocks
    <3>3. lockDays > 0 => vstatus = "Enabled"
      BY DEF LockGood, LockConfig
    <3> QED
      BY <1>3, <1>5, <3>2, <3>3
  <2>2. DOMAIN holds' \subseteq DOMAIN holds \union {v} /\ (req[r].lock = "none" => holds' = holds)
    BY <1>3 DEF LocksWritten, Put
  <2>3. /\ DOMAIN rets' \subseteq DOMAIN rets \union {v}
        /\ req[r].lock = "none" /\ ~(lockDays > 0) => rets' = rets
    BY <1>3 DEF LocksWritten, HasRetention, Put
  <2> QED
    BY <2>1, <2>2, <2>3 DEF LockGood, LockDocs
<1>8. LockRequests' /\ \A w \in DOMAIN vers' : w <= ops' + 1
  <2>1. DOMAIN vers' = DOMAIN vers \union {v}
    BY <1>3 DEF Put
  <2>2. ops' \in Nat /\ ops' >= ops
    BY <1>3, KeyFacts
  <2> QED
    BY <1>3, <1>4, <1>5, <2>1, <2>2, IdleLocks, LockMoves
<1> QED
  BY <1>6, <1>7, <1>8 DEF LockGood

\* A request moves on without a lock of its own.
LEMMA MovesLocks ==
  ASSUME KeyGood, LockGood, NEW r \in S3Reqs, NEW rec, req' = [req EXCEPT ![r] = rec],
         UNCHANGED <<vstatus, lockOn, lockDays, ops>>,
         DOMAIN holds' \subseteq DOMAIN holds \union {NoVer}, DOMAIN rets' \subseteq DOMAIN rets \union {NoVer},
         RequestLocks(rec, lockOn, ops, DOMAIN vers'),
         Counts(rec) => Counts(req[r]) /\ rec.body = req[r].body,
         \A v \in DOMAIN vers' : v \in DOMAIN vers \/ v = NullVer \/ (Writes(req[r]) /\ v = req[r].body + 1)
  PROVE  LockGood'
<1>1. LockConfig'
  BY DEF LockGood, LockConfig
<1>2. LockDocs'
  BY DEF LockGood, LockDocs, NullVer, NoVer
<1>3. ops' \in Nat /\ ops' >= ops
  BY KeyFacts
<1>4. LockRequests' /\ \A v \in DOMAIN vers' : v <= ops' + 1
  BY <1>3, LockMoves
<1> QED
  BY <1>1, <1>2, <1>4 DEF LockGood

LEMMA PutBlobLocks ==
  ASSUME KeyGood, LockGood, NEW r \in S3Reqs, PutBlob(r)
  PROVE  LockGood'
<1>1. req[r] \in ReqRec(req[r].wants)
  BY LockFacts
<1>2. PICK rec : rec = [req[r] EXCEPT !.pc = "record"]
  OBVIOUS
<1>3. rec.pc = "record"
  BY <1>1, <1>2 DEF ReqRec
<1>4. UNCHANGED <<vstatus, lockOn, lockDays, ops, vers, holds, rets>>
  BY DEF PutBlob, config
<1>5. req' = [req EXCEPT ![r] = rec]
  <2>1. req = [q \in S3Reqs |-> req[q]]
    BY DEF KeyGood, KeyTypes
  <2> QED
    BY <1>2, <2>1 DEF PutBlob
<1>6. RequestLocks(rec, lockOn, ops, DOMAIN vers') /\ ~Counts(rec)
  BY <1>3 DEF RequestLocks, Counts, Writes
<1> QED
  BY <1>4, <1>5, <1>6, MovesLocks

LEMMA PutRecordLocks ==
  ASSUME KeyGood, LockGood, NEW r \in S3Reqs, PutRecord(r)
  PROVE  LockGood'
<1>1. req' = [req EXCEPT ![r] = IdleReq] /\ UNCHANGED <<vstatus, lockOn, lockDays, ops, vers>>
  BY DEF PutRecord, Finish, config
<1>2. DOMAIN holds' \subseteq DOMAIN holds \union {NoVer} /\ DOMAIN rets' \subseteq DOMAIN rets \union {NoVer}
  BY DEF PutRecord, LocksWritten, Put
<1> QED
  BY <1>1, <1>2, IdleLocks, MovesLocks

LEMMA DeleteMarkerLocks ==
  ASSUME KeyGood, LockGood, NEW r \in S3Reqs, DeleteMarker(r)
  PROVE  LockGood'
<1>1. PICK v : v = WriteVid(req[r].status, req[r].body)
  OBVIOUS
<1>2. PICK row : row = [body |-> req[r].body, marker |-> TRUE]
  OBVIOUS
<1>3. /\ req[r].pc = "delete" /\ req[r].status # "" /\ req[r].wants[1] = NoVer /\ ChildEnds(r)
      /\ UNCHANGED <<vstatus, lockOn, lockDays, ops, holds, rets>> /\ vers' = Put(vers, v, row)
  BY <1>1, <1>2 DEF DeleteMarker, DeleteAt, Want, config
<1>4. Writes(req[r])
  BY <1>3 DEF Writes
<1>5. v = NullVer \/ (v = req[r].body + 1 /\ v # NullVer /\ v \notin DOMAIN vers)
  BY <1>1, <1>4, WrittenVersion
<1>6. DOMAIN vers' = DOMAIN vers \union {v}
  BY <1>3 DEF Put
<1>7. PICK rec : /\ req' = [req EXCEPT ![r] = rec] /\ RequestLocks(rec, lockOn, ops, DOMAIN vers')
                 /\ Counts(rec) => Counts(req[r]) /\ rec.body = req[r].body
  BY <1>3, ChildLocks
<1> QED
  BY <1>3, <1>4, <1>5, <1>6, <1>7, MovesLocks

\* An entry of a deletion ends, and writes no version.
LEMMA EntryLocks ==
  ASSUME KeyGood, LockGood, NEW r \in S3Reqs, req[r].pc \in {"delete", "unrecord"}, ChildEnds(r),
         UNCHANGED <<vstatus, lockOn, lockDays, ops>>, DOMAIN vers' \subseteq DOMAIN vers,
         DOMAIN holds' \subseteq DOMAIN holds, DOMAIN rets' \subseteq DOMAIN rets
  PROVE  LockGood'
<1>1. PICK rec : /\ req' = [req EXCEPT ![r] = rec] /\ RequestLocks(rec, lockOn, ops, DOMAIN vers')
                 /\ Counts(rec) => Counts(req[r]) /\ rec.body = req[r].body
  BY ChildLocks
<1> QED
  BY <1>1, MovesLocks

LEMMA EntriesLocks ==
  ASSUME KeyGood, LockGood, NEW r \in S3Reqs, DeleteVersion(r) \/ DeleteRefused(r) \/ DeleteRecord(r)
  PROVE  LockGood'
<1>1. CASE DeleteVersion(r)
  <2>1. /\ req[r].pc = "delete" /\ ChildEnds(r) /\ UNCHANGED <<vstatus, lockOn, lockDays, ops>>
        /\ vers' = Del(vers, Want(r)) /\ holds' = Del(holds, Want(r)) /\ rets' = Del(rets, Want(r))
    BY <1>1 DEF DeleteVersion, DeleteAt, config
  <2>2. DOMAIN vers' \subseteq DOMAIN vers /\ DOMAIN holds' \subseteq DOMAIN holds /\ DOMAIN rets' \subseteq DOMAIN rets
    BY <2>1 DEF Del
  <2> QED
    BY <2>1, <2>2, EntryLocks
<1>2. CASE DeleteRefused(r)
  BY <1>2, EntryLocks DEF DeleteRefused, DeleteAt, config, content
<1>3. CASE DeleteRecord(r)
  BY <1>3, EntryLocks DEF DeleteRecord, DeleteAt, config
<1> QED
  BY <1>1, <1>2, <1>3

LEMMA DeleteBlobLocks ==
  ASSUME KeyGood, LockGood, NEW r \in S3Reqs, DeleteBlob(r)
  PROVE  LockGood'
<1>1. /\ req[r] \in ReqRec(req[r].wants) /\ RequestLocks(req[r], lockOn, ops, DOMAIN vers)
  BY LockFacts
<1>2. req[r].pc = "delete" /\ UNCHANGED <<vstatus, lockOn, lockDays, ops, vers, holds, rets>>
  BY DEF DeleteBlob, DeleteAt, config
<1>3. PICK rec : rec = [req[r] EXCEPT !.pc = "unrecord"]
  OBVIOUS
<1>4. rec.pc = "unrecord" /\ rec.body = req[r].body /\ rec.wants = req[r].wants
  BY <1>1, <1>3 DEF ReqRec
<1>5. req' = [req EXCEPT ![r] = rec]
  <2>1. req = [q \in S3Reqs |-> req[q]]
    BY DEF KeyGood, KeyTypes
  <2> QED
    BY <1>3, <2>1 DEF DeleteBlob
<1>6. Counts(req[r]) /\ Counts(rec) /\ ~Writes(rec)
  BY <1>2, <1>4 DEF Counts, Writes
<1>7. RequestLocks(rec, lockOn, ops, DOMAIN vers')
  <2>1. /\ rec.body > 0 /\ rec.body <= ops /\ rec.wants \in Seq(Nat) /\ Len(rec.wants) > 0
        /\ \A i \in 2 .. Len(rec.wants) : rec.wants[i] # NoVer
    BY <1>1, <1>2, <1>4, <1>6 DEF RequestLocks
  <2> QED
    BY <1>4, <1>6, <2>1 DEF RequestLocks
<1> QED
  BY <1>2, <1>4, <1>5, <1>6, <1>7, MovesLocks

LEMMA VersioningApplyLocks ==
  ASSUME KeyGood, LockGood, NEW r \in S3Reqs, VersioningApply(r)
  PROVE  LockGood'
<1>1. /\ req[r].pc = "versioning" /\ req' = [req EXCEPT ![r] = IdleReq]
      /\ UNCHANGED <<lockOn, lockDays, holds, rets, ops>>
      /\ vstatus' = vstatus \/ vstatus' = req[r].status
      /\ vers' = vers \/ \E row : vers' = Put(vers, NullVer, row)
  BY DEF VersioningApply, Finish
<1>2. LockConfig'
  <2>1. RequestLocks(req[r], lockOn, ops, DOMAIN vers) /\ req[r].status \in {"Enabled", "Suspended"}
    BY <1>1, LockFacts, KeyFacts DEF RequestOK, ReqRec
  <2>2. lockOn => req[r].status = "Enabled"
    BY <1>1, <2>1 DEF RequestLocks
  <2> QED
    BY <1>1, <2>2 DEF LockGood, LockConfig
<1>3. LockDocs'
  BY <1>1 DEF LockGood, LockDocs
<1>4. \A v \in DOMAIN vers' : v \in DOMAIN vers \/ v = NullVer
  BY <1>1 DEF Put
<1>5. ops' \in Nat /\ ops' >= ops
  BY <1>1, KeyFacts
<1>6. LockRequests' /\ \A v \in DOMAIN vers' : v <= ops' + 1
  BY <1>1, <1>4, <1>5, IdleLocks, LockMoves
<1> QED
  BY <1>2, <1>3, <1>6 DEF LockGood

LEMMA DeleteBucketApplyLocks ==
  ASSUME KeyGood, LockGood, NEW r \in S3Reqs, DeleteBucketApply(r)
  PROVE  LockGood'
<1>1. /\ req' = [req EXCEPT ![r] = IdleReq] /\ ~lockOn' /\ lockDays' = 0 /\ holds' = NoRows /\ rets' = NoRows
      /\ UNCHANGED <<vers, ops>>
  BY DEF DeleteBucketApply, Finish
<1>2. DOMAIN NoRows = {}
  BY DEF NoRows
<1>3. LockConfig' /\ LockDocs'
  BY <1>1, <1>2 DEF LockConfig, LockDocs
<1>4. ops' \in Nat /\ ops' >= ops
  BY <1>1, KeyFacts
<1>5. LockRequests' /\ \A v \in DOMAIN vers' : v <= ops' + 1
  BY <1>1, <1>4, IdleLocks, LockMoves
<1> QED
  BY <1>3, <1>5 DEF LockGood

\* A bucket made anew: no request is under way.
LEMMA CreateBucketLocks ==
  ASSUME KeyGood, LockGood, NEW l \in BOOLEAN, CreateBucket(l)
  PROVE  LockGood'
<1>1. /\ ~bucket /\ ops' = ops + 1 /\ lockOn' = l /\ (l => vstatus' = "Enabled")
      /\ UNCHANGED <<lockDays, vers, holds, rets, req>>
  BY DEF CreateBucket, content
<1>2. \A r \in S3Reqs : IdleR(r)
  BY <1>1, KeyFacts DEF RequestOK, IdleR
<1>3. vstatus = ""
  BY <1>1 DEF KeyGood, Emptied
<1>4. ~(lockDays > 0)
  BY <1>3 DEF LockGood, LockConfig
<1>5. LockConfig' /\ LockDocs'
  BY <1>1, <1>4 DEF LockConfig, LockGood, LockDocs
<1>6. ops' \in Nat /\ ops' >= ops
  <2>1. ops \in Nat
    BY KeyFacts
  <2> QED
    BY <1>1, <2>1
<1>7. LockRequests' /\ \A v \in DOMAIN vers' : v <= ops' + 1
  BY <1>1, <1>2, <1>6, LockRests
<1> QED
  BY <1>5, <1>7 DEF LockGood

LEMMA LockConfigurationLocks ==
  ASSUME KeyGood, LockGood, NEW d, PutObjectLockConfiguration(d), ~raced'
  PROVE  LockGood'
<1>1. /\ vstatus = "Enabled" /\ lockOn' /\ UNCHANGED <<vstatus, vers, holds, rets, ops, req>>
      /\ \A r \in S3Reqs : IdleR(r)
  BY DEF PutObjectLockConfiguration, content
<1>2. LockConfig' /\ LockDocs'
  BY <1>1 DEF LockConfig, LockGood, LockDocs
<1>3. ops' \in Nat /\ ops' >= ops
  BY <1>1, KeyFacts
<1>4. LockRequests' /\ \A v \in DOMAIN vers' : v <= ops' + 1
  BY <1>1, <1>3, LockRests
<1> QED
  BY <1>2, <1>4 DEF LockGood

\* A step of no request.
LEMMA RestLocks ==
  ASSUME KeyGood, LockGood, UNCHANGED <<vstatus, lockOn, lockDays, vers, rets, req>>,
         ops' = ops \/ ops' = ops + 1, NullVer \notin DOMAIN holds'
  PROVE  LockGood'
<1>1. LockConfig' /\ LockDocs'
  BY DEF LockConfig, LockGood, LockDocs
<1>2. ops' \in Nat /\ ops' >= ops
  <2>1. ops \in Nat
    BY KeyFacts
  <2> QED
    BY <2>1
<1>3. LockRequests' /\ \A v \in DOMAIN vers' : v <= ops' + 1
  BY <1>2, LockRests
<1> QED
  BY <1>1, <1>3 DEF LockGood

LEMMA LegalHoldLocks ==
  ASSUME KeyGood, LockGood, NEW v, NEW on, PutObjectLegalHold(v, on)
  PROVE  LockGood'
<1>1. UNCHANGED <<vstatus, lockOn, lockDays, vers, rets, req, ops>>
  BY DEF PutObjectLegalHold, config
<1>2. PICK key : key # NullVer /\ holds' = Put(holds, key, on)
  BY DEF PutObjectLegalHold, NullVer, NoVer
<1>3. NullVer \notin DOMAIN holds'
  BY <1>2 DEF LockGood, LockDocs, Put
<1> QED
  BY <1>1, <1>3, RestLocks

LEMMA LockStart == S3Init => LockGood
<1> SUFFICES ASSUME S3Init PROVE LockGood
  OBVIOUS
<1>1. DOMAIN NoRows = {}
  BY DEF NoRows
<1>2. /\ ~lockOn /\ lockDays = 0 /\ vers = NoRows /\ holds = NoRows /\ rets = NoRows
      /\ req = [r \in S3Reqs |-> IdleReq]
  BY DEF S3Init
<1>3. LockConfig /\ LockDocs /\ \A v \in DOMAIN vers : v <= ops + 1
  BY <1>1, <1>2 DEF LockConfig, LockDocs
<1>4. LockRequests
  BY <1>2, IdleLocks DEF LockRequests, Apart
<1> QED
  BY <1>3, <1>4 DEF LockGood

LEMMA LockStep == LockInv /\ [S3Next]_s3vars => LockInv'
<1>1. ASSUME KeyGood, LockGood, ~raced', S3Next PROVE LockGood'
  <2>1. ASSUME NEW r \in S3Reqs, NEW l \in {"none", "hold", "GOVERNANCE"}, NEW t \in BOOLEAN, PutBegins(r, l, t)
        PROVE  LockGood'
    BY <1>1, <2>1, PutBeginsLocks
  <2>2. Targets \subseteq Nat
    BY <1>1, KeyFacts DEF Targets, NoVer, NullVer
  <2>3. ASSUME NEW r \in S3Reqs, NEW v \in Targets, NEW b \in BOOLEAN, DeleteBegins(r, <<v>>, b) PROVE LockGood'
    <3>1. PICK s : s = <<v>>
      OBVIOUS
    <3>2. s \in Seq(Nat) /\ Len(s) = 1
      BY <2>2, <3>1
    <3>3. Len(s) > 0 /\ \A i \in 2 .. Len(s) : s[i] # NoVer
      BY <3>2
    <3> QED
      BY <1>1, <2>3, <3>1, <3>2, <3>3, DeleteBeginsLocks
  <2>4. ASSUME NEW r \in S3Reqs, NEW v \in Targets, NEW w \in Targets \ {NoVer}, NEW b \in BOOLEAN,
               DeleteBegins(r, <<v, w>>, b)
        PROVE  LockGood'
    <3>1. PICK s : s = <<v, w>>
      OBVIOUS
    <3>2. s \in Seq(Nat) /\ Len(s) = 2 /\ s[2] # NoVer
      BY <2>2, <3>1
    <3>3. Len(s) > 0 /\ \A i \in 2 .. Len(s) : s[i] # NoVer
      BY <3>2
    <3> QED
      BY <1>1, <2>4, <3>1, <3>2, <3>3, DeleteBeginsLocks
  <2>5. ASSUME NEW r \in S3Reqs, NEW st \in {"Enabled", "Suspended"}, VersioningBegins(r, st) PROVE LockGood'
    BY <1>1, <2>5, VersioningBeginsLocks
  <2>6. ASSUME NEW r \in S3Reqs, PutVersioned(r) \/ PutBlob(r) \/ PutRecord(r) PROVE LockGood'
    BY <1>1, <2>6, PutVersionedLocks, PutBlobLocks, PutRecordLocks
  <2>7. ASSUME NEW r \in S3Reqs,
               DeleteMarker(r) \/ DeleteVersion(r) \/ DeleteRefused(r) \/ DeleteBlob(r) \/ DeleteRecord(r)
        PROVE  LockGood'
    BY <1>1, <2>7, DeleteMarkerLocks, EntriesLocks, DeleteBlobLocks
  <2>8. ASSUME NEW r \in S3Reqs, VersioningApply(r) \/ DeleteBucketBegins(r) \/ DeleteBucketApply(r) PROVE LockGood'
    BY <1>1, <2>8, VersioningApplyLocks, DeleteBucketBeginsLocks, DeleteBucketApplyLocks
  <2>9. ASSUME NEW l \in BOOLEAN, CreateBucket(l) PROVE LockGood'
    BY <1>1, <2>9, CreateBucketLocks
  <2>10. ASSUME NEW d, PutObjectLockConfiguration(d) PROVE LockGood'
    BY <1>1, <2>10, LockConfigurationLocks
  <2>11. ASSUME NEW v, NEW on, PutObjectLegalHold(v, on) PROVE LockGood'
    BY <1>1, <2>11, LegalHoldLocks
  <2>12. NullVer \notin DOMAIN holds
    BY <1>1 DEF LockGood, LockDocs
  <2>13. ASSUME NEW t \in BOOLEAN, PutTagging(t) PROVE LockGood'
    BY <1>1, <2>12, <2>13, RestLocks DEF PutTagging, config
  <2>14. ASSUME S3Tick \/ ListBegins \/ ListPage PROVE LockGood'
    BY <1>1, <2>12, <2>14, RestLocks DEF S3Tick, ListBegins, ListPage, config, content
  <2> QED
    BY <1>1, <2>1, <2>3, <2>4, <2>5, <2>6, <2>7, <2>8, <2>9, <2>10, <2>11, <2>13, <2>14
       DEF S3Next, S3Requests, S3Buckets, S3Locks, S3Tagging, S3Listing
<1>2. ASSUME KeyGood, LockGood, UNCHANGED s3vars PROVE LockGood'
  <2>1. NullVer \notin DOMAIN holds
    BY <1>2 DEF LockGood, LockDocs
  <2> QED
    BY <1>2, <2>1, RestLocks DEF s3vars
<1>3. LockInv /\ [S3Next]_s3vars => (~raced' => KeyGood')
  BY KeyStep DEF LockInv, KeyInv
<1> QED
  BY <1>1, <1>2, <1>3, KeyStays DEF LockInv, s3vars

\* Version "null" is not locked, and so is no version that is not there: what a
\* write replaces had no lock.
LEMMA LockedIsSafe ==
  ASSUME KeyGood, LockGood, NEW v \in DOMAIN vers, ObjectVersionLocked(v, FALSE)
  PROVE  v # NullVer
BY DEF LockGood, LockDocs, ObjectVersionLocked

\* A step keeps the record and the blob of every version that is locked, or it
\* is a deletion that bypasses a GOVERNANCE retention.
LEMMA LocksKept ==
  ASSUME KeyGood, LockGood, S3Next, ~raced', NEW v \in DOMAIN vers, ObjectVersionLocked(v, FALSE)
  PROVE  \/ v \in DOMAIN vers' /\ vers'[v] = vers[v] /\ (v \in DOMAIN vblob => vblob'[v] = vblob[v])
         \/ \E r \in S3Reqs : BypassedBy(r, v)
<1>0. v # NullVer
  BY LockedIsSafe
<1>1. ASSUME UNCHANGED <<vers, vblob>>
      PROVE  v \in DOMAIN vers' /\ vers'[v] = vers[v] /\ (v \in DOMAIN vblob => vblob'[v] = vblob[v])
  BY <1>1
<1>2. ASSUME NEW r \in S3Reqs, PutVersioned(r)
      PROVE  v \in DOMAIN vers' /\ vers'[v] = vers[v] /\ (v \in DOMAIN vblob => vblob'[v] = vblob[v])
  <2>1. PICK u : u = WriteVid(req[r].status, req[r].body)
    OBVIOUS
  <2>2. PICK row : row = [body |-> req[r].body, marker |-> FALSE]
    OBVIOUS
  <2>3. req[r].pc = "put" /\ vers' = Put(vers, u, row) /\ vblob' = Put(vblob, u, req[r].body)
    BY <1>2, <2>1, <2>2 DEF PutVersioned
  <2>4. u # v
    BY <1>0, <2>1, <2>3, WrittenVersion DEF Writes
  <2> QED
    BY <2>3, <2>4 DEF Put
<1>3. ASSUME NEW r \in S3Reqs, DeleteMarker(r)
      PROVE  v \in DOMAIN vers' /\ vers'[v] = vers[v] /\ (v \in DOMAIN vblob => vblob'[v] = vblob[v])
  <2>1. PICK u : u = WriteVid(req[r].status, req[r].body)
    OBVIOUS
  <2>2. PICK row : row = [body |-> req[r].body, marker |-> TRUE]
    OBVIOUS
  <2>3. /\ req[r].pc = "delete" /\ req[r].status # "" /\ req[r].wants[1] = NoVer
        /\ vers' = Put(vers, u, row) /\ vblob' = Del(vblob, u)
    BY <1>3, <2>1, <2>2 DEF DeleteMarker, DeleteAt, Want
  <2>4. u # v
    BY <1>0, <2>1, <2>3, WrittenVersion DEF Writes
  <2> QED
    BY <2>3, <2>4 DEF Put, Del
<1>4. ASSUME NEW r \in S3Reqs, VersioningApply(r)
      PROVE  v \in DOMAIN vers' /\ vers'[v] = vers[v] /\ (v \in DOMAIN vblob => vblob'[v] = vblob[v])
  <2>1. PICK row : row = [body |-> obj.body, marker |-> FALSE]
    OBVIOUS
  <2>2. CASE vers' = Put(vers, NullVer, row) /\ vblob' = Put(vblob, NullVer, blob)
    BY <1>0, <2>2 DEF Put
  <2>3. CASE UNCHANGED <<vers, vblob>>
    BY <2>3
  <2> QED
    BY <1>4, <2>1, <2>2, <2>3 DEF VersioningApply
<1>5. ASSUME NEW r \in S3Reqs, DeleteVersion(r)
      PROVE  \/ v \in DOMAIN vers' /\ vers'[v] = vers[v] /\ (v \in DOMAIN vblob => vblob'[v] = vblob[v])
             \/ BypassedBy(r, v)
  <2>1. /\ req[r].pc = "delete" /\ ~ObjectVersionLocked(Want(r), req[r].bypass)
        /\ vers' = Del(vers, Want(r)) /\ vblob' = Del(vblob, Want(r))
    BY <1>5 DEF DeleteVersion, DeleteAt, Deletable
  <2>2. CASE Want(r) = v
    <3>1. req[r].bypass \in BOOLEAN
      BY LockFacts DEF ReqRec
    <3>2. req[r].bypass = TRUE
      BY <2>1, <2>2, <3>1
    <3> QED
      BY <2>1, <2>2, <3>2 DEF BypassedBy
  <2>3. CASE Want(r) # v
    BY <2>1, <2>3 DEF Del
  <2> QED
    BY <2>2, <2>3
<1>6. ASSUME NEW r \in S3Reqs,
             \/ \E l \in {"none", "hold", "GOVERNANCE"}, t \in BOOLEAN : PutBegins(r, l, t)
             \/ \E w, b : DeleteBegins(r, w, b)
             \/ \E st : VersioningBegins(r, st)
             \/ PutBlob(r) \/ PutRecord(r) \/ DeleteRefused(r) \/ DeleteBlob(r) \/ DeleteRecord(r)
             \/ DeleteBucketBegins(r) \/ DeleteBucketApply(r)
      PROVE  UNCHANGED <<vers, vblob>>
  BY <1>6 DEF PutBegins, DeleteBegins, VersioningBegins, PutBlob, PutRecord, DeleteRefused, DeleteBlob, DeleteRecord,
              DeleteBucketBegins, DeleteBucketApply, content
<1>7. ASSUME \/ \E l : CreateBucket(l)
             \/ \E d : PutObjectLockConfiguration(d)
             \/ \E u, on : PutObjectLegalHold(u, on)
             \/ \E t : PutTagging(t)
             \/ S3Tick \/ ListBegins \/ ListPage
      PROVE  UNCHANGED <<vers, vblob>>
  BY <1>7 DEF CreateBucket, PutObjectLockConfiguration, PutObjectLegalHold, PutTagging, S3Tick, ListBegins, ListPage,
              content
<1>8. CASE \E r \in S3Reqs : PutVersioned(r) \/ DeleteMarker(r) \/ VersioningApply(r) \/ DeleteVersion(r)
  BY <1>2, <1>3, <1>4, <1>5, <1>8
<1>9. CASE ~\E r \in S3Reqs : PutVersioned(r) \/ DeleteMarker(r) \/ VersioningApply(r) \/ DeleteVersion(r)
  <2>1. UNCHANGED <<vers, vblob>>
    BY <1>6, <1>7, <1>9 DEF S3Next, S3Requests, S3Buckets, S3Locks, S3Tagging, S3Listing
  <2> QED
    BY <1>1, <2>1
<1> QED
  BY <1>8, <1>9

\* A version under a legal hold or a retention keeps its record and its blob
\* through every put, delete, versioning change and configuration, for any
\* number of concurrent requests (objectVersionLocked, putObject, deleteObject,
\* versioning).
THEOREM LockedVersionsAreKept == S3Spec => LockedVersionsStay
<1>1. S3Init => LockInv
  BY KeyStart, LockStart DEF LockInv
<1>2. LockInv /\ [S3Next]_s3vars =>
        [\A v \in DOMAIN vers : ObjectVersionLocked(v, FALSE) /\ ~raced' =>
           \/ v \in DOMAIN vers' /\ vers'[v] = vers[v] /\ (v \in DOMAIN vblob => vblob'[v] = vblob[v])
           \/ \E r \in S3Reqs : BypassedBy(r, v)]_s3vars
  BY KeyStays, LocksKept DEF LockInv
<1> QED
  BY <1>1, <1>2, LockStep, PTL DEF S3Spec, LockedVersionsStay

-----------------------------------------------------------------------------
(* Uploads in parts.                                                       *)

MpRec(q) == [pc : {q.pc}, id : {q.id}, n : {q.n}, big : {q.big}, stamp : {q.stamp}, named : {q.named},
             parts : {q.parts}, existed : {q.existed}, cond : {q.cond}]
\* The parts of upload id were all acknowledged.
AllStored(id, parts, st) == \A n \in DOMAIN parts : <<id, n, parts[n].stamp>> \in st
\* The parts a client names: pairs of a number and the stamp of its ETag.
IsNaming(s) ==
  /\ s = [i \in 1 .. Len(s) |-> s[i]] /\ Len(s) \in Nat
  /\ \A i \in 1 .. Len(s) : s[i] = <<s[i][1], s[i][2]>> /\ s[i][1] \in Nat

\* A completion works on parts that were acknowledged, and one that writes has
\* found them to be those that were named.
MpRequestOK(q, st) ==
  /\ q \in MpRec(q)
  /\ q.pc = "part" => q.n \in Nat
  /\ q.pc \in {"complete", "write"} => AllStored(q.id, q.parts, st) /\ IsNaming(q.named)
  /\ q.pc = "write" => PartsValid(q)
MpRequests == mpReq = [r \in MpReqs |-> mpReq[r]] /\ \A r \in MpReqs : MpRequestOK(mpReq[r], stored)
UploadOK(id, u, st) == u \in [parts : {u.parts}, existed : {u.existed}] /\ AllStored(id, u.parts, st)
MpUploads == \A id \in DOMAIN uploads : UploadOK(id, uploads[id], stored)
StoredTriples == \A p \in stored : p = <<p[1], p[2], p[3]>> /\ p[2] \in Nat
MpInv == MpRequests /\ MpUploads /\ StoredTriples /\ AssemblesWhatWasNamed

LEMMA IdleMpIs == \A st : MpRequestOK(IdleMp, st)
BY DEF IdleMp, MpRequestOK, MpRec

\* More parts are acknowledged, one request moves to rec.
LEMMA MpMoves ==
  ASSUME MpInv, NEW r \in MpReqs, NEW rec, mpReq' = [mpReq EXCEPT ![r] = rec],
         stored \subseteq stored', MpRequestOK(rec, stored')
  PROVE  MpRequests'
<1>1. mpReq = [q \in MpReqs |-> mpReq[q]] /\ \A q \in MpReqs : MpRequestOK(mpReq[q], stored)
  BY DEF MpInv, MpRequests
<1>2. mpReq' = [q \in MpReqs |-> mpReq'[q]] /\ mpReq'[r] = rec /\ \A q \in MpReqs : q # r => mpReq'[q] = mpReq[q]
  BY <1>1
<1>3. ASSUME NEW q \in MpReqs, q # r PROVE MpRequestOK(mpReq[q], stored')
  BY <1>1, Zenon DEF MpRequestOK, AllStored
<1> QED
  BY <1>2, <1>3 DEF MpRequests

\* Numbers that ascend from one to the next ascend throughout.
LEMMA AscendThroughout ==
  ASSUME NEW n \in Nat, NEW f, \A i \in 1 .. n : f[i] \in Nat, \A i \in 2 .. n : f[i - 1] < f[i],
         NEW i \in 1 .. n, NEW j \in 1 .. n, i < j
  PROVE  f[i] < f[j]
<1> SUFFICES ASSUME ~(f[i] < f[j]) PROVE FALSE
  OBVIOUS
<1> DEFINE T == {k \in 1 .. n : i < k /\ ~(f[i] < f[k])}
<1>1. T \subseteq Nat /\ T # {}
  <2>1. j \in T
    OBVIOUS
  <2> QED
    BY <2>1
<1>2. PICK m \in T : \A k \in T : m <= k
  <2> HIDE DEF T
  <2>1. PICK x \in T : \A y \in T : ~(<<y, x>> \in OpToRel(<, Nat))
    BY <1>1, WFMin, NatLessThanWellFounded, Zenon
  <2>2. \A y \in T : y \in Nat /\ x \in Nat
    BY <1>1
  <2>3. \A y \in T : ~(y < x)
    BY <2>1, <2>2, Zenon DEF OpToRel
  <2> QED
    BY <2>2, <2>3
<1>3. m \in 1 .. n /\ i < m /\ ~(f[i] < f[m])
  BY <1>2
<1>4. m \in 2 .. n /\ m - 1 \in 1 .. n /\ f[m - 1] < f[m]
  BY <1>3
<1>5. CASE m - 1 = i
  BY <1>3, <1>4, <1>5
<1>6. CASE m - 1 # i
  <2>1. i < m - 1
    BY <1>3, <1>4, <1>6
  <2>2. m - 1 \notin T
    BY <1>2, <1>3
  <2>3. f[i] < f[m - 1]
    BY <1>4, <2>1, <2>2
  <2> QED
    BY <1>3, <1>4, <2>3
<1> QED
  BY <1>5, <1>6

LEMMA MpFacts ==
  ASSUME MpInv, NEW r \in MpReqs
  PROVE  mpReq[r] \in MpRec(mpReq[r]) /\ MpRequestOK(mpReq[r], stored)
<1>1. MpRequestOK(mpReq[r], stored)
  BY DEF MpInv, MpRequests
<1> QED
  BY <1>1 DEF MpRequestOK

\* What is kept when uploads come, change or go but no part is acknowledged and
\* no object written.
LEMMA MpRest ==
  ASSUME MpInv, UNCHANGED <<stored, wrote>>, MpRequests', MpUploads'
  PROVE  MpInv'
BY DEF MpInv, StoredTriples, AssemblesWhatWasNamed

LEMMA MpUploadsChange ==
  ASSUME MpInv, UNCHANGED <<mpReq, stored, wrote>>,
         \/ \E id, old : uploads' = Put(uploads, id, [parts |-> NoRows, existed |-> old])
         \/ \E id : uploads' = Del(uploads, id)
         \/ uploads' = NoRows
  PROVE  MpInv'
<1>1. MpRequests'
  BY DEF MpInv, MpRequests
<1>2. DOMAIN NoRows = {}
  BY DEF NoRows
<1>3. MpUploads'
  <2>0. MpUploads
    BY DEF MpInv
  <2>1. ASSUME NEW id, NEW old, uploads' = Put(uploads, id, [parts |-> NoRows, existed |-> old]) PROVE MpUploads'
    <3>1. PICK u : u = [parts |-> NoRows, existed |-> old]
      OBVIOUS
    <3>2. u \in [parts : {u.parts}, existed : {u.existed}] /\ u.parts = NoRows
      BY <3>1
    <3>3. UploadOK(id, u, stored)
      BY <1>2, <3>2 DEF UploadOK, AllStored
    <3>4. DOMAIN uploads' = DOMAIN uploads \union {id} /\ uploads'[id] = u
          /\ \A x \in DOMAIN uploads : x # id => uploads'[x] = uploads[x]
      BY <2>1, <3>1 DEF Put
    <3> QED
      BY <2>0, <3>3, <3>4 DEF MpUploads
  <2>2. ASSUME NEW id, uploads' = Del(uploads, id) PROVE MpUploads'
    BY <2>0, <2>2 DEF MpUploads, Del
  <2>3. CASE uploads' = NoRows
    BY <1>2, <2>3 DEF MpUploads
  <2> QED
    BY <2>1, <2>2, <2>3
<1> QED
  BY <1>1, <1>3, MpRest

\* A request moves, nothing else but the object.
LEMMA MpMovesOnly ==
  ASSUME MpInv, NEW r \in MpReqs, NEW rec, mpReq' = [mpReq EXCEPT ![r] = rec],
         UNCHANGED <<uploads, stored>>, MpRequestOK(rec, stored)
  PROVE  MpRequests' /\ MpUploads' /\ StoredTriples'
<1>1. MpRequests'
  BY MpMoves
<1> QED
  BY <1>1 DEF MpInv, MpUploads, StoredTriples

LEMMA UploadPartKeeps ==
  ASSUME MpInv, NEW r \in MpReqs, NEW id, NEW n \in Nat, NEW big, UploadPart(r, id, n, big)
  PROVE  MpInv'
<1>1. PICK s : s = mpOps + 1
  OBVIOUS
<1>2. PICK rec : rec = [IdleMp EXCEPT !.pc = "part", !.id = id, !.n = n, !.big = big, !.stamp = s]
  OBVIOUS
<1>3. mpReq' = [mpReq EXCEPT ![r] = rec] /\ UNCHANGED <<uploads, stored, wrote>>
  BY <1>1, <1>2 DEF UploadPart, MpBegins
<1>4. rec \in MpRec(rec) /\ rec.pc = "part" /\ rec.n \in Nat
  BY <1>2 DEF IdleMp, MpRec
<1>5. MpRequestOK(rec, stored)
  BY <1>4 DEF MpRequestOK
<1> QED
  BY <1>3, <1>5, MpMovesOnly, MpRest

LEMMA NamedIsNaming ==
  ASSUME StoredTriples, NEW id, NEW s \in Named(id)
  PROVE  IsNaming(s)
<1> DEFINE X == {<<p[2], p[3]>> : p \in {q \in stored : q[1] = id}}
<1>1. PICK k \in 1 .. 2 : s \in [1 .. k -> X]
  BY DEF Named
<1>2. ASSUME NEW x \in X PROVE x = <<x[1], x[2]>> /\ x[1] \in Nat
  BY DEF StoredTriples
<1> HIDE DEF X
<1>3. Len(s) = k /\ k \in Nat /\ s \in Seq(X)
  BY <1>1
<1>4. \A i \in 1 .. k : s[i] \in X
  BY <1>1
<1>5. s = [i \in 1 .. k |-> s[i]]
  BY <1>1
<1> QED
  BY <1>2, <1>3, <1>4, <1>5 DEF IsNaming

LEMMA CompleteMPUKeeps ==
  ASSUME MpInv, NEW r \in MpReqs, NEW id \in DOMAIN uploads, NEW s \in Named(id), NEW c, CompleteMPU(r, id, s, c)
  PROVE  MpInv'
<1>1. PICK parts, old : parts = uploads[id].parts /\ old = uploads[id].existed
  OBVIOUS
<1>2. PICK rec : rec = [IdleMp EXCEPT !.pc = "complete", !.id = id, !.named = s, !.cond = c,
                                      !.parts = parts, !.existed = old]
  OBVIOUS
<1>3. mpReq' = [mpReq EXCEPT ![r] = rec] /\ UNCHANGED <<uploads, stored, wrote>>
  BY <1>1, <1>2 DEF CompleteMPU, MpBegins
<1>4. rec \in MpRec(rec) /\ rec.pc = "complete" /\ rec.id = id /\ rec.parts = parts /\ rec.named = s
  BY <1>2 DEF IdleMp, MpRec
<1>5. AllStored(id, parts, stored)
  BY <1>1 DEF MpInv, MpUploads, UploadOK
<1>6. IsNaming(s)
  BY NamedIsNaming DEF MpInv
<1>7. MpRequestOK(rec, stored)
  BY <1>4, <1>5, <1>6 DEF MpRequestOK
<1> QED
  BY <1>3, <1>7, MpMovesOnly, MpRest

\* The part is in its upload, and every part of an upload was acknowledged.
LEMMA StorePartIs ==
  ASSUME MpInv, NEW r \in MpReqs, StorePart(r)
  PROVE  /\ MpInv'
         /\ \A p \in stored' \ stored : /\ p[1] \in DOMAIN uploads
                                        /\ p[1] \in DOMAIN uploads' /\ uploads'[p[1]].parts[p[2]].stamp = p[3]
<1>1. PICK id, n, s, big : id = mpReq[r].id /\ n = mpReq[r].n /\ s = mpReq[r].stamp /\ big = mpReq[r].big
  OBVIOUS
<1>2. PICK u, row : u = uploads[id] /\ row = [stamp |-> s, big |-> big]
  OBVIOUS
<1>3. PICK parts : parts = Put(u.parts, n, row)
  OBVIOUS
<1>4. PICK v : v = [u EXCEPT !.parts = parts]
  OBVIOUS
<1>5. /\ mpReq' = [mpReq EXCEPT ![r] = IdleMp] /\ mpReq[r].pc = "part" /\ id \in DOMAIN uploads
      /\ uploads' = Put(uploads, id, v) /\ stored' = stored \union {<<id, n, s>>} /\ wrote' = wrote
  BY <1>1, <1>2, <1>3, <1>4 DEF StorePart, MpAt, MpEnds, StillThere, MatchesMultipartUpload
<1>6. n \in Nat
  BY <1>1, <1>5, MpFacts DEF MpRequestOK
<1>7. UploadOK(id, u, stored)
  BY <1>2, <1>5 DEF MpInv, MpUploads
<1>8. v \in [parts : {v.parts}, existed : {v.existed}] /\ v.parts = parts
  BY <1>4, <1>7 DEF UploadOK
<1>9. row.stamp = s
  BY <1>2
<1>10. DOMAIN parts = DOMAIN u.parts \union {n} /\ parts[n] = row
       /\ \A m \in DOMAIN u.parts : m # n => parts[m] = u.parts[m]
  BY <1>3 DEF Put
<1>11. AllStored(id, parts, stored')
  BY <1>5, <1>7, <1>9, <1>10 DEF UploadOK, AllStored
<1>12. DOMAIN uploads' = DOMAIN uploads \union {id} /\ uploads'[id] = v
       /\ \A x \in DOMAIN uploads : x # id => uploads'[x] = uploads[x]
  BY <1>5 DEF Put
<1>13. MpUploads'
  <2>1. UploadOK(id, v, stored')
    BY <1>8, <1>11 DEF UploadOK
  <2>2. ASSUME NEW x \in DOMAIN uploads PROVE UploadOK(x, uploads[x], stored')
    <3>1. UploadOK(x, uploads[x], stored)
      BY DEF MpInv, MpUploads
    <3> QED
      BY <1>5, <3>1 DEF UploadOK, AllStored
  <2> QED
    BY <1>12, <2>1, <2>2 DEF MpUploads
<1>14. MpRequests'
  BY <1>5, IdleMpIs, MpMoves
<1>15. StoredTriples'
  BY <1>5, <1>6 DEF MpInv, StoredTriples
<1>16. AssemblesWhatWasNamed'
  BY <1>5 DEF MpInv, AssemblesWhatWasNamed
<1>17. ASSUME NEW p \in stored' \ stored
       PROVE  /\ p[1] \in DOMAIN uploads
              /\ p[1] \in DOMAIN uploads' /\ uploads'[p[1]].parts[p[2]].stamp = p[3]
  <2>1. p[1] = id /\ p[2] = n /\ p[3] = s
    BY <1>5
  <2>2. uploads'[id].parts[n].stamp = s
    BY <1>8, <1>9, <1>10, <1>12
  <2> QED
    BY <1>5, <1>12, <2>1, <2>2
<1> QED
  BY <1>13, <1>14, <1>15, <1>16, <1>17 DEF MpInv

LEMMA CompleteChecksKeeps ==
  ASSUME MpInv, NEW r \in MpReqs, CompleteChecks(r)
  PROVE  MpInv'
<1>1. PICK q : q = mpReq[r]
  OBVIOUS
<1>2. PICK rec : rec = [q EXCEPT !.pc = "write"]
  OBVIOUS
<1>3. q.pc = "complete" /\ PartsValid(q) /\ UNCHANGED <<uploads, stored, wrote>>
  BY <1>1 DEF CompleteChecks, MpAt
<1>4. mpReq' = [mpReq EXCEPT ![r] = rec]
  <2>1. mpReq = [p \in MpReqs |-> mpReq[p]]
    BY DEF MpInv, MpRequests
  <2> QED
    BY <1>1, <1>2, <2>1 DEF CompleteChecks
<1>5. q \in MpRec(q) /\ MpRequestOK(q, stored)
  BY <1>1, MpFacts
<1>6. rec \in MpRec(rec) /\ rec.pc = "write" /\ rec.id = q.id /\ rec.parts = q.parts /\ rec.named = q.named
  BY <1>2, <1>5 DEF MpRec
<1>7. MpRequestOK(rec, stored)
  <2>1. AllStored(q.id, q.parts, stored) /\ IsNaming(q.named)
    BY <1>3, <1>5 DEF MpRequestOK
  <2>2. PartsValid(rec)
    BY <1>3, <1>6 DEF PartsValid
  <2> QED
    BY <1>6, <2>1, <2>2 DEF MpRequestOK
<1> QED
  BY <1>3, <1>4, <1>7, MpMovesOnly, MpRest

\* The object is what was named, in ascending order.
LEMMA CompleteWritesKeeps ==
  ASSUME MpInv, NEW r \in MpReqs, CompleteWrites(r)
  PROVE  MpInv'
<1>1. PICK q : q = mpReq[r]
  OBVIOUS
<1>2. PICK rec : rec = [q EXCEPT !.pc = "remove"]
  OBVIOUS
<1>3. PICK made : made = Assembled(q)
  OBVIOUS
<1>4. /\ q.pc = "write" /\ UNCHANGED <<uploads, stored>> /\ mpObj' = [is |-> TRUE, parts |-> made]
      /\ wrote' = wrote \union {[id |-> q.id, named |-> q.named, parts |-> mpObj'.parts]}
  BY <1>1, <1>3 DEF CompleteWrites, MpAt
<1>5. mpReq' = [mpReq EXCEPT ![r] = rec]
  <2>1. mpReq = [p \in MpReqs |-> mpReq[p]]
    BY DEF MpInv, MpRequests
  <2> QED
    BY <1>1, <1>2, <2>1 DEF CompleteWrites
<1>6. q \in MpRec(q) /\ MpRequestOK(q, stored)
  BY <1>1, MpFacts
<1>7. rec \in MpRec(rec) /\ rec.pc = "remove"
  BY <1>2, <1>6 DEF MpRec
<1>8. MpRequestOK(rec, stored)
  BY <1>7 DEF MpRequestOK
<1>9. AllStored(q.id, q.parts, stored) /\ IsNaming(q.named) /\ PartsValid(q)
  BY <1>4, <1>6 DEF MpRequestOK
<1>10. PICK s : s = q.named
  OBVIOUS
<1>11. /\ s = [i \in 1 .. Len(s) |-> s[i]] /\ Len(s) \in Nat
       /\ \A i \in 1 .. Len(s) : /\ s[i] = <<s[i][1], s[i][2]>> /\ s[i][1] \in Nat
                                 /\ s[i][1] \in DOMAIN q.parts /\ q.parts[s[i][1]].stamp = s[i][2]
       /\ \A i \in 2 .. Len(s) : s[i - 1][1] < s[i][1]
  BY <1>9, <1>10 DEF IsNaming, PartsValid
<1>12. made = s
  <2>1. made = [i \in 1 .. Len(s) |-> <<s[i][1], q.parts[s[i][1]].stamp>>]
    BY <1>3, <1>10 DEF Assembled
  <2>2. \A i \in 1 .. Len(s) : <<s[i][1], q.parts[s[i][1]].stamp>> = s[i]
    BY <1>11
  <2> QED
    BY <1>11, <2>1, <2>2
<1>13. \A i \in 1 .. Len(s) : <<q.id, s[i][1], s[i][2]>> \in stored
  BY <1>9, <1>11 DEF AllStored
<1>14. \A i, j \in 1 .. Len(s) : i < j => s[i][1] < s[j][1]
  <2>1. PICK f : f = [i \in 1 .. Len(s) |-> s[i][1]]
    OBVIOUS
  <2>2. (\A i \in 1 .. Len(s) : f[i] \in Nat) /\ (\A i \in 2 .. Len(s) : f[i - 1] < f[i])
    BY <1>11, <2>1
  <2>3. \A i, j \in 1 .. Len(s) : i < j => f[i] < f[j]
    BY <1>11, <2>2, AscendThroughout
  <2> QED
    BY <2>1, <2>3
<1>15. PICK w : w = [id |-> q.id, named |-> s, parts |-> made]
  OBVIOUS
<1>16. wrote' = wrote \union {w}
  <2>1. mpObj'.parts = made
    BY <1>4
  <2> QED
    BY <1>4, <1>10, <1>15, <2>1
<1>17. w.id = q.id /\ w.named = s /\ w.parts = s
  BY <1>12, <1>15
<1>18. AssemblesWhatWasNamed'
  <2>1. ASSUME NEW x \in wrote
        PROVE  /\ x.parts = x.named
               /\ \A i \in 1 .. Len(x.parts) : <<x.id, x.parts[i][1], x.parts[i][2]>> \in stored
               /\ \A i, j \in 1 .. Len(x.parts) : i < j => x.parts[i][1] < x.parts[j][1]
    BY DEF MpInv, AssemblesWhatWasNamed
  <2>2. /\ w.parts = w.named
        /\ \A i \in 1 .. Len(w.parts) : <<w.id, w.parts[i][1], w.parts[i][2]>> \in stored
        /\ \A i, j \in 1 .. Len(w.parts) : i < j => w.parts[i][1] < w.parts[j][1]
    BY <1>13, <1>14, <1>17
  <2> QED
    BY <1>4, <1>16, <2>1, <2>2, Zenon DEF AssemblesWhatWasNamed
<1>19. MpRequests' /\ MpUploads' /\ StoredTriples'
  BY <1>4, <1>5, <1>8, MpMovesOnly
<1> QED
  BY <1>18, <1>19 DEF MpInv

\* A request ends, and may take its upload with it.
LEMMA MpEndsKeeps ==
  ASSUME MpInv, NEW r \in MpReqs, MpEnds(r), UNCHANGED <<stored, wrote>>,
         uploads' = uploads \/ \E id : uploads' = Del(uploads, id)
  PROVE  MpInv'
<1>1. MpRequests'
  BY IdleMpIs, MpMoves DEF MpEnds
<1>2. MpUploads'
  BY DEF MpInv, MpUploads, Del
<1> QED
  BY <1>1, <1>2, MpRest

LEMMA MpStep == MpInv /\ [MultipartNext]_mpvars => MpInv'
<1> SUFFICES ASSUME MpInv, [MultipartNext]_mpvars PROVE MpInv'
  OBVIOUS
<1>1. ASSUME CreateMPU PROVE MpInv'
  BY <1>1, MpUploadsChange DEF CreateMPU
<1>2. ASSUME DropUploads \/ \E id : AbortMPU(id) PROVE MpInv'
  BY <1>2, MpUploadsChange DEF DropUploads, AbortMPU
<1>3. ASSUME NEW r \in MpReqs, NEW id, NEW n \in 1 .. MpParts, NEW big, UploadPart(r, id, n, big) PROVE MpInv'
  <2>1. n \in Nat
    BY MpBounds
  <2> QED
    BY <1>3, <2>1, UploadPartKeeps
<1>4. ASSUME NEW r \in MpReqs, NEW id \in DOMAIN uploads, NEW s \in Named(id), NEW c, CompleteMPU(r, id, s, c)
      PROVE  MpInv'
  BY <1>4, CompleteMPUKeeps
<1>5. ASSUME NEW r \in MpReqs, StorePart(r) \/ CompleteChecks(r) \/ CompleteWrites(r) PROVE MpInv'
  BY <1>5, StorePartIs, CompleteChecksKeeps, CompleteWritesKeeps
<1>6. ASSUME NEW r \in MpReqs, PartRefused(r) \/ CompleteRemoves(r) \/ CompleteRefused(r) PROVE MpInv'
  BY <1>6, MpEndsKeeps DEF PartRefused, CompleteRemoves, CompleteRefused
<1>7. ASSUME UNCHANGED mpvars PROVE MpInv'
  BY <1>7 DEF mpvars, MpInv, MpRequests, MpUploads, StoredTriples, AssemblesWhatWasNamed
<1> QED
  BY <1>1, <1>2, <1>3, <1>4, <1>5, <1>6, <1>7 DEF MultipartNext

\* Only a part that is stored is acknowledged.
LEMMA OnlyStored ==
  ASSUME MpInv, MultipartNext, NEW p \in stored' \ stored
  PROVE  p[1] \in DOMAIN uploads /\ p[1] \in DOMAIN uploads' /\ uploads'[p[1]].parts[p[2]].stamp = p[3]
<1>1. ASSUME NEW r \in MpReqs, StorePart(r)
      PROVE  p[1] \in DOMAIN uploads /\ p[1] \in DOMAIN uploads' /\ uploads'[p[1]].parts[p[2]].stamp = p[3]
  BY <1>1, StorePartIs
<1>2. stored' # stored
  OBVIOUS
<1>3. \E r \in MpReqs : StorePart(r)
  BY <1>2 DEF MultipartNext, CreateMPU, DropUploads, AbortMPU, UploadPart, CompleteMPU, PartRefused, CompleteChecks,
              CompleteWrites, CompleteRemoves, CompleteRefused
<1> QED
  BY <1>1, <1>3

LEMMA MpStart == MultipartInit => MpInv
<1> SUFFICES ASSUME MultipartInit PROVE MpInv
  OBVIOUS
<1>1. uploads = NoRows /\ mpReq = [r \in MpReqs |-> IdleMp] /\ stored = {} /\ wrote = {} /\ DOMAIN NoRows = {}
  BY DEF MultipartInit, NoRows
<1>2. MpRequests
  BY <1>1, IdleMpIs DEF MpRequests
<1> QED
  BY <1>1, <1>2 DEF MpInv, MpUploads, StoredTriples, AssemblesWhatWasNamed

\* An acknowledged part is in its upload, and a completion writes exactly the
\* parts its client named, in ascending order, with the content they were
\* acknowledged for, for any number of requests and parts (uploadPart,
\* completeMPU, abortMPU).
THEOREM UploadsAreWhole == MultipartSpec => UploadsHold
<1>1. MpInv /\ [MultipartNext]_mpvars =>
        [\A p \in stored' \ stored :
           /\ p[1] \in DOMAIN uploads
           /\ p[1] \in DOMAIN uploads' /\ uploads'[p[1]].parts[p[2]].stamp = p[3]]_mpvars
  BY OnlyStored
<1>2. MpInv => AssemblesWhatWasNamed
  BY DEF MpInv
<1> QED
  BY <1>1, <1>2, MpStart, MpStep, PTL DEF MultipartSpec, UploadsHold, NoPartLost

-----------------------------------------------------------------------------
(* Ranges.                                                                 *)

RgInv == ask \in Asks /\ (answer = NoAnswer \/ answer = RangeAnswer(ask))

LEMMA RangeIsExact ==
  ASSUME NEW first \in Bounds, NEW last \in Bounds, NEW size \in 0 .. RgMax,
         NEW a, a = ObjectByteRange(first, last, size), a.kind = "range"
  PROVE  /\ a.from \in Nat /\ a.len \in Nat /\ a.len > 0 /\ a.from + a.len <= size
         /\ Bytes(a) = {b \in 0 .. (size - 1) : IF first = NoBound THEN b >= size - last
                                                ELSE b >= first /\ (last # NoBound => b <= last)}
<1>1. /\ RgMax \in Nat /\ size \in Nat /\ size <= RgMax
      /\ first \in {-1, -2} \union Nat /\ last \in {-1, -2} \union Nat
  BY RgBounds DEF Bounds, NoBound, Bad
<1>2. Whole(size).kind = "whole" /\ RangeError.kind = "error"
  BY DEF Whole, RangeError
<1>3. \A from, len : Span(from, len).from = from /\ Span(from, len).len = len
  BY DEF Span
<1>4. CASE first = NoBound
  <2>1. a = SuffixRange(last, size)
    BY <1>4 DEF ObjectByteRange
  <2>2. last > 0 /\ size > 0 /\ a = (IF last > size THEN Span(0, size) ELSE Span(size - last, last))
    BY <1>1, <1>2, <2>1 DEF SuffixRange
  <2>3. CASE last > size
    <3>1. a.from = 0 /\ a.len = size
      BY <1>3, <2>2, <2>3
    <3>2. Bytes(a) = 0 .. (size - 1)
      BY <1>1, <3>1 DEF Bytes
    <3>3. \A b \in 0 .. (size - 1) : b >= size - last
      BY <1>1, <2>3
    <3> QED
      BY <1>1, <1>4, <2>2, <3>1, <3>2, <3>3
  <2>4. CASE ~(last > size)
    <3>1. a.from = size - last /\ a.len = last
      BY <1>3, <2>2, <2>4
    <3>2. Bytes(a) = {b \in 0 .. (size - 1) : b >= size - last}
      BY <1>1, <2>2, <2>4, <3>1 DEF Bytes
    <3> QED
      BY <1>1, <1>4, <2>2, <2>4, <3>1, <3>2
  <2> QED
    BY <2>3, <2>4
<1>5. CASE first # NoBound
  <2>1. /\ first \in Nat /\ first < size /\ (last = NoBound \/ (last \in Nat /\ last >= first))
        /\ a = Span(first, ClampEnd(last, size) - first + 1)
    BY <1>1, <1>2, <1>5 DEF ObjectByteRange, NoBound, Bad
  <2>2. PICK end : end = ClampEnd(last, size)
    OBVIOUS
  <2>3. end \in Nat /\ end >= first /\ end <= size - 1
        /\ (last = NoBound => end = size - 1) /\ (last # NoBound => end = IF last >= size THEN size - 1 ELSE last)
    BY <1>1, <2>1, <2>2 DEF ClampEnd, NoBound
  <2>4. a.from = first /\ a.len = end - first + 1
    BY <1>3, <2>1, <2>2
  <2>5. Bytes(a) = {b \in 0 .. (size - 1) : b >= first /\ b <= end}
    BY <1>1, <2>1, <2>3, <2>4 DEF Bytes
  <2>6. ASSUME NEW b \in 0 .. (size - 1) PROVE b <= end <=> (last # NoBound => b <= last)
    BY <1>1, <2>1, <2>3
  <2> QED
    BY <1>1, <1>5, <2>1, <2>3, <2>4, <2>5, <2>6
<1> QED
  BY <1>4, <1>5

LEMMA CopiesReadAlike ==
  ASSUME NEW c \in Conditions, NEW modified \in {0, 1}, NEW now \in {1, 2},
         CopyCondition(c, 1, modified, now) = "read", ~(c.match # NoBound /\ c.unmodified # NoBound)
  PROVE  ReadCondition(c, 1, modified, now) = "read"
BY DEF CopyCondition, ReadCondition, Conditions, NoBound

LEMMA RgGoodHolds == RgInv => RangeExact /\ CopyAgreesWithRead
<1> SUFFICES ASSUME RgInv PROVE RangeExact /\ CopyAgreesWithRead
  OBVIOUS
<1>1. RangeExact
  <2> SUFFICES ASSUME answer # NoAnswer, ask.op = "Range", answer.kind = "range"
               PROVE  /\ answer.len > 0 /\ answer.from + answer.len <= ask.size
                      /\ Bytes(answer) = {b \in 0..(ask.size - 1) :
                           IF ask.first = NoBound THEN b >= ask.size - ask.last
                           ELSE b >= ask.first /\ (ask.last # NoBound => b <= ask.last)}
    BY DEF RangeExact, Answered
  <2>1. answer = ObjectByteRange(ask.first, ask.last, ask.size)
    BY DEF RgInv, RangeAnswer
  <2>2. ask.first \in Bounds /\ ask.last \in Bounds /\ ask.size \in 0 .. RgMax
    BY DEF RgInv, Asks
  <2> QED
    BY <2>1, <2>2, RangeIsExact
<1>2. CopyAgreesWithRead
  <2> SUFFICES ASSUME answer # NoAnswer, ask.op = "CopySource", answer.kind = "read",
                      ~(ask.cond.match # NoBound /\ ask.cond.unmodified # NoBound)
               PROVE  ReadCondition(ask.cond, 1, ask.modified, ask.now) = "read"
    BY DEF CopyAgreesWithRead, Answered
  <2>1. answer = Verdict(CopyCondition(ask.cond, 1, ask.modified, ask.now))
    BY DEF RgInv, RangeAnswer
  <2>2. ask.cond \in Conditions /\ ask.modified \in {0, 1} /\ ask.now \in {1, 2}
    BY DEF RgInv, Asks
  <2>3. CopyCondition(ask.cond, 1, ask.modified, ask.now) = "read"
    BY <2>1 DEF Verdict
  <2> QED
    BY <2>2, <2>3, CopiesReadAlike
<1> QED
  BY <1>1, <1>2

\* A ranged read returns exactly the bytes its header names, for objects of any
\* size, and what a copy accepts under a condition a read returns
\* (objectByteRange, checkReadPreconditions, checkCopySourcePreconditions).
THEOREM RangesAreExact == RangesSpec => [](RangeExact /\ CopyAgreesWithRead)
<1>1. RangesInit => RgInv
  BY DEF RangesInit, RgInv
<1>2. RgInv /\ [RangesNext]_rgvars => RgInv'
  BY DEF RgInv, RangesNext, rgvars
<1> QED
  BY <1>1, <1>2, RgGoodHolds, PTL DEF RangesSpec
=============================================================================
