------------------------------ MODULE MCDelivery ------------------------------
(***************************************************************************)
(* Firehose, SNS and Kinesis for TLC.  The parts share no state here, so a *)
(* behaviour exercises one of them, chosen by `focus`; the others keep one *)
(* fixed initial state.                                                    *)
(***************************************************************************)
EXTENDS FirehoseDelivery, Streams, Sns

VARIABLE focus

deliveryvars == <<focus, fhvars, prvars, fcvars, snvars, flvars, plvars, ksvars>>

(***************************************************************************)
(* Values of the constants                                                 *)
(***************************************************************************)
Dest(k, a, w, e, t, n, f) ==
  [kind |-> k, all |-> a, window |-> w, every |-> e, text |-> t, epochs |-> n, flips |-> f]
MCFhConfigs ==
  {Dest("http", FALSE, 3, 2, {}, 1, 0), Dest("http", TRUE, 0, 2, {}, 1, 1),
      Dest("http", FALSE, 1, 0, {}, 2, 0),
   Dest("splunk", TRUE, 2, 1, {}, 1, 0), Dest("snowflake", FALSE, 2, 0, {1}, 1, 1),
   Dest("search", FALSE, 2, 1, {2}, 1, 0), Dest("search", TRUE, 1, 0, {}, 1, 0),
   Dest("redshift", FALSE, 3, 0, {}, 1, 1)}

Text == [form |-> "text"]
Json(k) == [form |-> "json", keyed |-> k]
Many(s) == [form |-> "many", parts |-> s]
Gzip(d) == [form |-> "gzip", inner |-> d]
LogOf(t, n) == [form |-> "log", type |-> t, events |-> n]
MCPrInputs ==
  {Text, Json(TRUE), Json(FALSE), Many(<<>>), Many(<<Json(TRUE), Json(FALSE)>>), Many(<<Json(TRUE), Text>>),
   Many(<<Json(TRUE), Json(TRUE), Json(TRUE)>>), Many(<<Json(TRUE), Json(TRUE), Text>>),
       Gzip(LogOf("DATA", 1)),
   Gzip(LogOf("CONTROL", 0)), Gzip(LogOf("DATA", 0)), Gzip(Many(<<Json(TRUE), Json(FALSE)>>))}
MCStages ==
  {"RecordDeAggregation.json", "RecordDeAggregation.delimited", "Decompression", "CloudWatchLogProcessing",
   "MetadataExtraction", "Lambda", "AppendDelimiterToRecord"}
MCPrPlans ==
  UNION {[1..n -> MCStages] : n \in 0..2}
    \union {<<"Decompression", "CloudWatchLogProcessing", "Lambda">>,
            <<"RecordDeAggregation.json", "MetadataExtraction", "Lambda">>,
            <<"RecordDeAggregation.json", "Lambda", "MetadataExtraction">>,
            <<"Decompression", "RecordDeAggregation.json", "AppendDelimiterToRecord">>}

Base ==
  [ident |-> "ok", bucket |-> "ok", prefix |-> "plain", errors |-> "none", compression |-> "none",
      mode |-> "",
   backup |-> "absent", hints |-> [i |-> Absent, s |-> Absent], retry |-> Absent, secret |-> "off",
   credentials |-> TRUE, proc |-> [on |-> FALSE, list |-> <<>>], dynamic |-> "absent", logs |-> "off"]
Settings(f) == [x \in DOMAIN Base |-> IF x \in DOMAIN f THEN f[x] ELSE Base[x]]
Processors(s) == [on |-> TRUE, list |-> s]
Keyed == [prefix |-> "lambdaKey", errors |-> "typed", dynamic |-> "on", proc |-> Processors(<<"Lambda">>)]
New(k, s, e, t, f) == [kind |-> k, source |-> s, encrypt |-> e, tags |-> t, settings |-> Settings(f)]
MCFcCreates ==
  {New("extendedS3", "DirectPut", FALSE, {"a"}, Keyed), New("extendedS3", "Kinesis", TRUE, {}, Keyed),
   New("extendedS3", "Kinesis", FALSE, {},
       [mode |-> "Enabled", backup |-> "ok", proc |-> Processors(<<"Decompression",
           "CloudWatchLogProcessing">>)]),
   New("redshift", "DirectPut", TRUE, {}, [mode |-> "Enabled", backup |-> "ok", compression |-> "GZIP"]),
   New("splunk", "DirectPut", FALSE, {"a"}, [mode |-> "AllEvents", hints |-> [i |-> 60, s |-> 5]]),
   New("http", "DirectPut", FALSE, {"a", "b"}, [retry |-> 0]),
   New("http", "DirectPut", FALSE, {}, [retry |-> 7200, secret |-> "on", credentials |-> FALSE]),
   New("snowflake", "MSK", FALSE, {}, [secret |-> "on", credentials |-> FALSE]),
   New("search", "DirectPut", FALSE, {}, [mode |-> "AllDocuments"]),
   New("serverless", "DirectPut", FALSE, {}, [hints |-> [i |-> 5, s |-> Absent]]),
   New("iceberg", "DirectPut", FALSE, {}, [proc |-> Processors(<<"Lambda">>)])}
MCFcPatches ==
  {[prefix |-> "queryKey"], [prefix |-> "timestamp"], [errors |-> "none"], [errors |-> "untyped"],
   [dynamic |-> "off"], [proc |-> Processors(<<"MetadataExtraction">>)], [proc |-> Processors(<<"Lambda">>)],
   [proc |-> [on |-> FALSE, list |-> <<"Lambda">>]], [proc |-> Processors(<<"CloudWatchLogProcessing">>)],
   [proc |-> Processors(<<"MetadataExtraction">>), prefix |-> "queryKey"],
   [mode |-> "Disabled"], [mode |-> "FailedEventsOnly"], [backup |-> "bad"], [compression |-> "Snappy"],
   [hints |-> [i |-> 61, s |-> 5]], [hints |-> [i |-> 901, s |-> 1]],
   [hints |-> [i |-> 900, s |-> Absent]], [retry |-> 7200], [retry |-> 7201],
   [secret |-> "onWithoutARN"], [secret |-> "off", credentials |-> FALSE], [ident |-> "bad"]}

Message(c, k, v) == [class |-> c, key |-> k, valid |-> v]
MCSnBatches ==
  {<<Message("a", "k1", TRUE)>>, <<Message("b", "k2", TRUE), Message("a", "k1", TRUE)>>,
   <<Message("a", "k1", TRUE), Message("a", "k2", FALSE)>>}
MCSnEndpoints ==
  {[name |-> "queue", needsConfirm |-> FALSE, wants |-> {"a", "b"}, dlq |-> TRUE],
   [name |-> "http", needsConfirm |-> TRUE, wants |-> {"a"}, dlq |-> FALSE]}

MCSnFilters == {{"b"}}

Exists(b) == [op |-> "exists", is |-> b]
Values(S) == [op |-> "values", values |-> S]
Not(S) == [op |-> "anything-but", values |-> S]
Between(a, b) == [op |-> "numeric", lo |-> a, hi |-> b]
Lists ==
  {<<Exists(TRUE)>>, <<Exists(FALSE), Values({1})>>, <<Not({1}), Values({1}), Values({2})>>,
   <<Between(2, 3)>>, <<Not({1, 2}), Between(2, 2)>>}
MCFlPolicies ==
  {[keys |-> k, alts |-> a] :
     k \in UNION {[S -> Lists] : S \in SUBSET {"x", "y"}},
     a \in {<<>>} \union {<<[y |-> l]>> : l \in Lists}
             \union {<<[x |-> l], [y |-> l, x |-> <<Exists(TRUE)>>]>> : l \in Lists}}
MCFlMessages == UNION {[S -> 1..3] : S \in SUBSET {"x", "y"}}

(***************************************************************************)
(* The specification                                                       *)
(***************************************************************************)
Foci == {"firehose", "processing", "config", "sns", "filter", "platform", "kinesis"}
One(S) == {CHOOSE x \in S : TRUE}
Of(f, S) == IF focus = f THEN S ELSE One(S)

MCInit ==
  /\ focus \in Foci
  /\ fhCfg \in Of("firehose", FhConfigs) /\ FhInit
  /\ prInput \in Of("processing", PrInputs) /\ prPlan \in Of("processing", PrPlans)
  /\ prDynamic \in Of("processing", BOOLEAN) /\ ProcessingInit
  /\ ConfigInit
  /\ snFifo \in Of("sns", BOOLEAN) /\ SnInit
  /\ flPolicy \in Of("filter", FlPolicies) /\ flMessage \in Of("filter", FlMessages) /\ FilterInit
  /\ PlatformInit /\ KinesisInit

On(f) == focus = f /\ UNCHANGED focus
MCNext ==
  \/ On("firehose") /\ FirehoseNext /\ UNCHANGED <<prvars, fcvars, snvars, flvars, plvars, ksvars>>
  \/ On("processing") /\ ProcessingNext /\ UNCHANGED <<fhvars, fcvars, snvars, flvars, plvars, ksvars>>
  \/ On("config") /\ ConfigNext /\ UNCHANGED <<fhvars, prvars, snvars, flvars, plvars, ksvars>>
  \/ On("sns") /\ SnsNext /\ UNCHANGED <<fhvars, prvars, fcvars, flvars, plvars, ksvars>>
  \/ On("filter") /\ FilterAnswers /\ UNCHANGED <<fhvars, prvars, fcvars, snvars, plvars, ksvars>>
  \/ On("platform") /\ PlatformNext /\ UNCHANGED <<fhvars, prvars, fcvars, snvars, flvars, ksvars>>
  \/ On("kinesis") /\ KinesisNext /\ UNCHANGED <<fhvars, prvars, fcvars, snvars, flvars, plvars>>

\* Handlers and the worker keep running, the clock keeps going, a disabled key
\* is enabled again and a begun deletion finished: each is one condition of
\* fairness over the foci, of which a behaviour has one.
FhFair(A) == On("firehose") /\ A /\ UNCHANGED <<prvars, fcvars, snvars, flvars, plvars, ksvars>>
SnFair(P) ==
  On("sns") /\ (\E p \in P : SnSteps(p)) /\ UNCHANGED <<fhvars, prvars, fcvars, flvars, plvars, ksvars>>
FirstPublisher == One(SnPublishers)
MCFairness ==
  /\ WF_deliveryvars(FhFair(FhWorks) \/ SnFair(FirstPublisher))
  /\ WF_deliveryvars(FhFair(FhHandles) \/ SnFair(SnPublishers \ FirstPublisher))
  /\ WF_deliveryvars(FhFair(FhTick))
  /\ WF_deliveryvars(FhFair(KeyEnabled \/ DeleteRecord))
MCSpec == MCInit /\ [][MCNext]_deliveryvars /\ MCFairness

\* Each record Firehose accepts is buffered, being retried or settled, once, in
\* order, with its payload in place, and its worker never sleeps past due work;
\* processing neither loses nor invents sub-records; a reader of a shard misses
\* nothing; and a filter means its conditions.
DeliveriesHold ==
  /\ WorkHasPayload /\ NothingLost /\ SettledOnce /\ NoSleepThrough /\ FlushInOrder
  /\ SubRecordsConserved /\ ObjectsHoldTheRest /\ ReaderComplete
  /\ FilterMeansItsConditions /\ LimitCountsConditions

\* An update never takes a delivery stream back to an older version; buffered
\* records settle, the work of deleted streams goes, and every publish ends,
\* whatever happens between lock and release.
DeliveryProgress == NeverDowngraded /\ RecordsSettle /\ DeletedWorkGoes /\ PublishEnds
=============================================================================
