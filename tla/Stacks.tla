------------------------------- MODULE Stacks -------------------------------
(***************************************************************************)
(* The template engine of CloudFormation (cloudformation/cfn.go).  A stack *)
(* operation provisions its template's resources one by one, in the order  *)
(* of their logical names, through the services that own them, and stores  *)
(* the stack once all are made; a deletion removes what the stored stack   *)
(* lists, last first.  Operations on different stacks overlap each other   *)
(* and the calls users make on the same services.                          *)
(*                                                                         *)
(* A physical id is a sequence of strings.  Kinds of resource stand for    *)
(* what a second creation under one name does: a "queue" (topic, rule) is  *)
(* found again, a "table" (role, parameter, secret, group, function,       *)
(* stream) is refused, a "key" (REST API) is always a new one, a "bucket"  *)
(* is made and then configured, which may fail.                            *)
(***************************************************************************)
EXTENDS Tables, Sequences, TLC

CONSTANTS
  StNames,      \* stacks
  StTemplates,  \* sequences of entries, sorted by logical name
  StMaxOps      \* bound on stack operations and user calls

VARIABLES
  stWorld,    \* the resources that exist, of every service
  stRecords,  \* the "cfn" collection: name -> [protect, list]
  stOp,       \* name -> the operation under way on that stack
  stLeft,     \* ghost: resources the engine has let go of
  stMade,     \* ghost: resources the engine has made
  stKeys,     \* keys created so far, for new ids
  stCount     \* operations so far

stvars == <<stWorld, stRecords, stOp, stLeft, stMade, stKeys, stCount>>

Resting == [pc |-> "rest", template |-> <<>>, done |-> <<>>, protect |-> FALSE]
StInit ==
  /\ stWorld = {} /\ stRecords = NoRows /\ stOp = [s \in StNames |-> Resting]
  /\ stLeft = {} /\ stMade = {} /\ stKeys = 0 /\ stCount = 0
Counted == stCount < StMaxOps /\ stCount' = stCount + 1

(***************************************************************************)
(* Intrinsics                                                              *)
(***************************************************************************)

\* A Ref is the physical id of a resource that is already made; the name
\* itself otherwise.
ref(logical, done) ==
  LET known == {i \in DOMAIN done : done[i].logical = logical}
  IN IF known = {} THEN <<logical>> ELSE done[MaxOf(known)].phys.id

\* The properties of a resource, Refs resolved: the name it is given, if
\* any, and what else it points to.
resolve(e, done) ==
  [named |-> IF e.nameRef # "" THEN ref(e.nameRef, done) ELSE IF e.name # "" THEN <<e.name>> ELSE <<>>,
   points |-> {done[i].phys : i \in {j \in DOMAIN done : done[j].logical \in e.refs \union {e.nameRef}}}]

(***************************************************************************)
(* CreateStack, UpdateStack, ExecuteChangeSet                              *)
(***************************************************************************)

\* upsert begins: the template is read and parsed (templateBody, formParams).
\* Whether the stack exists is not looked at, only its id is kept.
UpsertBegin(s, t) ==
  /\ stOp[s].pc = "rest" /\ Counted
  /\ stOp' = [stOp EXCEPT ![s] = [Resting EXCEPT !.pc = "make", !.template = t]]
  /\ UNCHANGED <<stWorld, stRecords, stLeft, stMade, stKeys>>

\* The id a resource is provisioned under: its name, or a fallback made of
\* the logical name, with the stack's for buckets, or a new one.
physical(s, e, props) ==
  [kind |-> e.kind,
   id |-> CASE e.kind = "key" -> <<"key", ToString(stKeys + 1)>>
            [] props.named # <<>> -> props.named
            [] e.kind = "bucket" -> <<s, e.logical>>
            [] OTHER -> <<e.logical>>]

\* The operation fails: nothing is stored, what was made stays.
Fail(s, made) ==
  /\ stOp' = [stOp EXCEPT ![s] = Resting]
  /\ stLeft' = stLeft \union made \union {stOp[s].done[i].phys : i \in DOMAIN stOp[s].done}

\* One resource.
provision(s) ==
  /\ stOp[s].pc = "make" /\ Len(stOp[s].done) < Len(stOp[s].template)
  /\ LET done == stOp[s].done
         e == stOp[s].template[Len(done) + 1]
         props == resolve(e, done)
         phys == physical(s, e, props)
         refused == e.kind = "other" \/ (e.kind \in {"table", "bucket"} /\ phys \in stWorld)
     IN \/ /\ refused /\ Fail(s, {})
           /\ UNCHANGED <<stWorld, stRecords, stMade, stKeys, stCount>>
        \/ /\ ~refused /\ e.kind = "bucket" /\ e.badConfig /\ Fail(s, {phys})
           /\ stWorld' = stWorld \union {phys} /\ stMade' = stMade \union {phys}
           /\ UNCHANGED <<stRecords, stKeys, stCount>>
        \/ /\ ~refused /\ ~(e.kind = "bucket" /\ e.badConfig)
           /\ stWorld' = stWorld \union {phys} /\ stMade' = stMade \union {phys}
           /\ stKeys' = IF e.kind = "key" THEN stKeys + 1 ELSE stKeys
           /\ stOp' = [stOp EXCEPT ![s].done =
                Append(@, [logical |-> e.logical, phys |-> phys, points |-> props.points])]
           /\ UNCHANGED <<stRecords, stLeft, stCount>>

\* The stack is stored over whatever was stored under its name, its
\* termination protection included.
UpsertStore(s) ==
  /\ stOp[s].pc = "make" /\ Len(stOp[s].done) = Len(stOp[s].template)
  /\ LET old == IF s \in DOMAIN stRecords THEN stRecords[s].list ELSE <<>>
         kept == {stOp[s].done[i].phys : i \in DOMAIN stOp[s].done}
     IN /\ stLeft' = stLeft \union ({old[i].phys : i \in DOMAIN old} \ kept)
        /\ stRecords' = Put(stRecords, s, [protect |-> FALSE, list |-> stOp[s].done])
  /\ stOp' = [stOp EXCEPT ![s] = Resting]
  /\ UNCHANGED <<stWorld, stMade, stKeys, stCount>>

(***************************************************************************)
(* DeleteStack                                                             *)
(***************************************************************************)
Protect(s, b) ==
  /\ s \in DOMAIN stRecords /\ stRecords[s].protect # b /\ stOp[s].pc = "rest" /\ Counted
  /\ stRecords' = [stRecords EXCEPT ![s].protect = b]
  /\ UNCHANGED <<stWorld, stOp, stLeft, stMade, stKeys>>

\* drop begins: the stored stack is loaded; a protected one is refused.
DropBegin(s) ==
  /\ stOp[s].pc = "rest" /\ Counted /\ s \in DOMAIN stRecords /\ ~stRecords[s].protect
  /\ stOp' = [stOp EXCEPT ![s] = [Resting EXCEPT !.pc = "drop", !.done = stRecords[s].list]]
  /\ UNCHANGED <<stWorld, stRecords, stLeft, stMade, stKeys>>

\* The owner is asked to delete a resource.  A failure is ignored: the
\* resource is gone already, or it is a bucket that holds objects and stays.
Gone(s, r, rest) ==
  /\ \/ stWorld' = stWorld \ {r} /\ UNCHANGED stLeft
     \/ r.kind = "bucket" /\ stLeft' = stLeft \union {r} /\ UNCHANGED stWorld
  /\ stOp' = [stOp EXCEPT ![s] = [@ EXCEPT !.done = rest]]
  /\ UNCHANGED <<stRecords, stMade, stKeys, stCount>>
\* Mistake: the resources are removed in the order they were made.
DeprovisionForwards(s) ==
  /\ stOp[s].pc = "drop" /\ stOp[s].done # <<>>
  /\ Gone(s, Head(stOp[s].done).phys, Tail(stOp[s].done))

\* One resource, last first.
deprovision(s) ==
  /\ stOp[s].pc = "drop" /\ stOp[s].done # <<>>
  /\ LET last == Len(stOp[s].done)
     IN Gone(s, stOp[s].done[last].phys, SubSeq(stOp[s].done, 1, last - 1))

DropEnd(s) ==
  /\ stOp[s].pc = "drop" /\ stOp[s].done = <<>>
  /\ stRecords' = Del(stRecords, s) /\ stOp' = [stOp EXCEPT ![s] = Resting]
  /\ UNCHANGED <<stWorld, stLeft, stMade, stKeys, stCount>>

(***************************************************************************)
(* Users, on the services themselves                                       *)
(***************************************************************************)
UserDeletes(r) ==
  /\ r \in stWorld /\ Counted /\ stWorld' = stWorld \ {r}
  /\ UNCHANGED <<stRecords, stOp, stLeft, stMade, stKeys>>

StNext ==
  \/ \E s \in StNames :
       \/ \E t \in StTemplates : UpsertBegin(s, t)
       \/ provision(s) \/ UpsertStore(s) \/ DropBegin(s) \/ deprovision(s) \/ DropEnd(s)
       \/ \E b \in BOOLEAN : Protect(s, b)
  \/ \E r \in stWorld : UserDeletes(r)

(***************************************************************************)
(* Properties                                                              *)
(***************************************************************************)
Listed(list) == {list[i].phys : i \in DOMAIN list}

\* What the engine made and has not let go of (a failed operation, an update
\* that no longer names it) can still be found and deleted: it is in the
\* list of a stored stack or of an operation under way.
MadeIsListed ==
  stMade \ stLeft \subseteq
    UNION {Listed(stRecords[s].list) : s \in DOMAIN stRecords}
    \union UNION {Listed(stOp[s].done) : s \in StNames}
    \union (stMade \ stWorld)

\* Deleting a stack never removes a resource while another one of the same
\* stack still refers to it.
ReferredToLast ==
  [][\A s \in StNames :
       (stOp[s].pc = "drop" /\ stOp'[s].pc = "drop" /\ stOp'[s].done # stOp[s].done) =>
         \A r \in Listed(stOp[s].done) \ Listed(stOp'[s].done) :
           \A i \in DOMAIN stOp'[s].done : r \notin stOp'[s].done[i].points]_stvars

\* What the bundle says of DeleteStack: it removes every resource of the stack.
DeleteLeavesNothing ==
  (stRecords = NoRows /\ \A s \in StNames : stOp[s].pc = "rest") => stMade \intersect stWorld = {}
=============================================================================
