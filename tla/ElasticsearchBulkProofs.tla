----------------------- MODULE ElasticsearchBulkProofs ----------------------
(***************************************************************************)
(* From the queue to the counters, for any events, sizes and limit of a    *)
(* batch: each event is posted once, and ok claims no more than was        *)
(* indexed.  What the batcher guarantees comes from BatcherProofs.         *)
(***************************************************************************)
EXTENDS ElasticsearchBulk, BatcherProofs, FiniteSetTheorems

Elements(s) == {s[k] : k \in DOMAIN s}

Distinct(s) == \A j, k \in DOMAIN s : s[j] = s[k] => j = k

Posted == {e \in Events : \E i \in DOMAIN posts : e \in Elements(posts[i].events)}

\* Pending events are those of goroutines that are done, each once.
PendingInv ==
  /\ \A e \in Elements(pendingPayloads) : pc[e] = "done"
  /\ Distinct(pendingPayloads)

\* So are posted ones, which are not pending any more.
PostsInv ==
  /\ \A i \in DOMAIN posts :
       /\ Distinct(posts[i].events)
       /\ \A e \in Elements(posts[i].events) : pc[e] = "done"
       /\ Elements(posts[i].events) \intersect Elements(pendingPayloads) = {}
  /\ \A i, j \in DOMAIN posts :
       i # j => Elements(posts[i].events) \intersect Elements(posts[j].events) = {}

\* The events that ok may have counted: the indexed ones of the batches
\* that are done, and those claimed as a whole.
SettledOf(post, done) ==
  IF post.at = "done" THEN Elements(post.events) \intersect done
  ELSE IF post.at = "unread" THEN Elements(post.events) ELSE {}

Settled == {e \in Events : \E i \in DOMAIN posts : e \in SettledOf(posts[i], indexed)}

CountInv ==
  /\ IsFiniteSet(Posted)
  /\ indexed \subseteq Posted
  /\ ok <= Cardinality(Settled)

BulkIInv == IInv /\ BulkTypeOK /\ PendingInv /\ PostsInv /\ CountInv

(***************************************************************************)
(* Sequences of events and of posts                                        *)
(***************************************************************************)
LEMMA OneElementMore ==
  ASSUME NEW S, NEW s \in Seq(S), NEW x \in S
  PROVE  /\ Elements(Append(s, x)) = Elements(s) \union {x}
         /\ Distinct(s) /\ x \notin Elements(s) => Distinct(Append(s, x))
<1>1. /\ DOMAIN Append(s, x) = 1..(Len(s) + 1) /\ DOMAIN s = 1..Len(s) /\ Len(s) \in Nat
      /\ \A k \in 1..Len(s) : Append(s, x)[k] = s[k]
      /\ Append(s, x)[Len(s) + 1] = x
  OBVIOUS
<1>2. Elements(Append(s, x)) = Elements(s) \union {x}
  <2>1. \A y : y \in Elements(Append(s, x)) => y \in Elements(s) \union {x}
    BY <1>1 DEF Elements
  <2>2. \A y : y \in Elements(s) => y \in Elements(Append(s, x))
    <3> SUFFICES ASSUME NEW k \in DOMAIN s PROVE s[k] \in Elements(Append(s, x))
      BY DEF Elements
    <3>1. k \in DOMAIN Append(s, x) /\ Append(s, x)[k] = s[k]
      BY <1>1
    <3> QED BY <3>1 DEF Elements
  <2>3. x \in Elements(Append(s, x))
    <3>1. Len(s) + 1 \in DOMAIN Append(s, x)
      BY <1>1
    <3> QED BY <1>1, <3>1 DEF Elements
  <2> QED BY <2>1, <2>2, <2>3
<1>3. ASSUME Distinct(s), x \notin Elements(s) PROVE Distinct(Append(s, x))
  <2>1. \A k \in 1..Len(s) : s[k] # x
    BY <1>1, <1>3 DEF Elements
  <2> QED BY <1>1, <1>3, <2>1 DEF Distinct
<1> QED BY <1>2, <1>3

\* A batch of distinct events has as many as its length says.
LEMMA SizeIsCardinality ==
  ASSUME NEW s \in Seq(Events), Distinct(s)
  PROVE  /\ IsFiniteSet(Elements(s))
         /\ Cardinality(Elements(s)) = Len(s)
<1> DEFINE f == [k \in 1..Len(s) |-> s[k]]
<1>1. DOMAIN s = 1..Len(s) /\ Len(s) \in Nat
  OBVIOUS
<1>2. IsFiniteSet(1..Len(s)) /\ Cardinality(1..Len(s)) = Len(s)
  BY <1>1, FS_Interval
<1>3. f \in Injection(1..Len(s), Elements(s)) /\ f \in Surjection(1..Len(s), Elements(s))
  BY <1>1 DEF Injection, Surjection, IsInjective, Distinct, Elements
<1>4. ExistsBijection(1..Len(s), Elements(s))
  BY <1>3 DEF ExistsBijection, Bijection
<1> QED BY <1>2, <1>4, FS_Bijection

PostType == [events : Seq(Events), at : Stages]

\* EventsOf in the terms of this module.
LEMMA EventsAre ==
  ASSUME posts \in Seq(PostType), NEW i \in DOMAIN posts
  PROVE  /\ posts[i] \in PostType /\ posts[i].events \in Seq(Events)
         /\ EventsOf(i) = Elements(posts[i].events)
         /\ Elements(posts[i].events) \subseteq Events
<1>1. posts[i] \in PostType
  OBVIOUS
<1>2. posts[i].events \in Seq(Events)
  BY <1>1 DEF PostType
<1>3. \A s \in Seq(Events) : Elements(s) \subseteq Events
  BY DEF Elements
<1> QED BY <1>1, <1>2, <1>3 DEF EventsOf, Elements

LEMMA InitBulkIInv == BulkInit => BulkIInv
<1> SUFFICES ASSUME BulkInit PROVE BulkIInv
  OBVIOUS
<1>1. IInv
  BY InitIInv DEF BulkInit
<1>2. posts = << >> /\ indexed = {} /\ total = 0 /\ ok = 0 /\ error = 0 /\ pendingPayloads = << >>
  BY DEF BulkInit, Init
<1>3. BulkTypeOK
  BY <1>1, <1>2 DEF BulkTypeOK, IInv
<1>4. PendingInv /\ PostsInv
  BY <1>2 DEF PendingInv, PostsInv, Distinct, Elements
<1>5. Posted = {} /\ Settled = {}
  BY <1>2 DEF Posted, Settled
<1>6. CountInv
  BY <1>2, <1>5, FS_EmptySet DEF CountInv
<1> QED BY <1>1, <1>3, <1>4, <1>6 DEF BulkIInv

(***************************************************************************)
(* Steps of the batcher                                                    *)
(***************************************************************************)
\* A step of the batcher flushes nothing that is pending, or writes a new
\* event, or hands over all that is pending.
LEMMA BatcherCases ==
  ASSUME IInv, Next
  PROVE  /\ \A e \in Events : pc[e] = "done" => pc'[e] = "done"
         /\ \/ UNCHANGED <<delivered, pendingPayloads>>
            \/ /\ UNCHANGED delivered
               /\ \E e \in Events : /\ pc[e] # "done" /\ pc'[e] = "done"
                                    /\ pendingPayloads' = Append(pendingPayloads, e)
            \/ /\ delivered' # delivered /\ pendingPayloads' = << >>
               /\ lastBatch'.payloads = pendingPayloads
               /\ delivered' = delivered \o pendingPayloads
<1> USE DEF IInv, TypeOK, Goto
<1>1. ASSUME flush
      PROVE  \/ UNCHANGED <<delivered, pendingPayloads>>
             \/ /\ delivered' # delivered /\ pendingPayloads' = << >>
                /\ lastBatch'.payloads = pendingPayloads
                /\ delivered' = delivered \o pendingPayloads
  <2>1. CASE pendingLen = 0
    BY <1>1, <2>1 DEF flush, bufferVars
  <2>2. CASE pendingLen # 0
    <3>1. pendingPayloads # << >>
      BY <2>2 DEF BuffersInStep
    <3>2. delivered' # delivered
      BY <1>1, <2>2, <3>1, ConcatGrows DEF flush
    <3> QED BY <1>1, <2>2, <3>2 DEF flush
  <2> QED BY <2>1, <2>2
<1>2. ASSUME NEW e \in Events, PushLock(e)
      PROVE  pc[e] = "start" /\ pc' = [pc EXCEPT ![e] = "locked"] /\ UNCHANGED bufferVars
  BY <1>2 DEF PushLock
<1>3. ASSUME NEW e \in Events, PushError(e) \/ PushFirst(e) \/ PushFits(e) \/ PushSchedule(e)
      PROVE  /\ pc[e] # "done" /\ \E p \in Positions : pc' = [pc EXCEPT ![e] = p]
             /\ UNCHANGED bufferVars
  BY <1>3 DEF PushError, PushFirst, PushFits, PushSchedule, Positions
<1>4. ASSUME NEW e \in Events, PushFlush(e)
      PROVE  pc[e] = "locked" /\ pc' = [pc EXCEPT ![e] = "schedule"] /\ flush
  BY <1>4 DEF PushFlush
<1>5. ASSUME NEW e \in Events, PushWrite(e)
      PROVE  /\ pc[e] = "write" /\ pc' = [pc EXCEPT ![e] = "done"]
             /\ UNCHANGED delivered /\ pendingPayloads' = Append(pendingPayloads, e)
  BY <1>5 DEF PushWrite
<1>6. ASSUME TimerFires \/ TimerLock PROVE UNCHANGED <<pc, bufferVars>>
  BY <1>6 DEF TimerFires, TimerLock
<1>7. ASSUME flushOnTimer PROVE UNCHANGED pc /\ flush
  BY <1>7 DEF flushOnTimer
<1>8. CASE \E e \in Events : PushWrite(e)
  BY <1>5, <1>8
<1>9. CASE \E e \in Events : PushFlush(e)
  BY <1>1, <1>4, <1>9
<1>10. CASE flushOnTimer
  BY <1>1, <1>7, <1>10
<1>11. CASE \E e \in Events :
              PushLock(e) \/ PushError(e) \/ PushFirst(e) \/ PushFits(e) \/ PushSchedule(e)
  BY <1>2, <1>3, <1>11 DEF bufferVars
<1>12. CASE TimerFires \/ TimerLock
  BY <1>6, <1>12 DEF bufferVars
<1> QED BY <1>8, <1>9, <1>10, <1>11, <1>12 DEF Next, PushStep

LEMMA BatchingStep ==
  ASSUME BulkIInv, Next,
         posts' = IF delivered' = delivered THEN posts
                  ELSE Append(posts, [events |-> lastBatch'.payloads, at |-> "start"]),
         UNCHANGED <<indexed, total, ok, error>>
  PROVE  BulkIInv'
<1>1. IInv /\ PendingInv /\ PostsInv /\ CountInv
      /\ indexed \subseteq Events /\ total \in Nat /\ ok \in Nat /\ error \in Nat
  BY DEF BulkIInv, BulkTypeOK
<1>2. IInv' /\ TypeOK'
  BY <1>1, StepIInv DEF IInv
<1>3. /\ posts \in Seq(PostType) /\ pendingPayloads \in Seq(Events)
      /\ pc \in [Events -> Positions]
  BY DEF BulkIInv, BulkTypeOK, TypeOK, PostType
<1>4. \A e \in Events : pc[e] = "done" => pc'[e] = "done"
  BY <1>1, BatcherCases
<1>5. \A i \in DOMAIN posts : Elements(posts[i].events) \subseteq Events
  BY <1>3, EventsAre
<1>6. Elements(pendingPayloads) \subseteq Events
  BY <1>3 DEF Elements
<1>7. ASSUME posts' = posts PROVE BulkTypeOK' /\ CountInv'
  BY <1>1, <1>2, <1>3, <1>7 DEF BulkTypeOK, PostType, CountInv, Posted, Settled
<1>8. CASE UNCHANGED <<delivered, pendingPayloads>>
  <2>1. posts' = posts
    BY <1>8
  <2>2. PendingInv'
    BY <1>1, <1>4, <1>6, <1>8 DEF PendingInv
  <2>3. PostsInv'
    BY <1>1, <1>4, <1>5, <1>8, <2>1 DEF PostsInv
  <2> QED BY <1>2, <1>7, <2>1, <2>2, <2>3 DEF BulkIInv
<1>9. CASE /\ UNCHANGED delivered
           /\ \E e \in Events : /\ pc[e] # "done" /\ pc'[e] = "done"
                                /\ pendingPayloads' = Append(pendingPayloads, e)
  <2>1. PICK e \in Events : /\ pc[e] # "done" /\ pc'[e] = "done"
                            /\ pendingPayloads' = Append(pendingPayloads, e)
    BY <1>9
  <2>2. posts' = posts
    BY <1>9
  <2>3. e \notin Elements(pendingPayloads)
    BY <1>1, <2>1 DEF PendingInv
  <2>4. Elements(pendingPayloads') = Elements(pendingPayloads) \union {e}
        /\ Distinct(pendingPayloads')
    BY <1>1, <1>3, <2>1, <2>3, OneElementMore DEF PendingInv
  <2>5. PendingInv'
    BY <1>1, <1>4, <1>6, <2>1, <2>4 DEF PendingInv
  <2>6. \A i \in DOMAIN posts : e \notin Elements(posts[i].events)
    BY <1>1, <2>1 DEF PostsInv
  <2>7. PostsInv'
    BY <1>1, <1>4, <1>5, <2>2, <2>4, <2>6 DEF PostsInv
  <2> QED BY <1>2, <1>7, <2>2, <2>5, <2>7 DEF BulkIInv
<1>10. CASE /\ delivered' # delivered /\ pendingPayloads' = << >>
            /\ lastBatch'.payloads = pendingPayloads
  <2> DEFINE n == Len(posts) + 1
             p == [events |-> pendingPayloads, at |-> "start"]
  <2>1. posts' = Append(posts, p) /\ p \in PostType
    BY <1>3, <1>10 DEF Stages, PostType
  <2>2. /\ posts' \in Seq(PostType)
        /\ DOMAIN posts' = 1..n /\ DOMAIN posts = 1..Len(posts) /\ Len(posts) \in Nat
        /\ \A i \in 1..Len(posts) : posts'[i] = posts[i]
        /\ posts'[n] = p
    BY <1>3, <2>1
  <2>3. p.events = pendingPayloads /\ p.at = "start"
    OBVIOUS
  <2> HIDE DEF p
  <2>4. BulkTypeOK'
    BY <1>1, <1>2, <2>2 DEF BulkTypeOK, PostType
  <2>5. PendingInv' /\ Elements(pendingPayloads') = {}
    BY <1>10 DEF PendingInv, Distinct, Elements
  <2>6. PostsInv'
    <3>1. \A i, j \in DOMAIN posts' :
            i # j => Elements(posts'[i].events) \intersect Elements(posts'[j].events) = {}
      <4> SUFFICES ASSUME NEW i \in 1..n, NEW j \in 1..n, i # j
                   PROVE  Elements(posts'[i].events) \intersect Elements(posts'[j].events) = {}
        BY <2>2
      <4>1. CASE i \in 1..Len(posts) /\ j \in 1..Len(posts)
        BY <1>1, <2>2, <4>1 DEF PostsInv
      <4>2. CASE i = n /\ j \in 1..Len(posts)
        BY <1>1, <2>2, <2>3, <4>2 DEF PostsInv
      <4>3. CASE j = n /\ i \in 1..Len(posts)
        BY <1>1, <2>2, <2>3, <4>3 DEF PostsInv
      <4>4. (i = n \/ i \in 1..Len(posts)) /\ (j = n \/ j \in 1..Len(posts))
        BY <2>2
      <4> QED BY <4>1, <4>2, <4>3, <4>4
    <3>2. ASSUME NEW i \in DOMAIN posts'
          PROVE  /\ Distinct(posts'[i].events)
                 /\ \A e \in Elements(posts'[i].events) : pc'[e] = "done"
      <4>1. CASE i = n
        BY <1>1, <1>4, <1>6, <2>2, <2>3, <4>1 DEF PendingInv
      <4>2. CASE i \in 1..Len(posts)
        BY <1>1, <1>4, <1>5, <2>2, <4>2 DEF PostsInv
      <4> QED BY <2>2, <4>1, <4>2
    <3> QED BY <2>5, <3>1, <3>2 DEF PostsInv
  <2>7. CountInv'
    <3>1. Posted' = Posted \union Elements(pendingPayloads)
      BY <1>6, <2>2, <2>3 DEF Posted
    <3>2. IsFiniteSet(Posted')
      BY <1>1, <1>3, <3>1, SizeIsCardinality, FS_Union DEF PendingInv, CountInv
    <3>3. SettledOf(p, indexed) = {}
      BY <2>3 DEF SettledOf
    <3>4. Settled' = Settled
      BY <2>2, <3>3 DEF Settled
    <3> QED BY <1>1, <3>1, <3>2, <3>4 DEF CountInv
  <2> QED BY <1>2, <2>4, <2>5, <2>6, <2>7 DEF BulkIInv
<1> QED BY <1>1, <1>8, <1>9, <1>10, BatcherCases

(***************************************************************************)
(* Steps of a bulk request                                                 *)
(***************************************************************************)
\* What a step that only moves batch i to another stage keeps.
LEMMA StageStep ==
  ASSUME BulkIInv, NEW i \in DOMAIN posts, NEW stage \in Stages,
         posts' = AtStage(i, stage), UNCHANGED vars
  PROVE  /\ posts' \in Seq(PostType)
         /\ DOMAIN posts' = DOMAIN posts
         /\ \A j \in DOMAIN posts : posts'[j].events = posts[j].events
         /\ posts'[i].at = stage
         /\ \A j \in DOMAIN posts \ {i} : posts'[j] = posts[j]
         /\ IInv' /\ TypeOK' /\ PendingInv' /\ PostsInv' /\ Posted' = Posted
<1>1. posts \in Seq(PostType) /\ IInv /\ PendingInv /\ PostsInv
  BY DEF BulkIInv, BulkTypeOK, PostType
<1>2. posts[i] \in PostType
  BY <1>1, EventsAre
<1> DEFINE p == [posts[i] EXCEPT !.at = stage]
<1>3. p \in PostType /\ p.events = posts[i].events /\ p.at = stage
  BY <1>2 DEF PostType
<1>4. posts' = [posts EXCEPT ![i] = p]
  BY DEF AtStage
<1> HIDE DEF p
<1>5. posts' \in Seq(PostType) /\ DOMAIN posts' = DOMAIN posts
      /\ posts'[i] = p /\ \A j \in DOMAIN posts \ {i} : posts'[j] = posts[j]
  BY <1>1, <1>3, <1>4
<1>6. \A j \in DOMAIN posts : posts'[j].events = posts[j].events
  BY <1>3, <1>5
<1>7. IInv' /\ TypeOK'
  BY <1>1, StepIInv DEF IInv
<1>8. pc' = pc /\ pendingPayloads' = pendingPayloads
  BY DEF vars, bufferVars
<1>9. PendingInv'
  BY <1>1, <1>8 DEF PendingInv
<1>10. PostsInv'
  <2>1. \A j \in DOMAIN posts' : j \in DOMAIN posts /\ posts'[j].events = posts[j].events
    BY <1>5, <1>6
  <2> QED BY <1>1, <1>8, <2>1 DEF PostsInv
<1>11. Posted' = Posted
  BY <1>5, <1>6 DEF Posted
<1> QED BY <1>3, <1>5, <1>6, <1>7, <1>9, <1>10, <1>11

\* What was settled stays so, and is finite.
LEMMA SettledGrows ==
  ASSUME BulkIInv, NEW S, Settled \subseteq S, S \subseteq Posted
  PROVE  IsFiniteSet(S) /\ Cardinality(S) \in Nat /\ ok <= Cardinality(S)
<1>1. IsFiniteSet(S)
  BY FS_Subset DEF BulkIInv, CountInv
<1>2. IsFiniteSet(Settled) /\ Cardinality(Settled) <= Cardinality(S)
  BY <1>1, FS_Subset
<1>3. Cardinality(Settled) \in Nat /\ Cardinality(S) \in Nat
  BY <1>1, <1>2, FS_CardinalityType
<1>4. ok \in Nat /\ ok <= Cardinality(Settled)
  BY DEF BulkIInv, CountInv, BulkTypeOK
<1> QED BY <1>1, <1>2, <1>3, <1>4

LEMMA SettledIsPosted == Settled \subseteq Posted
BY DEF Settled, SettledOf, Posted

\* Batch i, unsettled so far, is settled: its events S join those of others.
LEMMA OneBatchMore ==
  ASSUME BulkIInv, NEW i \in DOMAIN posts, posts[i].at \notin {"done", "unread"},
         DOMAIN posts' = DOMAIN posts, \A j \in DOMAIN posts \ {i} : posts'[j] = posts[j],
         UNCHANGED indexed,
         NEW S \in SUBSET Elements(posts[i].events), IsFiniteSet(S),
         SettledOf(posts'[i], indexed) = S
  PROVE  /\ Cardinality(Settled') = Cardinality(Settled) + Cardinality(S)
         /\ Cardinality(Settled) \in Nat /\ ok <= Cardinality(Settled)
<1>1. posts \in Seq(PostType) /\ Elements(posts[i].events) \subseteq Events
  BY EventsAre DEF BulkIInv, BulkTypeOK, PostType
<1>2. SettledOf(posts[i], indexed) = {}
  BY DEF SettledOf
<1>3. Settled' = Settled \union S
  BY <1>1, <1>2 DEF Settled
<1>4. \A j \in DOMAIN posts \ {i} : SettledOf(posts[j], indexed) \intersect S = {}
  BY DEF BulkIInv, PostsInv, SettledOf
<1>5. Settled \intersect S = {}
  BY <1>2, <1>4 DEF Settled
<1>6. IsFiniteSet(Settled) /\ Cardinality(Settled) \in Nat /\ ok <= Cardinality(Settled)
  BY SettledGrows, SettledIsPosted
<1>7. Cardinality(Settled \intersect S) = 0
  BY <1>5, FS_EmptySet
<1>8. Cardinality(Settled \union S)
        = Cardinality(Settled) + Cardinality(S) - Cardinality(Settled \intersect S)
  BY <1>6, FS_Union
<1>9. Cardinality(S) \in Nat
  BY FS_CardinalityType
<1> QED BY <1>3, <1>6, <1>7, <1>8, <1>9

LEMMA PostStepIInv ==
  ASSUME BulkIInv, NEW i \in DOMAIN posts, PostStep(i) PROVE BulkIInv'
<1> DEFINE E == Elements(posts[i].events)
<1>1. /\ posts \in Seq(PostType) /\ CountInv
      /\ indexed \subseteq Events /\ total \in Nat /\ ok \in Nat /\ error \in Nat
  BY DEF BulkIInv, BulkTypeOK, PostType
<1>2. posts[i].events \in Seq(Events) /\ EventsOf(i) = E /\ E \subseteq Events
  BY <1>1, EventsAre
<1>3. IsFiniteSet(E) /\ Cardinality(E) = SizeOf(i) /\ SizeOf(i) \in Nat
  BY <1>2, SizeIsCardinality DEF BulkIInv, PostsInv, SizeOf
<1>4. E \subseteq Posted
  BY <1>2 DEF Posted
<1> HIDE DEF E
<1>5. /\ Failed(i) \in Nat
      /\ IsFiniteSet(E \intersect indexed) /\ Cardinality(E \intersect indexed) \in Nat
      /\ Failed(i) = SizeOf(i) - Cardinality(E \intersect indexed)
  <2>1. IsFiniteSet(E \ indexed) /\ IsFiniteSet(E \intersect indexed)
        /\ Cardinality(E \ indexed) = SizeOf(i) - Cardinality(E \intersect indexed)
    BY <1>3, FS_Difference, FS_Intersection
  <2> QED BY <1>2, <2>1, FS_CardinalityType DEF Failed
<1>6. ASSUME NEW stage \in Stages, posts' = AtStage(i, stage), UNCHANGED vars,
             indexed' \subseteq Posted, total' \in Nat, ok' \in Nat, error' \in Nat,
             ok' <= Cardinality(Settled')
      PROVE  BulkIInv'
  <2>1. posts' \in Seq(PostType) /\ IInv' /\ TypeOK' /\ PendingInv' /\ PostsInv' /\ Posted' = Posted
    BY <1>6, StageStep
  <2>2. indexed' \subseteq Events
    BY <1>6 DEF Posted
  <2>3. BulkTypeOK'
    BY <1>6, <2>1, <2>2 DEF BulkTypeOK, PostType
  <2>4. CountInv'
    BY <1>1, <1>6, <2>1 DEF CountInv
  <2> QED BY <2>1, <2>3, <2>4 DEF BulkIInv
<1>7. ASSUME NEW stage \in Stages, posts' = AtStage(i, stage), UNCHANGED vars,
             posts[i].at \notin {"done", "unread"}, indexed \subseteq indexed', UNCHANGED ok
      PROVE  ok' <= Cardinality(Settled')
  <2>1. /\ DOMAIN posts' = DOMAIN posts /\ Posted' = Posted
        /\ \A j \in DOMAIN posts \ {i} : posts'[j] = posts[j]
    BY <1>7, StageStep
  <2>2. \A j \in DOMAIN posts : SettledOf(posts[j], indexed) \subseteq SettledOf(posts'[j], indexed')
    BY <1>7, <2>1 DEF SettledOf
  <2>3. Settled \subseteq Settled'
    BY <2>1, <2>2 DEF Settled
  <2>4. Settled' \subseteq Posted'
    BY DEF Settled, SettledOf, Posted
  <2>5. Settled' \subseteq Posted
    BY <2>1, <2>4
  <2>6. ok <= Cardinality(Settled')
    BY <2>3, <2>5, SettledGrows
  <2> QED BY <1>7, <2>6
<1>8. CASE PostBegin(i)
  <2>1. posts[i].at = "start" /\ posts' = AtStage(i, "request") /\ total' = total + SizeOf(i)
        /\ UNCHANGED vars /\ UNCHANGED <<indexed, ok, error>> /\ "request" \in Stages
    BY <1>8 DEF PostBegin, Stages
  <2>2. ok' <= Cardinality(Settled')
    BY <1>7, <2>1
  <2> QED BY <1>1, <1>3, <1>6, <2>1, <2>2 DEF CountInv
<1>9. CASE PostAnswered(i)
  <2>1. PICK done \in SUBSET EventsOf(i), reply \in {"items", "mismatch", "text", "empty"} :
          indexed' = indexed \union done /\ posts' = AtStage(i, reply)
    BY <1>9 DEF PostAnswered
  <2>2. posts[i].at = "request" /\ UNCHANGED vars /\ UNCHANGED <<total, ok, error>>
        /\ reply \in Stages
    BY <1>9 DEF PostAnswered, Stages
  <2>3. ok' <= Cardinality(Settled')
    BY <1>7, <2>1, <2>2
  <2>4. indexed' \subseteq Posted
    BY <1>1, <1>2, <1>4, <2>1 DEF CountInv
  <2> QED BY <1>1, <1>6, <2>1, <2>2, <2>3, <2>4
<1>10. CASE CountItems(i)
  <2>1. posts[i].at = "items" /\ posts' = AtStage(i, "done") /\ error' = error + Failed(i)
        /\ ok' = ok + SizeOf(i) - Failed(i)
        /\ UNCHANGED vars /\ UNCHANGED <<indexed, total>> /\ "done" \in Stages
    BY <1>10 DEF CountItems, Stages
  <2>2. ok' = ok + Cardinality(E \intersect indexed)
    BY <1>1, <1>3, <1>5, <2>1
  <2>3. /\ DOMAIN posts' = DOMAIN posts /\ \A j \in DOMAIN posts \ {i} : posts'[j] = posts[j]
        /\ posts'[i].at = "done" /\ posts'[i].events = posts[i].events
    BY <2>1, StageStep
  <2>4. SettledOf(posts'[i], indexed) = E \intersect indexed
    BY <2>3 DEF SettledOf, E
  <2>5. E \intersect indexed \in SUBSET Elements(posts[i].events)
    BY DEF E
  <2>6. /\ Cardinality(Settled') = Cardinality(Settled) + Cardinality(E \intersect indexed)
        /\ Cardinality(Settled) \in Nat /\ ok <= Cardinality(Settled)
    BY <1>5, <2>1, <2>3, <2>4, <2>5, OneBatchMore
  <2>7. ok' \in Nat /\ ok' <= Cardinality(Settled') /\ error' \in Nat
    BY <1>1, <1>5, <2>1, <2>2, <2>6
  <2> QED BY <1>1, <1>6, <2>1, <2>7 DEF CountInv
<1>11. CASE CountAllFailed(i)
  <2>1. posts[i].at \in {"mismatch", "text"} /\ posts' = AtStage(i, "done")
        /\ error' = error + SizeOf(i)
        /\ UNCHANGED vars /\ UNCHANGED <<indexed, total, ok>> /\ "done" \in Stages
    BY <1>11 DEF CountAllFailed, Stages
  <2>2. ok' <= Cardinality(Settled')
    BY <1>7, <2>1
  <2> QED BY <1>1, <1>3, <1>6, <2>1, <2>2 DEF CountInv
<1>12. CASE CountAllOk(i)
  <2>1. posts[i].at = "empty" /\ posts' = AtStage(i, "unread") /\ ok' = ok + SizeOf(i)
        /\ UNCHANGED vars /\ UNCHANGED <<indexed, total, error>> /\ "unread" \in Stages
    BY <1>12 DEF CountAllOk, Stages
  <2>2. /\ DOMAIN posts' = DOMAIN posts /\ \A j \in DOMAIN posts \ {i} : posts'[j] = posts[j]
        /\ posts'[i].at = "unread" /\ posts'[i].events = posts[i].events
    BY <2>1, StageStep
  <2>3. SettledOf(posts'[i], indexed) = E /\ E \in SUBSET Elements(posts[i].events)
    BY <2>2 DEF SettledOf, E
  <2>4. /\ Cardinality(Settled') = Cardinality(Settled) + Cardinality(E)
        /\ Cardinality(Settled) \in Nat /\ ok <= Cardinality(Settled)
    BY <1>3, <2>1, <2>2, <2>3, OneBatchMore
  <2>5. ok' \in Nat /\ ok' <= Cardinality(Settled')
    BY <1>1, <1>3, <2>1, <2>4
  <2> QED BY <1>1, <1>6, <2>1, <2>5 DEF CountInv
<1> QED BY <1>8, <1>9, <1>10, <1>11, <1>12 DEF PostStep

LEMMA StepBulkIInv == BulkIInv /\ [BulkNext]_bulkVars => BulkIInv'
<1> SUFFICES ASSUME BulkIInv, [BulkNext]_bulkVars PROVE BulkIInv'
  OBVIOUS
<1>1. CASE UNCHANGED bulkVars
  <2>1. UNCHANGED vars /\ UNCHANGED <<posts, indexed, total, ok, error>>
    BY <1>1 DEF bulkVars, postVars
  <2>2. IInv'
    BY <2>1, StepIInv DEF BulkIInv
  <2>3. UNCHANGED <<pc, pendingPayloads>>
    BY <2>1 DEF vars, bufferVars
  <2>4. BulkTypeOK' /\ CountInv'
    BY <2>1, <2>2 DEF BulkIInv, BulkTypeOK, IInv, CountInv, Posted, Settled
  <2>5. PendingInv' /\ PostsInv'
    BY <2>1, <2>3 DEF BulkIInv, PendingInv, PostsInv
  <2> QED BY <2>2, <2>4, <2>5 DEF BulkIInv
<1>2. CASE \/ \E e \in Events : Batching(PushLock(e)) \/ Batching(PushStep(e))
           \/ Batching(TimerFires) \/ Batching(TimerLock) \/ Batching(flushOnTimer)
  BY <1>2, BatchingStep DEF Batching, Next
<1>3. CASE \E i \in DOMAIN posts : PostStep(i)
  BY <1>3, PostStepIInv
<1> QED BY <1>1, <1>2, <1>3 DEF BulkNext

LEMMA AlwaysBulkIInv == BulkSpec => []BulkIInv
BY InitBulkIInv, StepBulkIInv, PTL DEF BulkSpec

(***************************************************************************)
(* Theorems                                                                *)
(***************************************************************************)
\* Type correctness of the batcher with its bulk requests.
THEOREM BulkTypeCorrect == BulkSpec => []BulkTypeOK
BY AlwaysBulkIInv, PTL DEF BulkIInv

\* No event is in two bulk requests, nor twice in one, whatever pushes,
\* timers and requests interleave.
THEOREM AlwaysPostedOnce == BulkSpec => []PostedOnce
<1>1. BulkIInv => PostedOnce
  <2> SUFFICES ASSUME BulkIInv PROVE PostedOnce
    OBVIOUS
  <2>1. posts \in Seq(PostType) /\ PostsInv
    BY DEF BulkIInv, BulkTypeOK, PostType
  <2>2. \A i \in DOMAIN posts : EventsOf(i) = Elements(posts[i].events)
    BY <2>1, EventsAre
  <2>3. \A i \in DOMAIN posts : Cardinality(EventsOf(i)) = SizeOf(i)
    BY <2>1, <2>2, EventsAre, SizeIsCardinality DEF PostsInv, SizeOf
  <2> QED BY <2>1, <2>2, <2>3 DEF PostedOnce, PostsInv
<1> QED BY <1>1, AlwaysBulkIInv, PTL

\* The ok counter never claims more than Elasticsearch indexed, but for the
\* batches whose answer was read as empty.
THEOREM OkNeverOverclaims == BulkSpec => []NeverOverclaims
<1>1. BulkIInv => NeverOverclaims
  <2> SUFFICES ASSUME BulkIInv PROVE ok <= Cardinality(Claimable)
    BY DEF NeverOverclaims
  <2>1. posts \in Seq(PostType) /\ indexed \subseteq Posted
    BY DEF BulkIInv, BulkTypeOK, PostType, CountInv
  <2>2. \A i \in DOMAIN posts :
          EventsOf(i) = Elements(posts[i].events) /\ EventsOf(i) \subseteq Events
    BY <2>1, EventsAre
  <2>3. Claimable \subseteq Posted
    BY <2>1, <2>2 DEF Claimable, Posted
  <2>4. Settled \subseteq Claimable
    BY <2>2 DEF Settled, SettledOf, Claimable
  <2> QED BY <2>3, <2>4, SettledGrows
<1> QED BY <1>1, AlwaysBulkIInv, PTL

(***************************************************************************)
(* The counters                                                            *)
(***************************************************************************)
\* The events of the batches at one of the stages K.
At(K) == {e \in Events : \E i \in DOMAIN posts : posts[i].at \in K /\ e \in Elements(posts[i].events)}

Begun == Stages \ {"start"}
Ended == {"done", "unread"}

\* What the counters count, exactly.
ExactInv ==
  /\ Len(delivered) = Cardinality(Posted)
  /\ total = Cardinality(At(Begun))
  /\ ok + error = Cardinality(At(Ended))

\* Disjoint finite sets.
LEMMA TwoParts ==
  ASSUME NEW S, NEW T, IsFiniteSet(S), IsFiniteSet(T), S \intersect T = {}
  PROVE  Cardinality(S \union T) = Cardinality(S) + Cardinality(T)
<1>1. Cardinality(S \union T) = Cardinality(S) + Cardinality(T) - Cardinality(S \intersect T)
  BY FS_Union
<1>2. Cardinality(S) \in Nat /\ Cardinality(T) \in Nat /\ Cardinality(S \intersect T) = 0
  BY FS_CardinalityType, FS_EmptySet
<1> QED BY <1>1, <1>2

LEMMA AtIsFinite ==
  ASSUME BulkIInv, NEW K
  PROVE  IsFiniteSet(At(K)) /\ Cardinality(At(K)) \in Nat
         /\ Cardinality(At(K)) <= Cardinality(Posted) /\ Cardinality(Posted) \in Nat
<1>1. At(K) \subseteq Posted /\ IsFiniteSet(Posted)
  BY DEF At, Posted, BulkIInv, CountInv
<1> QED BY <1>1, FS_Subset, FS_CardinalityType

\* Batch i goes on to a stage of K, or stays in it or out of it.
LEMMA BatchMoves ==
  ASSUME BulkIInv, NEW i \in DOMAIN posts, NEW stage \in Stages, NEW K,
         posts' = AtStage(i, stage), UNCHANGED vars
  PROVE  /\ (posts[i].at \in K <=> stage \in K) => At(K)' = At(K)
         /\ posts[i].at \notin K /\ stage \in K =>
              Cardinality(At(K)') = Cardinality(At(K)) + SizeOf(i)
         /\ Posted' = Posted /\ delivered' = delivered
         /\ SizeOf(i) \in Nat
<1> DEFINE E == Elements(posts[i].events)
<1>1. /\ DOMAIN posts' = DOMAIN posts /\ posts'[i].at = stage /\ Posted' = Posted
      /\ \A j \in DOMAIN posts : posts'[j].events = posts[j].events
      /\ \A j \in DOMAIN posts \ {i} : posts'[j] = posts[j]
  BY StageStep
<1>2. posts \in Seq(PostType) /\ E \subseteq Events /\ posts[i].events \in Seq(Events)
  BY EventsAre DEF BulkIInv, BulkTypeOK, PostType
<1>3. IsFiniteSet(E) /\ Cardinality(E) = SizeOf(i) /\ SizeOf(i) \in Nat
  BY <1>2, SizeIsCardinality DEF BulkIInv, PostsInv, SizeOf
<1>4. ASSUME posts[i].at \in K <=> stage \in K PROVE At(K)' = At(K)
  BY <1>1, <1>4 DEF At
<1>5. ASSUME posts[i].at \notin K, stage \in K
      PROVE  Cardinality(At(K)') = Cardinality(At(K)) + SizeOf(i)
  <2>1. At(K)' = At(K) \union E
    BY <1>1, <1>2, <1>5 DEF At
  <2>2. \A j \in DOMAIN posts : posts[j].at \in K => Elements(posts[j].events) \intersect E = {}
    BY <1>5 DEF BulkIInv, PostsInv
  <2>3. At(K) \intersect E = {}
    BY <2>2 DEF At
  <2> HIDE DEF E
  <2> QED BY <1>3, <2>1, <2>3, AtIsFinite, TwoParts
<1> QED BY <1>1, <1>3, <1>4, <1>5 DEF vars, bufferVars

LEMMA BatchingExact ==
  ASSUME BulkIInv, ExactInv, Next,
         posts' = IF delivered' = delivered THEN posts
                  ELSE Append(posts, [events |-> lastBatch'.payloads, at |-> "start"]),
         UNCHANGED <<indexed, total, ok, error>>
  PROVE  ExactInv'
<1>1. /\ IInv /\ PendingInv /\ PostsInv /\ IsFiniteSet(Posted)
      /\ posts \in Seq(PostType) /\ pendingPayloads \in Seq(Events) /\ delivered \in Seq(Events)
  BY DEF BulkIInv, BulkTypeOK, TypeOK, PostType, CountInv
<1>2. CASE UNCHANGED delivered
  BY <1>2 DEF ExactInv, Posted, At
<1>3. CASE /\ delivered' # delivered /\ lastBatch'.payloads = pendingPayloads
           /\ delivered' = delivered \o pendingPayloads
  <2> DEFINE n == Len(posts) + 1
             p == [events |-> pendingPayloads, at |-> "start"]
             E == Elements(pendingPayloads)
  <2>1. posts' = Append(posts, p) /\ p \in PostType
    BY <1>1, <1>3 DEF Stages, PostType
  <2>2. p.events = pendingPayloads /\ p.at = "start"
    OBVIOUS
  <2> HIDE DEF p
  <2>3. /\ DOMAIN posts' = 1..n /\ DOMAIN posts = 1..Len(posts) /\ Len(posts) \in Nat
        /\ \A i \in 1..Len(posts) : posts'[i] = posts[i]
        /\ posts'[n] = p
    BY <1>1, <2>1
  <2>4. ASSUME NEW K, "start" \notin K PROVE At(K)' = At(K)
    BY <2>2, <2>3, <2>4 DEF At
  <2>5. At(Begun)' = At(Begun) /\ At(Ended)' = At(Ended)
    BY <2>4 DEF Begun, Ended
  <2>6. E \subseteq Events
    BY <1>1 DEF Elements
  <2>7. Posted' = Posted \union E
    BY <2>2, <2>3, <2>6 DEF Posted
  <2>8. Posted \intersect E = {}
    BY <1>1 DEF Posted, PostsInv
  <2>9. IsFiniteSet(E) /\ Cardinality(E) = Len(pendingPayloads)
    BY <1>1, SizeIsCardinality DEF PendingInv
  <2>10. Len(delivered') = Len(delivered) + Len(pendingPayloads)
    BY <1>1, <1>3
  <2> HIDE DEF E
  <2> QED BY <1>1, <2>5, <2>7, <2>8, <2>9, <2>10, TwoParts DEF ExactInv
<1> QED BY <1>1, <1>2, <1>3, BatcherCases

LEMMA PostExact ==
  ASSUME BulkIInv, ExactInv, NEW i \in DOMAIN posts, PostStep(i) PROVE ExactInv'
<1>1. total \in Nat /\ ok \in Nat /\ error \in Nat /\ Failed(i) \in Int
  <2>1. posts \in Seq(PostType) /\ total \in Nat /\ ok \in Nat /\ error \in Nat
    BY DEF BulkIInv, BulkTypeOK, PostType
  <2>2. EventsOf(i) = Elements(posts[i].events) /\ posts[i].events \in Seq(Events)
    BY <2>1, EventsAre
  <2>3. IsFiniteSet(EventsOf(i))
    BY <2>2, SizeIsCardinality DEF BulkIInv, PostsInv
  <2> QED BY <2>1, <2>3, FS_Subset, FS_CardinalityType DEF Failed
<1>2. \A K : Cardinality(At(K)) \in Nat
  BY AtIsFinite
<1>3. CASE PostBegin(i)
  <2>1. posts[i].at = "start" /\ posts' = AtStage(i, "request") /\ UNCHANGED <<vars, ok, error>>
        /\ total' = total + SizeOf(i) /\ "request" \in Stages
    BY <1>3 DEF PostBegin, Stages
  <2>2. Cardinality(At(Begun)') = Cardinality(At(Begun)) + SizeOf(i)
    BY <2>1, BatchMoves DEF Begun
  <2>3. At(Ended)' = At(Ended) /\ Posted' = Posted /\ delivered' = delivered
    BY <2>1, BatchMoves DEF Ended
  <2> QED BY <2>1, <2>2, <2>3 DEF ExactInv
<1>4. CASE PostAnswered(i)
  <2>1. PICK reply \in {"items", "mismatch", "text", "empty"} : posts' = AtStage(i, reply)
    BY <1>4 DEF PostAnswered
  <2>2. posts[i].at = "request" /\ UNCHANGED <<vars, total, ok, error>> /\ reply \in Stages
    BY <1>4 DEF PostAnswered, Stages
  <2>3. At(Begun)' = At(Begun)
    BY <2>1, <2>2, BatchMoves DEF Begun, Stages
  <2>4. At(Ended)' = At(Ended) /\ Posted' = Posted /\ delivered' = delivered
    BY <2>1, <2>2, BatchMoves DEF Ended
  <2> QED BY <2>2, <2>3, <2>4 DEF ExactInv
<1>5. ASSUME NEW from \in {"items", "mismatch", "text", "empty"}, posts[i].at = from,
             NEW to \in Ended, posts' = AtStage(i, to), UNCHANGED <<vars, total>>,
             ok' + error' = ok + error + SizeOf(i)
      PROVE  ExactInv'
  <2>1. to \in Stages /\ from \in Begun /\ to \in Begun /\ from \notin Ended /\ UNCHANGED vars
    BY <1>5 DEF Ended, Begun, Stages
  <2>2. At(Begun)' = At(Begun) /\ Posted' = Posted /\ delivered' = delivered /\ SizeOf(i) \in Nat
    BY <1>5, <2>1, BatchMoves
  <2>3. Cardinality(At(Ended)') = Cardinality(At(Ended)) + SizeOf(i)
    BY <1>5, <2>1, BatchMoves
  <2> QED BY <1>2, <1>5, <2>2, <2>3 DEF ExactInv
<1>6. SizeOf(i) \in Nat
  <2>1. posts \in Seq(PostType)
    BY DEF BulkIInv, BulkTypeOK, PostType
  <2> QED BY <2>1, EventsAre DEF SizeOf
<1>7. CASE CountItems(i)
  <2>1. ok' + error' = ok + error + SizeOf(i)
    BY <1>1, <1>6, <1>7 DEF CountItems
  <2> QED BY <1>5, <1>7, <2>1 DEF CountItems, Ended
<1>8. CASE CountAllFailed(i)
  <2>1. ok' + error' = ok + error + SizeOf(i)
    BY <1>1, <1>6, <1>8 DEF CountAllFailed
  <2> QED BY <1>5, <1>8, <2>1 DEF CountAllFailed, Ended
<1>9. CASE CountAllOk(i)
  <2>1. ok' + error' = ok + error + SizeOf(i)
    BY <1>1, <1>6, <1>9 DEF CountAllOk
  <2> QED BY <1>5, <1>9, <2>1 DEF CountAllOk, Ended
<1> QED BY <1>3, <1>4, <1>7, <1>8, <1>9 DEF PostStep

\* Nothing is pending and every batch was counted.
AtRest == pendingPayloads = << >> /\ \A i \in DOMAIN posts : posts[i].at \in Ended

\* From the queue to the counters, at any time: what is counted ok or error
\* was counted in total, what is counted in total was accepted by Push, both
\* once; and whenever nothing is under way all three are equal.  That it
\* comes to rest in the end is what AllAccounted adds.
THEOREM CountersAreExact ==
  BulkSpec => [](/\ ok + error <= total /\ total <= Len(accepted)
                 /\ AtRest => ok + error = Len(accepted) /\ total = Len(accepted))
<1>1. BulkInit => ExactInv
  <2> SUFFICES ASSUME BulkInit PROVE ExactInv
    OBVIOUS
  <2>1. posts = << >> /\ delivered = << >> /\ total = 0 /\ ok = 0 /\ error = 0
    BY DEF BulkInit, Init
  <2>2. Posted = {} /\ At(Begun) = {} /\ At(Ended) = {}
    BY <2>1 DEF Posted, At
  <2>3. Cardinality(Posted) = 0 /\ Cardinality(At(Begun)) = 0 /\ Cardinality(At(Ended)) = 0
    BY <2>2, FS_EmptySet
  <2> QED BY <2>1, <2>3 DEF ExactInv
<1>2. BulkIInv /\ ExactInv /\ [BulkNext]_bulkVars => ExactInv'
  <2> SUFFICES ASSUME BulkIInv, ExactInv, [BulkNext]_bulkVars PROVE ExactInv'
    OBVIOUS
  <2>1. CASE UNCHANGED bulkVars
    BY <2>1 DEF bulkVars, postVars, vars, bufferVars, ExactInv, Posted, At
  <2>2. CASE \/ \E e \in Events : Batching(PushLock(e)) \/ Batching(PushStep(e))
             \/ Batching(TimerFires) \/ Batching(TimerLock) \/ Batching(flushOnTimer)
    BY <2>2, BatchingExact DEF Batching, Next
  <2>3. CASE \E i \in DOMAIN posts : PostStep(i)
    BY <2>3, PostExact
  <2> QED BY <2>1, <2>2, <2>3 DEF BulkNext
<1>3. BulkIInv /\ ExactInv =>
        /\ ok + error <= total /\ total <= Len(accepted)
        /\ AtRest => ok + error = Len(accepted) /\ total = Len(accepted)
  <2> SUFFICES ASSUME BulkIInv, ExactInv
               PROVE  /\ ok + error <= total /\ total <= Len(accepted)
                      /\ AtRest => ok + error = Len(accepted) /\ total = Len(accepted)
    OBVIOUS
  <2>1. /\ delivered \in Seq(Events) /\ pendingPayloads \in Seq(Events)
        /\ accepted = delivered \o pendingPayloads
    BY DEF BulkIInv, IInv, TypeOK, NoLossNoDuplicate
  <2>2. Len(accepted) = Len(delivered) + Len(pendingPayloads)
        /\ Len(delivered) \in Nat /\ Len(pendingPayloads) \in Nat
    BY <2>1
  <2>3. At(Ended) \subseteq At(Begun)
    BY DEF At, Ended, Begun, Stages
  <2>4. /\ IsFiniteSet(At(Begun)) /\ Cardinality(At(Begun)) \in Nat
        /\ Cardinality(At(Begun)) <= Cardinality(Posted) /\ Cardinality(At(Ended)) \in Nat
    BY AtIsFinite
  <2>5. Cardinality(At(Ended)) <= Cardinality(At(Begun))
    BY <2>3, <2>4, FS_Subset
  <2>6. ok + error <= total /\ total <= Len(accepted)
    BY <2>2, <2>4, <2>5 DEF ExactInv
  <2>7. ASSUME AtRest PROVE ok + error = Len(accepted) /\ total = Len(accepted)
    <3>1. At(Ended) = Posted
      BY <2>7 DEF AtRest, At, Posted
    <3>2. Len(accepted) = Len(delivered)
      BY <2>2, <2>7 DEF AtRest
    <3>3. ok + error = Len(accepted)
      BY <3>1, <3>2 DEF ExactInv
    <3> QED BY <2>2, <2>4, <2>6, <3>3 DEF ExactInv
  <2> QED BY <2>6, <2>7
<1> QED BY <1>1, <1>2, <1>3, AlwaysBulkIInv, PTL DEF BulkSpec
=============================================================================
