------------------------- MODULE ElasticsearchBulk -------------------------
(***************************************************************************)
(* outputs/elasticsearch.go with batching enabled: the Batcher, whose      *)
(* callback starts a goroutine that posts the batch to the _bulk endpoint  *)
(* and accounts for its events item by item.                               *)
(*                                                                         *)
(* Elasticsearch (external) indexes any part of a batch.  What reaches the *)
(* goroutine is the list of item statuses, a list of another length, a     *)
(* text that is not a bulk answer (every error of the HTTP client), or     *)
(* nothing: a body that cannot be decompressed is read as empty.           *)
(***************************************************************************)
EXTENDS Batcher, FiniteSets

VARIABLES
  posts,    \* one record per call of the callback: its events and stage
  indexed,  \* events Elasticsearch indexed
  total, ok, error   \* c.Stats.Elasticsearch and PromStats: one per event;
                     \* OTLPMetrics, not modelled, gets one per post and outcome

postVars == <<posts, indexed, total, ok, error>>
bulkVars == <<vars, postVars>>

Stages == {"start", "request", "items", "mismatch", "text", "empty", "done", "unread"}

BulkInit ==
  /\ Init
  /\ posts = << >>
  /\ indexed = {}
  /\ total = 0
  /\ ok = 0
  /\ error = 0

EventsOf(i) == {posts[i].events[k] : k \in DOMAIN posts[i].events}
SizeOf(i) == Len(posts[i].events)
\* Mutant: a bulk request answered 200 is taken to have indexed everything.
MutantFailed(i) == 0

Failed(i) == Cardinality(EventsOf(i) \ indexed)

AtStage(i, stage) == [posts EXCEPT ![i].at = stage]

\* ElasticsearchPost: Push, whose error is ignored, and the flush timer.
\* The callback starts elasticsearchPost in a goroutine of its own.
Batching(step) ==
  /\ step
  /\ posts' = IF delivered' = delivered THEN posts
              ELSE Append(posts, [events |-> lastBatch'.payloads, at |-> "start"])
  /\ UNCHANGED <<indexed, total, ok, error>>

\* The whole batch is counted in total before it is sent.
PostBegin(i) ==
  /\ posts[i].at = "start"
  /\ posts' = AtStage(i, "request")
  /\ total' = total + SizeOf(i)
  /\ UNCHANGED <<vars, indexed, ok, error>>

\* The bulk request is carried out, for any part of its items.
PostAnswered(i) ==
  /\ posts[i].at = "request"
  /\ \E done \in SUBSET EventsOf(i) : indexed' = indexed \union done
  /\ \E reply \in {"items", "mismatch", "text", "empty"} : posts' = AtStage(i, reply)
  /\ UNCHANGED <<vars, total, ok, error>>

\* Item statuses that match the batch are accounted for one by one.
CountItems(i) ==
  /\ posts[i].at = "items"
  /\ error' = error + Failed(i)
  /\ ok' = ok + SizeOf(i) - Failed(i)
  /\ posts' = AtStage(i, "done")
  /\ UNCHANGED <<vars, indexed, total>>

\* Mutant: a batch that failed as a whole counts as one error.
MutantCountAllFailed(i) ==
  /\ posts[i].at \in {"mismatch", "text"}
  /\ error' = error + 1
  /\ posts' = AtStage(i, "done")
  /\ UNCHANGED <<vars, indexed, total, ok>>

\* Unmarshal fails, or the number of items is not that of the payloads.
CountAllFailed(i) ==
  /\ posts[i].at \in {"mismatch", "text"}
  /\ error' = error + SizeOf(i)
  /\ posts' = AtStage(i, "done")
  /\ UNCHANGED <<vars, indexed, total, ok>>

\* response == "": nothing is looked at.
CountAllOk(i) ==
  /\ posts[i].at = "empty"
  /\ ok' = ok + SizeOf(i)
  /\ posts' = AtStage(i, "unread")
  /\ UNCHANGED <<vars, indexed, total, error>>

PostStep(i) ==
  PostBegin(i) \/ PostAnswered(i) \/ CountItems(i) \/ CountAllFailed(i) \/ CountAllOk(i)

BulkNext ==
  \/ \E e \in Events : Batching(PushLock(e)) \/ Batching(PushStep(e))
  \/ Batching(TimerFires) \/ Batching(TimerLock) \/ Batching(flushOnTimer)
  \/ \E i \in DOMAIN posts : PostStep(i)

\* Fairness of the Batcher; posts run and are answered.
BulkSpec ==
  /\ BulkInit /\ [][BulkNext]_bulkVars
  /\ \A e \in Events : WF_bulkVars(Batching(PushStep(e)))
  /\ WF_bulkVars(Batching(TimerFires))
  /\ SF_bulkVars(Batching(TimerLock))
  /\ WF_bulkVars(Batching(flushOnTimer))
  /\ WF_bulkVars(\E i \in DOMAIN posts : PostStep(i))

(***************************************************************************)
(* Properties                                                              *)
(***************************************************************************)
BulkTypeOK ==
  /\ TypeOK
  /\ posts \in Seq([events : Seq(Events), at : Stages])
  /\ indexed \subseteq Events
  /\ total \in Nat /\ ok \in Nat /\ error \in Nat

\* No event is in two bulk requests, whichever goroutines flushed them.
PostedOnce ==
  \A i, j \in DOMAIN posts :
    /\ i # j => EventsOf(i) \intersect EventsOf(j) = {}
    /\ Cardinality(EventsOf(i)) = SizeOf(i)

\* The counters claim no more events than Elasticsearch indexed, however
\* batches overlap and items fail: "in some cases now we need to capture the
\* response on 200 ... even when some items in the bulk failed"
\* (client.go:387-389).  Batches whose answer was read as empty are the
\* exception: they are claimed as a whole.
Claimable == indexed \union UNION {EventsOf(i) : i \in {j \in DOMAIN posts : posts[j].at = "unread"}}
NeverOverclaims == ok <= Cardinality(Claimable)

\* From the queue to the counters: every event Push accepted is counted ok
\* or error in the end, and none is counted twice.
AllAccounted ==
  /\ [](ok + error <= Len(accepted))
  /\ <>[](ok + error = Len(accepted) /\ total = Len(accepted))
=============================================================================
