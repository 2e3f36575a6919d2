---------------------------- MODULE SecurityLake ----------------------------
(***************************************************************************)
(* outputs/awssecuritylake.go: events are appended to an in-memory log     *)
(* (github.com/embano1/memlog, external) by one goroutine each; one worker *)
(* reads a batch from the log, writes it to S3 as one parquet file, and    *)
(* only then moves its read offset.                                        *)
(*                                                                         *)
(* memlog numbers records from 0 and keeps an active segment and the full  *)
(* one before it: the write that starts a third segment drops the oldest,  *)
(* whether it was read or not.  A record is named by its event.            *)
(***************************************************************************)
EXTENDS Integers, Sequences, FiniteSets

CONSTANTS
  Events,        \* the events enqueued, one goroutine each
  Unparsable,    \* events whose record cannot be put in a parquet file
  Segment,       \* memlog.WithMaxSegmentSize
  BatchSize,     \* awslake.BatchSize
  MaxFailures    \* uploads that fail

ASSUME LakeAssumption ==
  /\ Unparsable \subseteq Events
  /\ Segment \in Nat \ {0}
  /\ BatchSize \in Nat \ {0}
  /\ MaxFailures \in Nat

VARIABLES
  pc,            \* position of each event's goroutine in EnqueueSecurityLake
  log,           \* every event written, by offset + 1 (purged ones included)
  activeStart,   \* first offset of the active segment
  earliest,      \* first offset still in the log
  writeOffset,   \* *WriteOffset
  readOffset,    \* *ReadOffset
  worker,        \* position of the worker
  batch,         \* offsets of the batch being uploaded: first and last
  files,         \* parquet files in the bucket: offsets, and whether the
                 \* upload was reported as successful
  failures       \* uploads reported as failed, up to MaxFailures

vars == <<pc, log, activeStart, earliest, writeOffset, readOffset, worker,
          batch, files, failures>>

logVars == <<log, activeStart, earliest>>
readVars == <<readOffset, worker, batch, files, failures>>

NoBatch == [first |-> 0, last |-> -1]
OffsetOf(e) == CHOOSE o \in 0..(Len(log) - 1) : log[o + 1] = e
Unreadable == {o \in 0..(Len(log) - 1) : log[o + 1] \in Unparsable}

\* main.go:398-399: both offsets are new(memlog.Offset), that is 0.
Init ==
  /\ pc = [e \in Events |-> "start"]
  /\ log = << >>
  /\ activeStart = 0
  /\ earliest = 0
  /\ writeOffset = 0
  /\ readOffset = 0
  /\ worker = "read"
  /\ batch = NoBatch
  /\ files = << >>
  /\ failures = 0

(***************************************************************************)
(* EnqueueSecurityLake                                                     *)
(***************************************************************************)
SegmentFull == Len(log) - activeStart = Segment

(***************************************************************************)
(* Definitions named Mutant... are the plausible bugs against which each   *)
(* property is tried: none of them is part of the specification.           *)
(***************************************************************************)
\* The new segment is the only one that is kept.
MutantLogWrite(e) ==
  /\ log' = Append(log, e)
  /\ earliest' = IF SegmentFull THEN Len(log) ELSE earliest
  /\ UNCHANGED activeStart

\* memlog.Write, under the log's own lock.
LogWrite(e) ==
  /\ log' = Append(log, e)
  /\ activeStart' = IF SegmentFull THEN Len(log) ELSE activeStart
  /\ earliest' = IF SegmentFull THEN activeStart ELSE earliest

Enqueue(e) ==
  /\ pc[e] = "start"
  /\ \/ /\ LogWrite(e)
        /\ pc' = [pc EXCEPT ![e] = "written"]
     \/ /\ pc' = [pc EXCEPT ![e] = "error"]
        /\ UNCHANGED logVars
  /\ UNCHANGED <<writeOffset, readVars>>

\* The offset is stored without synchronisation, in any order.
StoreWriteOffset(e) ==
  /\ pc[e] = "written"
  /\ pc' = [pc EXCEPT ![e] = "queued"]
  /\ writeOffset' = OffsetOf(e)
  /\ UNCHANGED <<logVars, readVars>>

(***************************************************************************)
(* StartSecurityLakeWorker and processNextBatch                            *)
(***************************************************************************)
From == readOffset + 1
OutOfRange == From < earliest

\* ErrOutOfRange: the offset that is reset is that of processNextBatch's own
\* copy of the configuration (line 228), and the worker loops at once.
ReadOutOfRange ==
  /\ worker = "read"
  /\ OutOfRange
  /\ UNCHANGED vars

\* ErrFutureOffset without a record, or another error: nothing to write.
ReadNothing ==
  /\ worker = "read"
  /\ ~OutOfRange
  /\ From >= Len(log)
  /\ worker' = "sleep"
  /\ UNCHANGED <<pc, logVars, writeOffset, readOffset, batch, files, failures>>

\* The records that come with ErrFutureOffset are not looked at.
MutantReadFull ==
  /\ worker = "read"
  /\ ~OutOfRange
  /\ From + BatchSize <= Len(log)
  /\ batch' = [first |-> From, last |-> From + BatchSize - 1]
  /\ worker' = "upload"
  /\ UNCHANGED <<pc, logVars, writeOffset, readOffset, files, failures>>

\* A full batch, or the partial one that comes with ErrFutureOffset.
ReadBatch ==
  /\ worker = "read"
  /\ ~OutOfRange
  /\ From < Len(log)
  /\ batch' = [first |-> From,
               last  |-> IF From + BatchSize <= Len(log)
                           THEN From + BatchSize - 1 ELSE Len(log) - 1]
  /\ worker' = "upload"
  /\ UNCHANGED <<pc, logVars, writeOffset, readOffset, files, failures>>

\* writeParquet skips the records it cannot convert.
FileOf(b, isAcked) ==
  [offsets |-> (b.first .. b.last) \ Unreadable, acked |-> isAcked]

\* The read offset is not moved after an upload.
MutantUploadOk ==
  /\ worker = "upload"
  /\ files' = Append(files, FileOf(batch, TRUE))
  /\ batch' = NoBatch
  /\ worker' = "sleep"
  /\ UNCHANGED <<pc, logVars, writeOffset, readOffset, failures>>

UploadOk ==
  /\ worker = "upload"
  /\ files' = Append(files, FileOf(batch, TRUE))
  /\ readOffset' = batch.last
  /\ batch' = NoBatch
  /\ worker' = "sleep"
  /\ UNCHANGED <<pc, logVars, writeOffset, failures>>

\* The read offset is moved before the upload is known to have succeeded.
MutantUploadError ==
  /\ worker = "upload"
  /\ failures < MaxFailures
  /\ failures' = failures + 1
  /\ files' \in {files, Append(files, FileOf(batch, FALSE))}
  /\ readOffset' = batch.last
  /\ batch' = NoBatch
  /\ worker' = "sleep"
  /\ UNCHANGED <<pc, logVars, writeOffset>>

\* An upload that fails, or times out after ten seconds although S3 stored
\* the file: the read offset stays, the batch is read again.
UploadError ==
  /\ worker = "upload"
  /\ failures < MaxFailures
  /\ failures' = failures + 1
  /\ files' \in {files, Append(files, FileOf(batch, FALSE))}
  /\ batch' = NoBatch
  /\ worker' = "sleep"
  /\ UNCHANGED <<pc, logVars, writeOffset, readOffset>>

\* time.Sleep(Interval): five to sixty minutes.
Wake ==
  /\ worker = "sleep"
  /\ worker' = "read"
  /\ UNCHANGED <<pc, logVars, writeOffset, readOffset, batch, files, failures>>

Worker ==
  ReadOutOfRange \/ ReadNothing \/ ReadBatch \/ UploadOk \/ UploadError \/ Wake

Next == Worker \/ \E e \in Events : Enqueue(e) \/ StoreWriteOffset(e)

\* The worker never stops, goroutines run to their end, and S3 does not
\* refuse for ever: it fails MaxFailures times at most.
Fairness ==
  /\ WF_vars(Worker)
  /\ \A e \in Events : WF_vars(StoreWriteOffset(e))

Spec == Init /\ [][Next]_vars /\ Fairness

(***************************************************************************)
(* Properties                                                              *)
(***************************************************************************)
TypeOK ==
  /\ pc \in [Events -> {"start", "written", "queued", "error"}]
  /\ log \in Seq(Events)
  /\ activeStart \in 0..Len(log)
  /\ earliest \in 0..activeStart
  /\ writeOffset \in Nat
  /\ readOffset \in Nat
  /\ worker \in {"read", "upload", "sleep"}
  /\ batch \in [first : Nat, last : Int]
  /\ files \in Seq([offsets : SUBSET Nat, acked : BOOLEAN])
  /\ failures \in 0..MaxFailures

Acked == UNION {files[i].offsets : i \in {j \in DOMAIN files : files[j].acked}}

\* "we don't update ReadOffset to retry and not skip records"
\* (awssecuritylake.go:288): each record the read offset went past, from the
\* first one read on, is in a file S3 confirmed, or is unparsable; failed and
\* repeated uploads and purged segments do not change that.
ReadMeansUploaded == \A o \in 1..readOffset : o \in Acked \union Unreadable

\* No record is in two files whose upload was confirmed: a retry, or an
\* upload that timed out after S3 had stored the file, is the only source of
\* duplicates.
ConfirmedOnce ==
  \A i, j \in DOMAIN files :
    i # j /\ files[i].acked /\ files[j].acked =>
      files[i].offsets \intersect files[j].offsets = {}

\* A file that S3 stored although the upload was reported as failed is
\* contained in the next one, whatever was enqueued, failed or read in
\* between: the retry starts where the failed batch did and is no shorter, so
\* that what is in the bucket twice is a whole file, never a part of one.  A
\* reader that was lapped in between writes no next file (awssecuritylake.go:263).
RetryCoversBatch ==
  \A i \in 1..(Len(files) - 1) :
    ~files[i].acked => files[i].offsets \subseteq files[i + 1].offsets

\* Once the read offset has been lapped by the writers it comes back into
\* the log: "resetting read offset" (awssecuritylake.go:257).
LappedReaderRecovers == OutOfRange ~> ~OutOfRange

\* Every parsable record from offset 1 on ends in a confirmed file, partial
\* batches included and whatever uploads fail before, unless the writers lap
\* the reader.  The record at offset 0 is never read.
EventuallyUploaded ==
  \A e \in Events \ Unparsable :
    pc[e] = "queued" /\ log[1] # e ~>
      OutOfRange \/ \E o \in Acked : log[o + 1] = e
=============================================================================
