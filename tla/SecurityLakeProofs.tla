------------------------- MODULE SecurityLakeProofs -------------------------
(***************************************************************************)
(* The read offset tells what is stored, for any number of writers, any    *)
(* sizes of segments and batches, and any number of failed uploads.        *)
(***************************************************************************)
EXTENDS SecurityLake, SequenceTheorems, TLAPS

Offsets == 0..(Len(log) - 1)

\* A goroutine that wrote its event finds its offset.
WrittenInv == \A e \in Events : pc[e] = "written" => \E o \in Offsets : log[o + 1] = e

\* The read offset is that of a record, or none was read.
ReadInv == readOffset = 0 \/ readOffset \in Offsets

\* Confirmed files hold only what the read offset went past.
BehindInv == \A i \in DOMAIN files : files[i].acked => files[i].offsets \subseteq 1..readOffset

\* The batch starts at the read offset, and is within the log and a batch.
BatchInv == worker = "upload" =>
  /\ batch.first = readOffset + 1
  /\ batch.last \in batch.first..(Len(log) - 1)
  /\ batch.last <= readOffset + BatchSize

\* What the last file holds, if it was not confirmed, is still within reach of
\* the next batch, and in it once it was read.
Retried(offsets) ==
  /\ \A o \in offsets :
       o \in Offsets /\ o \notin Unreadable /\ readOffset < o /\ o <= readOffset + BatchSize
  /\ worker = "upload" => offsets \subseteq batch.first..batch.last

RetryInv == files # << >> /\ ~files[Len(files)].acked => Retried(files[Len(files)].offsets)

IInv ==
  /\ TypeOK
  /\ WrittenInv
  /\ ReadInv
  /\ BatchInv
  /\ BehindInv
  /\ RetryInv
  /\ RetryCoversBatch
  /\ ReadMeansUploaded
  /\ ConfirmedOnce

LEMMA InitIInv == Init => IInv
<1> SUFFICES ASSUME Init PROVE IInv
  OBVIOUS
<1>1. TypeOK
  BY LakeAssumption DEF Init, TypeOK, NoBatch
<1>2. WrittenInv /\ ReadInv /\ BatchInv /\ BehindInv /\ ReadMeansUploaded /\ ConfirmedOnce
      /\ RetryInv /\ RetryCoversBatch
  BY DEF Init, WrittenInv, ReadInv, BatchInv, BehindInv, ReadMeansUploaded, ConfirmedOnce,
     RetryInv, RetryCoversBatch
<1> QED BY <1>1, <1>2 DEF IInv

(***************************************************************************)
(* Writers                                                                 *)
(***************************************************************************)
\* A write adds a record and leaves the others, and what is unparsable of
\* them, as they were.
LEMMA LogGrows ==
  ASSUME TypeOK, NEW e \in Events, LogWrite(e)
  PROVE  /\ log' \in Seq(Events) /\ Len(log') = Len(log) + 1
         /\ \A i \in 1..Len(log) : log'[i] = log[i]
         /\ log'[Len(log) + 1] = e
         /\ Unreadable \subseteq Unreadable'
         /\ \A o \in Offsets : o \in Offsets' /\ (o \in Unreadable' => o \in Unreadable)
<1>1. log \in Seq(Events) /\ log' = Append(log, e)
  BY DEF TypeOK, LogWrite
<1>2. log' \in Seq(Events) /\ Len(log') = Len(log) + 1
  BY <1>1
<1>3. \A i \in 1..Len(log) : log'[i] = log[i]
  BY <1>1
<1>4. log'[Len(log) + 1] = e
  BY <1>1
<1>5. \A o \in Offsets : o \in 0..(Len(log') - 1) /\ log'[o + 1] = log[o + 1]
  BY <1>1, <1>2, <1>3 DEF Offsets
<1>6. Unreadable \subseteq Unreadable'
  BY <1>5 DEF Unreadable, Offsets
<1>7. \A o \in Offsets : o \in Offsets' /\ (o \in Unreadable' => o \in Unreadable)
  BY <1>5 DEF Unreadable, Offsets
<1> QED BY <1>2, <1>3, <1>4, <1>6, <1>7

LEMMA EnqueueStep == ASSUME IInv, NEW e \in Events, Enqueue(e) PROVE IInv'
<1> USE DEF IInv
<1>1. UNCHANGED <<writeOffset, readOffset, worker, batch, files, failures>>
  BY DEF Enqueue, readVars
<1>2. CASE LogWrite(e) /\ pc' = [pc EXCEPT ![e] = "written"]
  <2>1. /\ log' \in Seq(Events) /\ Len(log') = Len(log) + 1
        /\ \A i \in 1..Len(log) : log'[i] = log[i]
        /\ log'[Len(log) + 1] = e
        /\ Unreadable \subseteq Unreadable'
        /\ \A o \in Offsets : o \in Offsets' /\ (o \in Unreadable' => o \in Unreadable)
    BY <1>2, LogGrows
  <2>2. Len(log) \in Nat
    BY DEF TypeOK
  <2>3. TypeOK'
    BY <1>1, <1>2, <2>1, <2>2 DEF TypeOK, LogWrite, SegmentFull
  <2>4. \A o \in Offsets : o \in Offsets' /\ log'[o + 1] = log[o + 1]
    BY <2>1, <2>2 DEF Offsets
  <2>5. Len(log) \in Offsets' /\ log'[Len(log) + 1] = e
    BY <2>1, <2>2 DEF Offsets
  <2>6. WrittenInv'
    BY <1>2, <2>4, <2>5 DEF WrittenInv, TypeOK
  <2>7. ReadInv'
    BY <1>1, <2>4 DEF ReadInv
  <2>8. BatchInv'
    BY <1>1, <2>1, <2>2 DEF BatchInv, TypeOK
  <2>9. BehindInv' /\ ConfirmedOnce' /\ Acked' = Acked
    BY <1>1 DEF BehindInv, ConfirmedOnce, Acked
  <2>10. ReadMeansUploaded'
    BY <1>1, <2>1, <2>9 DEF ReadMeansUploaded
  <2>11. RetryInv' /\ RetryCoversBatch'
    BY <1>1, <2>1 DEF RetryInv, Retried, RetryCoversBatch
  <2> QED BY <2>3, <2>6, <2>7, <2>8, <2>9, <2>10, <2>11
<1>3. CASE pc' = [pc EXCEPT ![e] = "error"] /\ UNCHANGED logVars
  BY <1>1, <1>3 DEF logVars, TypeOK, WrittenInv, ReadInv, BatchInv, BehindInv, ConfirmedOnce,
     ReadMeansUploaded, RetryInv, Retried, RetryCoversBatch, Acked, Unreadable, Offsets
<1> QED BY <1>2, <1>3 DEF Enqueue

LEMMA StoreStep == ASSUME IInv, NEW e \in Events, StoreWriteOffset(e) PROVE IInv'
<1> USE DEF IInv
<1>1. /\ pc[e] = "written" /\ pc' = [pc EXCEPT ![e] = "queued"]
      /\ writeOffset' = OffsetOf(e)
      /\ UNCHANGED <<log, activeStart, earliest, readOffset, worker, batch, files, failures>>
  BY DEF StoreWriteOffset, logVars, readVars
<1>2. OffsetOf(e) \in Offsets
  BY <1>1 DEF WrittenInv, OffsetOf, Offsets
<1>3. TypeOK'
  BY <1>1, <1>2 DEF TypeOK, Offsets
<1>4. WrittenInv'
  BY <1>1 DEF WrittenInv, Offsets, TypeOK
<1>5. (ReadInv /\ BatchInv /\ BehindInv /\ ConfirmedOnce /\ ReadMeansUploaded /\ RetryInv
        /\ RetryCoversBatch)'
  BY <1>1 DEF ReadInv, BatchInv, BehindInv, ConfirmedOnce, ReadMeansUploaded, RetryInv, Retried,
     RetryCoversBatch, Acked, Unreadable, Offsets
<1> QED BY <1>3, <1>4, <1>5

(***************************************************************************)
(* The worker                                                              *)
(***************************************************************************)
\* The files there were are still there, and one may have come.
LEMMA OneFileMore ==
  ASSUME TypeOK, NEW f, files' = Append(files, f)
  PROVE  /\ DOMAIN files' = 1..(Len(files) + 1) /\ DOMAIN files = 1..Len(files)
         /\ \A i \in 1..Len(files) : files'[i] = files[i]
         /\ files'[Len(files) + 1] = f
         /\ Len(files) \in Nat
         /\ Acked \subseteq Acked'
         /\ f.acked => f.offsets \subseteq Acked'
<1>1. files \in Seq([offsets : SUBSET Nat, acked : BOOLEAN])
  BY DEF TypeOK
<1>2. /\ DOMAIN files' = 1..(Len(files) + 1) /\ DOMAIN files = 1..Len(files)
      /\ \A i \in 1..Len(files) : files'[i] = files[i]
      /\ files'[Len(files) + 1] = f
      /\ Len(files) \in Nat
  BY <1>1
<1>3. \A i \in DOMAIN files : i \in DOMAIN files' /\ files'[i] = files[i]
  BY <1>2
<1>4. Acked \subseteq Acked'
  BY <1>3 DEF Acked
<1>5. Len(files) + 1 \in DOMAIN files'
  BY <1>2
<1>6. f.acked => f.offsets \subseteq Acked'
  BY <1>2, <1>5 DEF Acked
<1> QED BY <1>2, <1>4, <1>6

LEMMA UploadOkStep == ASSUME IInv, UploadOk PROVE IInv'
<1> USE DEF IInv
<1> DEFINE f == FileOf(batch, TRUE)
<1>1. /\ worker = "upload" /\ worker' = "sleep" /\ batch' = NoBatch
      /\ files' = Append(files, f) /\ readOffset' = batch.last
      /\ UNCHANGED <<pc, log, activeStart, earliest, writeOffset, failures>>
  BY DEF UploadOk, logVars
<1>2. /\ batch.first = readOffset + 1
      /\ batch.last \in batch.first..(Len(log) - 1)
      /\ readOffset \in Nat /\ Len(log) \in Nat
  BY <1>1 DEF BatchInv, TypeOK
<1>3. f.acked = TRUE /\ f.offsets = (batch.first..batch.last) \ Unreadable
      /\ f = [offsets |-> f.offsets, acked |-> TRUE]
  BY DEF FileOf
<1>4. batch.last \in Nat /\ batch.last > readOffset /\ batch.last \in Offsets
  BY <1>2 DEF Offsets
<1>5. f \in [offsets : SUBSET Nat, acked : BOOLEAN]
  <2>1. batch.first..batch.last \subseteq Nat
    BY <1>2, <1>4
  <2> QED BY <2>1 DEF FileOf
<1> HIDE DEF f
<1>6. /\ DOMAIN files' = 1..(Len(files) + 1) /\ DOMAIN files = 1..Len(files)
      /\ \A i \in 1..Len(files) : files'[i] = files[i]
      /\ files'[Len(files) + 1] = f
      /\ Len(files) \in Nat
      /\ Acked \subseteq Acked'
      /\ f.offsets \subseteq Acked'
  BY <1>1, <1>3, OneFileMore
<1>7. TypeOK'
  BY <1>1, <1>4, <1>5 DEF TypeOK, NoBatch
<1>8. WrittenInv' /\ ReadInv' /\ BatchInv'
  BY <1>1, <1>4 DEF WrittenInv, ReadInv, BatchInv, Offsets
<1>9. BehindInv'
  <2> SUFFICES ASSUME NEW i \in DOMAIN files', files'[i].acked
               PROVE  files'[i].offsets \subseteq 1..readOffset'
    BY DEF BehindInv
  <2>1. CASE i \in 1..Len(files)
    BY <1>1, <1>2, <1>4, <1>6, <2>1 DEF BehindInv
  <2>2. CASE i = Len(files) + 1
    BY <1>1, <1>2, <1>3, <1>6, <2>2
  <2> QED BY <1>6, <2>1, <2>2
<1>10. ReadMeansUploaded'
  <2> SUFFICES ASSUME NEW o \in 1..readOffset' PROVE o \in Acked' \union Unreadable'
    BY DEF ReadMeansUploaded
  <2>1. Unreadable' = Unreadable
    BY <1>1 DEF Unreadable
  <2>2. CASE o \in 1..readOffset
    BY <1>6, <2>1, <2>2 DEF ReadMeansUploaded
  <2>3. CASE o \in batch.first..batch.last
    BY <1>3, <1>6, <2>1, <2>3
  <2> QED BY <1>1, <1>2, <1>4, <2>2, <2>3
<1>11. ConfirmedOnce'
  <2>1. \A i \in 1..Len(files) : files[i].acked => files[i].offsets \intersect f.offsets = {}
    BY <1>2, <1>3, <1>6 DEF BehindInv
  <2> QED BY <1>6, <2>1 DEF ConfirmedOnce
\* What an unconfirmed file before this one holds is in the batch.
<1>12. RetryInv' /\ RetryCoversBatch'
  <2>1. RetryInv'
    BY <1>1, <1>3, <1>6 DEF RetryInv, TypeOK
  <2>2. ASSUME NEW i \in 1..Len(files), ~files[i].acked, i = Len(files)
        PROVE  files[i].offsets \subseteq f.offsets
    <3>1. files # << >>
      BY <2>2, <1>6
    <3>2. Retried(files[i].offsets)
      BY <2>2, <3>1 DEF RetryInv
    <3> QED BY <1>1, <1>3, <3>2 DEF Retried
  <2>3. ASSUME NEW i \in 1..(Len(files') - 1), ~files'[i].acked
        PROVE  files'[i].offsets \subseteq files'[i + 1].offsets
    <3>1. i \in 1..Len(files) /\ files'[i] = files[i] /\ Len(files') = Len(files) + 1
      BY <1>1, <1>6 DEF TypeOK
    <3>2. CASE i = Len(files)
      BY <1>6, <2>2, <2>3, <3>1, <3>2
    <3>3. CASE i < Len(files)
      <4>1. i \in 1..(Len(files) - 1) /\ i + 1 \in 1..Len(files)
        BY <1>6, <3>1, <3>3
      <4>2. files'[i] = files[i] /\ files'[i + 1] = files[i + 1]
        BY <1>6, <4>1
      <4>3. files[i].offsets \subseteq files[i + 1].offsets
        BY <2>3, <4>1, <4>2 DEF RetryCoversBatch
      <4> QED BY <4>2, <4>3
    <3>4. i = Len(files) \/ i < Len(files)
      BY <1>6, <3>1
    <3> QED BY <3>2, <3>3, <3>4
  <2> QED BY <2>1, <2>3 DEF RetryCoversBatch
<1> QED BY <1>7, <1>8, <1>9, <1>10, <1>11, <1>12

LEMMA UploadErrorStep == ASSUME IInv, UploadError PROVE IInv'
<1> USE DEF IInv
<1>1. /\ worker = "upload" /\ worker' = "sleep" /\ batch' = NoBatch
      /\ failures < MaxFailures /\ failures' = failures + 1
      /\ files' = files \/ files' = Append(files, FileOf(batch, FALSE))
      /\ UNCHANGED <<pc, log, activeStart, earliest, writeOffset, readOffset>>
  BY DEF UploadError, logVars
<1>2. (WrittenInv /\ ReadInv /\ BatchInv)' /\ Unreadable' = Unreadable
  BY <1>1 DEF WrittenInv, ReadInv, BatchInv, Offsets, Unreadable
<1>3. failures' \in 0..MaxFailures
  BY <1>1, LakeAssumption DEF TypeOK
<1>4. CASE files' = files
  <2>1. TypeOK'
    BY <1>1, <1>3, <1>4 DEF TypeOK, NoBatch
  <2>2. RetryInv' /\ RetryCoversBatch'
    BY <1>1, <1>2, <1>4 DEF RetryInv, Retried, RetryCoversBatch, Offsets
  <2> QED BY <1>1, <1>2, <1>4, <2>1, <2>2 DEF BehindInv, ConfirmedOnce, ReadMeansUploaded, Acked
<1>5. CASE files' = Append(files, FileOf(batch, FALSE))
  <2> DEFINE f == FileOf(batch, FALSE)
  <2>1. /\ batch.first \in Nat /\ batch.last \in Int
        /\ batch.first = readOffset + 1 /\ batch.last <= readOffset + BatchSize
        /\ batch.last <= Len(log) - 1
        /\ readOffset \in Nat /\ BatchSize \in Nat /\ Len(log) \in Nat
    BY <1>1, LakeAssumption DEF TypeOK, BatchInv
  <2>2. f \in [offsets : SUBSET Nat, acked : BOOLEAN] /\ ~f.acked
        /\ f.offsets = (batch.first..batch.last) \ Unreadable
    BY <2>1 DEF FileOf
  <2>0. files' = Append(files, f)
    BY <1>5
  <2> HIDE DEF f
  <2>3. /\ DOMAIN files' = 1..(Len(files) + 1) /\ DOMAIN files = 1..Len(files)
        /\ \A i \in 1..Len(files) : files'[i] = files[i]
        /\ files'[Len(files) + 1] = f
        /\ Len(files) \in Nat
        /\ Acked \subseteq Acked'
    BY <2>0, OneFileMore
  <2>4. TypeOK'
    BY <1>1, <1>3, <2>0, <2>2 DEF TypeOK, NoBatch
  <2>5. BehindInv' /\ ConfirmedOnce'
    BY <1>1, <2>2, <2>3 DEF BehindInv, ConfirmedOnce
  <2>6. ReadMeansUploaded'
    BY <1>1, <1>2, <2>3 DEF ReadMeansUploaded
  <2>7. RetryInv'
    <3>1. Len(files') = Len(files) + 1
      BY <2>0 DEF TypeOK
    <3>2. files'[Len(files')] = f
      BY <2>3, <3>1
    <3>3. \A o \in f.offsets : /\ o \in Offsets' /\ o \notin Unreadable'
                              /\ readOffset' < o /\ o <= readOffset' + BatchSize
      BY <1>1, <1>2, <2>1, <2>2 DEF Offsets
    <3> QED BY <1>1, <3>2, <3>3 DEF RetryInv, Retried
  <2>8. RetryCoversBatch'
    <3> SUFFICES ASSUME NEW i \in 1..(Len(files') - 1), ~files'[i].acked
                 PROVE  files'[i].offsets \subseteq files'[i + 1].offsets
      BY DEF RetryCoversBatch
    <3>1. i \in 1..Len(files) /\ files'[i] = files[i]
      BY <2>0, <2>3 DEF TypeOK
    <3>2. CASE i = Len(files)
      <4>1. Retried(files[i].offsets)
        BY <2>3, <3>1, <3>2 DEF RetryInv
      <4> QED BY <1>1, <2>2, <2>3, <3>1, <3>2, <4>1 DEF Retried
    <3>3. CASE i < Len(files)
      <4>1. i \in 1..(Len(files) - 1) /\ i + 1 \in 1..Len(files)
        BY <2>3, <3>1, <3>3
      <4>2. files'[i] = files[i] /\ files'[i + 1] = files[i + 1]
        BY <2>3, <4>1
      <4>3. files[i].offsets \subseteq files[i + 1].offsets
        BY <4>1, <4>2 DEF RetryCoversBatch
      <4> QED BY <4>2, <4>3
    <3>4. i = Len(files) \/ i < Len(files)
      <4>1. Len(files) \in Nat
        BY <2>3
      <4>2. i \in 1..Len(files)
        BY <3>1
      <4> QED BY <4>1, <4>2
    <3> QED BY <3>2, <3>3, <3>4
  <2> QED BY <1>2, <2>4, <2>5, <2>6, <2>7, <2>8
<1> QED BY <1>1, <1>4, <1>5

LEMMA ReadStep == ASSUME IInv, ReadOutOfRange \/ ReadNothing \/ ReadBatch \/ Wake PROVE IInv'
<1> USE DEF IInv
<1>1. UNCHANGED <<pc, log, activeStart, earliest, writeOffset, readOffset, files, failures>>
  BY DEF ReadOutOfRange, ReadNothing, ReadBatch, Wake, vars, logVars
<1>2. (WrittenInv /\ ReadInv /\ BehindInv /\ ConfirmedOnce /\ ReadMeansUploaded
        /\ RetryCoversBatch)'
  BY <1>1 DEF WrittenInv, ReadInv, BehindInv, ConfirmedOnce, ReadMeansUploaded,
     RetryCoversBatch, Acked, Unreadable, Offsets
<1>3. TypeOK' /\ BatchInv' /\ RetryInv'
  <2>1. CASE ReadBatch
    <3>1. readOffset \in Nat /\ Len(log) \in Nat /\ BatchSize \in Nat \ {0}
      BY LakeAssumption DEF TypeOK
    <3>2. /\ batch' = [first |-> readOffset + 1,
                       last  |-> IF readOffset + 1 + BatchSize <= Len(log)
                                   THEN readOffset + 1 + BatchSize - 1 ELSE Len(log) - 1]
          /\ readOffset + 1 < Len(log) /\ worker' = "upload"
      BY <2>1 DEF ReadBatch, From
    <3>3. batch' \in [first : Nat, last : Int]
      BY <3>1, <3>2
    <3>4. /\ batch'.first = readOffset + 1 /\ batch'.last \in (readOffset + 1)..(Len(log) - 1)
          /\ batch'.last <= readOffset + BatchSize
      BY <3>1, <3>2
    <3>5. TypeOK'
      BY <1>1, <3>2, <3>3 DEF TypeOK
    <3>6. ASSUME NEW o \in Offsets, readOffset < o, o <= readOffset + BatchSize
          PROVE  o \in batch'.first..batch'.last
      BY <3>1, <3>2, <3>6 DEF Offsets
    <3>7. RetryInv'
      BY <1>1, <3>6 DEF RetryInv, Retried, Offsets, Unreadable
    <3> QED BY <1>1, <3>4, <3>5, <3>7 DEF BatchInv
  <2>2. CASE ReadOutOfRange
    BY <2>2 DEF ReadOutOfRange, vars, TypeOK, BatchInv, RetryInv, Retried, Offsets, Unreadable
  <2>3. CASE ReadNothing \/ Wake
    BY <1>1, <2>3 DEF ReadNothing, Wake, TypeOK, BatchInv, RetryInv, Retried, Offsets, Unreadable
  <2> QED BY <2>1, <2>2, <2>3
<1> QED BY <1>2, <1>3

LEMMA StepIInv == IInv /\ [Next]_vars => IInv'
<1> SUFFICES ASSUME IInv, [Next]_vars PROVE IInv'
  OBVIOUS
<1>1. CASE UNCHANGED vars
  <2>1. Offsets' = Offsets /\ Unreadable' = Unreadable /\ Acked' = Acked
    BY <1>1 DEF vars, Offsets, Unreadable, Acked
  <2>2. (WrittenInv /\ ReadInv /\ BatchInv /\ RetryInv)'
    BY <1>1, <2>1 DEF vars, IInv, WrittenInv, ReadInv, BatchInv, RetryInv, Retried
  <2>3. (TypeOK /\ BehindInv /\ ConfirmedOnce /\ ReadMeansUploaded /\ RetryCoversBatch)'
    BY <1>1, <2>1 DEF vars, IInv, TypeOK, BehindInv, ConfirmedOnce, ReadMeansUploaded,
       RetryCoversBatch
  <2> QED BY <2>2, <2>3 DEF IInv
<1>2. CASE Worker
  BY <1>2, ReadStep, UploadOkStep, UploadErrorStep DEF Worker
<1>3. CASE \E e \in Events : Enqueue(e) \/ StoreWriteOffset(e)
  BY <1>3, EnqueueStep, StoreStep
<1> QED BY <1>1, <1>2, <1>3 DEF Next

LEMMA AlwaysIInv == Spec => []IInv
BY InitIInv, StepIInv, PTL DEF Spec

(***************************************************************************)
(* Theorems                                                                *)
(***************************************************************************)
\* Type correctness of the log, the worker and the bucket, for any events,
\* segment, batch size and number of failures.
THEOREM LakeTypeCorrect == Spec => []TypeOK
BY AlwaysIInv, PTL DEF IInv

\* What S3 stored without confirming it is stored again as a whole by the next
\* upload, if there is one, however much the log grew and however often the
\* upload failed in between: a retry never splits a batch.
THEOREM RetriesCover == Spec => []RetryCoversBatch
BY AlwaysIInv, PTL DEF IInv

\* The read offset goes past a record only when S3 confirmed a file with it,
\* or writeParquet could not convert it, however writers, failed uploads and
\* purged segments interleave.
THEOREM ReadIsUploaded == Spec => []ReadMeansUploaded
BY AlwaysIInv, PTL DEF IInv

\* No two confirmed files hold the same record.
THEOREM AlwaysConfirmedOnce == Spec => []ConfirmedOnce
BY AlwaysIInv, PTL DEF IInv

\* The worker, about to read, was lapped by the writers.
Lapped == worker = "read" /\ OutOfRange

LEMMA LappedStep ==
  IInv /\ Lapped /\ [Next]_vars => Lapped' /\ UNCHANGED <<readOffset, files>>
<1> SUFFICES ASSUME IInv, Lapped, [Next]_vars PROVE Lapped' /\ UNCHANGED <<readOffset, files>>
  OBVIOUS
<1> USE DEF Lapped, OutOfRange, From
<1>1. readOffset \in Nat /\ earliest \in Nat /\ activeStart \in Nat /\ earliest <= activeStart
      /\ Len(log) \in Nat
  BY DEF IInv, TypeOK
<1>2. CASE UNCHANGED vars
  BY <1>2 DEF vars
<1>3. CASE Worker
  BY <1>3 DEF Worker, ReadOutOfRange, ReadNothing, ReadBatch, UploadOk, UploadError, Wake, vars
<1>4. ASSUME NEW e \in Events, Enqueue(e) \/ StoreWriteOffset(e)
      PROVE  Lapped' /\ UNCHANGED <<readOffset, files>>
  <2>1. UNCHANGED <<worker, readOffset, files>>
    BY <1>4 DEF Enqueue, StoreWriteOffset, readVars
  <2>2. earliest' \in {earliest, activeStart}
    BY <1>4 DEF Enqueue, StoreWriteOffset, LogWrite, logVars
  <2> QED BY <1>1, <2>1, <2>2
<1> QED BY <1>2, <1>3, <1>4 DEF Next

\* The offset is reset in a copy: a worker that was lapped finds itself out of
\* range for ever, whatever the writers do.
THEOREM LappedForEver == Spec => [](Lapped => []Lapped)
<1>1. IInv /\ Lapped /\ [Next]_vars => Lapped'
  BY LappedStep
<1> QED BY <1>1, AlwaysIInv, PTL DEF Spec

\* And it uploads nothing any more.
THEOREM LappedUploadsNothing == Spec => [][Lapped => UNCHANGED <<readOffset, files>>]_vars
<1>1. IInv /\ [Next]_vars => [Lapped => UNCHANGED <<readOffset, files>>]_vars
  BY LappedStep
<1> QED BY <1>1, AlwaysIInv, PTL DEF Spec

\* The read offset never goes back, nor does the log lose what it has not purged:
\* the offset of a record stays its offset.
THEOREM OffsetsOnlyGrow ==
  Spec => [][readOffset' >= readOffset /\ earliest' >= earliest /\ Len(log') >= Len(log)
             /\ \A o \in Offsets : log'[o + 1] = log[o + 1]]_vars
<1> DEFINE Grow == /\ readOffset' >= readOffset /\ earliest' >= earliest /\ Len(log') >= Len(log)
                   /\ \A o \in Offsets : log'[o + 1] = log[o + 1]
<1>1. IInv /\ [Next]_vars => [Grow]_vars
  <2> SUFFICES ASSUME IInv, Next PROVE Grow
    OBVIOUS
  <2>1. readOffset \in Nat /\ earliest \in Nat /\ activeStart \in Nat /\ earliest <= activeStart
        /\ Len(log) \in Nat
    BY DEF IInv, TypeOK
  <2>2. ASSUME UNCHANGED <<readOffset, logVars>> PROVE Grow
    BY <2>1, <2>2 DEF logVars
  <2>3. CASE UploadOk
    <3>1. readOffset' = batch.last /\ UNCHANGED logVars
      BY <2>3 DEF UploadOk
    <3>2. batch.first = readOffset + 1 /\ batch.last \in batch.first..(Len(log) - 1)
      BY <2>3 DEF UploadOk, IInv, BatchInv
    <3> QED BY <2>1, <3>1, <3>2 DEF logVars
  <2>4. ASSUME NEW e \in Events, LogWrite(e), UNCHANGED readOffset PROVE Grow
    <3>1. Len(log') = Len(log) + 1 /\ \A i \in 1..Len(log) : log'[i] = log[i]
      BY <2>4, LogGrows DEF IInv
    <3>2. earliest' \in {earliest, activeStart}
      BY <2>4 DEF LogWrite
    <3> QED BY <2>1, <2>4, <3>1, <3>2 DEF Offsets
  <2>5. CASE \E e \in Events : Enqueue(e) \/ StoreWriteOffset(e)
    BY <2>2, <2>4, <2>5 DEF Enqueue, StoreWriteOffset, readVars
  <2>6. CASE ReadOutOfRange \/ ReadNothing \/ ReadBatch \/ UploadError \/ Wake
    BY <2>2, <2>6 DEF ReadOutOfRange, ReadNothing, ReadBatch, UploadError, Wake, vars, logVars
  <2> QED BY <2>3, <2>5, <2>6 DEF Next, Worker
<1> QED BY <1>1, AlwaysIInv, PTL DEF Spec
=============================================================================
