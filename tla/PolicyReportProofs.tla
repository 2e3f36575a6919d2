------------------------- MODULE PolicyReportProofs -------------------------
(***************************************************************************)
(* Reports that any number of goroutines read, append to, trim and write   *)
(* back: no write undoes another, no result is stored twice, the summary   *)
(* matches and the limit holds, whatever calls fail or lose their answer.  *)
(***************************************************************************)
EXTENDS PolicyReport, FiniteSetTheorems, SequenceTheorems, TLAPS

Statuses == {"fail", "warn", "skip"}

\* What e makes of the results it read.
Added(old, e) == Trim(Append(old, e))

\* A goroutine that is about to write.
Writing(e) == pc[e] \in {"create", "update"}

\* Its copy is the report it read with its own result, or as it was, and
\* still is while the versions agree.
CopyInv ==
  \A e \in Events :
    /\ policyr[e].summary = getSummary(policyr[e].results)
    /\ Writing(e) => policyr[e].version <= reports[target[e]].version
    /\ Writing(e) /\ policyr[e].version = reports[target[e]].version =>
         \/ policyr[e].results = reports[target[e]].results
         \/ policyr[e].results = Added(reports[target[e]].results, e)

\* Stored results are those of goroutines that have written.
StoredInv ==
  \A r \in Reports : \A i \in DOMAIN reports[r].results :
    reports[r].results[i] \in Events => pc[reports[r].results[i]] \in {"ok", "error"}

IInv == TypeOK /\ CopyInv /\ StoredInv /\ RecordedOnce /\ SummaryMatches

(***************************************************************************)
(* Results                                                                 *)
(***************************************************************************)
LEMMA SummaryType ==
  ASSUME NEW s \in Seq(Results) PROVE getSummary(s) \in [Statuses -> Nat]
<1>1. DOMAIN s = 1..Len(s) /\ IsFiniteSet(1..Len(s))
  BY FS_Interval
<1>2. \A t \in Statuses : Cardinality({i \in DOMAIN s : StatusOf(s[i]) = t}) \in Nat
  BY <1>1, FS_Subset, FS_CardinalityType
<1> QED BY <1>2 DEF getSummary, Statuses

\* The results after the write of e are those before it and that of e.
LEMMA AddedResults ==
  ASSUME NEW s \in Seq(Results), NEW e \in Events, NEW t, t = Added(s, e)
  PROVE  /\ t \in Seq(Results) /\ Len(t) \in {Len(s), Len(s) + 1}
         /\ \A i \in DOMAIN t : t[i] = e \/ \E j \in DOMAIN s : t[i] = s[j]
         /\ (\A i, j \in DOMAIN s : s[i] = s[j] => i = j) /\ (\A i \in DOMAIN s : s[i] # e)
              => \A i, j \in DOMAIN t : t[i] = t[j] => i = j
<1> DEFINE a == Append(s, e)
<1>1. /\ a \in Seq(Results) /\ Len(a) = Len(s) + 1 /\ Len(s) \in Nat
      /\ DOMAIN a = 1..(Len(s) + 1) /\ DOMAIN s = 1..Len(s)
      /\ \A i \in 1..Len(s) : a[i] = s[i]
      /\ a[Len(s) + 1] = e
  BY DEF Results
<1> HIDE DEF a
<1>2. /\ Tail(a) \in Seq(Results) /\ Len(Tail(a)) = Len(s)
      /\ DOMAIN Tail(a) = 1..Len(s)
      /\ \A i \in 1..Len(s) : Tail(a)[i] = a[i + 1]
  BY <1>1
<1>3. t = a \/ t = Tail(a)
  BY DEF Added, Trim, a
<1>4. \A i \in DOMAIN a : a[i] = e \/ \E j \in DOMAIN s : a[i] = s[j]
  BY <1>1
<1>5. \A i \in DOMAIN t : t[i] = e \/ \E j \in DOMAIN s : t[i] = s[j]
  <2>1. CASE t = Tail(a)
    <3> SUFFICES ASSUME NEW i \in 1..Len(s)
                 PROVE  Tail(a)[i] = e \/ \E j \in DOMAIN s : Tail(a)[i] = s[j]
      BY <1>2, <2>1
    <3>1. i + 1 \in DOMAIN a
      BY <1>1
    <3> QED BY <1>2, <1>4, <3>1
  <2> QED BY <1>3, <1>4, <2>1
<1>6. ASSUME \A i, j \in DOMAIN s : s[i] = s[j] => i = j, \A i \in DOMAIN s : s[i] # e
      PROVE  \A i, j \in DOMAIN t : t[i] = t[j] => i = j
  <2>1. \A i, j \in 1..(Len(s) + 1) : a[i] = a[j] => i = j
    BY <1>1, <1>6
  <2>2. \A i, j \in 1..Len(s) : Tail(a)[i] = Tail(a)[j] => i = j
    <3> SUFFICES ASSUME NEW i \in 1..Len(s), NEW j \in 1..Len(s), Tail(a)[i] = Tail(a)[j]
                 PROVE  i = j
      OBVIOUS
    <3>1. i + 1 \in 1..(Len(s) + 1) /\ j + 1 \in 1..(Len(s) + 1) /\ a[i + 1] = a[j + 1]
      BY <1>1, <1>2
    <3> QED BY <1>1, <2>1, <3>1
  <2>3. CASE t = a
    BY <1>1, <2>1, <2>3
  <2>4. CASE t = Tail(a)
    BY <1>2, <2>2, <2>4
  <2> QED BY <1>3, <2>3, <2>4
<1> QED BY <1>1, <1>2, <1>3, <1>5, <1>6

LEMMA StoredType ==
  ASSUME NEW v \in Nat, NEW s \in Seq(Results)
  PROVE  /\ Stored(v, s) \in ReportType /\ Stored(v, s).results = s
         /\ Stored(v, s).version = v /\ Stored(v, s).summary = getSummary(s)
BY SummaryType DEF Stored, ReportType, Statuses

LEMMA InitIInv == Init => IInv
<1> SUFFICES ASSUME Init PROVE IInv
  OBVIOUS
<1>1. << >> \in Seq(Results) /\ Older \in Seq(Results)
  BY OlderAssumption DEF Results
<1>2. Absent = Stored(0, << >>)
  BY DEF Absent, Stored
<1>3. Absent \in ReportType /\ Stored(1, Older) \in ReportType
      /\ Absent.results = << >> /\ Stored(1, Older).results = Older
      /\ Absent.summary = getSummary(<< >>) /\ Stored(1, Older).summary = getSummary(Older)
  BY <1>1, <1>2, StoredType
<1> DEFINE S == Stored(1, Older)
<1>4. \A r \in Reports : reports[r] = Absent \/ (r = "ns" /\ reports[r] = S)
  BY DEF Init
<1>5. reports \in [Reports -> ReportType] /\ policyr \in [Events -> ReportType]
  BY <1>3 DEF Init
<1>6. TypeOK
  BY <1>5 DEF Init, TypeOK, Reports
<1>7. CopyInv
  BY <1>3 DEF Init, CopyInv, Writing
<1> HIDE DEF S
<1>8. S.results = Older /\ S.summary = getSummary(Older)
  BY <1>3 DEF S
<1>9. StoredInv /\ SummaryMatches
  BY <1>3, <1>4, <1>8, OlderAssumption DEF StoredInv, SummaryMatches
<1>10. RecordedOnce
  BY <1>3, <1>4, <1>8, OlderAssumption DEF RecordedOnce
<1> QED BY <1>6, <1>7, <1>9, <1>10 DEF IInv

(***************************************************************************)
(* Steps                                                                   *)
(***************************************************************************)
\* Create, Update, or a call carried out although its answer was lost.
LEMMA WriteStep ==
  ASSUME IInv, NEW e \in Events, Put(e), Writing(e),
         policyr[e].version = reports[target[e]].version,
         NEW end \in {"ok", "error"}, pc' = [pc EXCEPT ![e] = end],
         UNCHANGED <<nsExists, target, policyr, alive>>, ok' \in Nat, error' \in Nat
  PROVE  IInv'
<1> DEFINE r == target[e]
           old == reports[r].results
           new == policyr[e].results
<1>1. /\ TypeOK /\ CopyInv /\ StoredInv /\ RecordedOnce /\ SummaryMatches
      /\ reports \in [Reports -> ReportType] /\ policyr[e] \in ReportType /\ r \in Reports
      /\ pc \in [Events -> {"start", "get", "create", "reread", "update", "ok", "error", "panic"}]
  BY DEF IInv, TypeOK
<1>2. old \in Seq(Results) /\ new \in Seq(Results) /\ reports[r].version \in Nat
  BY <1>1 DEF ReportType
<1> DEFINE put == [policyr[e] EXCEPT !.version = reports[r].version + 1]
<1>3. /\ put \in ReportType /\ put.results = new /\ put.version = reports[r].version + 1
      /\ put.summary = policyr[e].summary
  <2>1. /\ policyr[e].summary \in [{"fail", "warn", "skip"} -> Nat]
        /\ policyr[e] = [version |-> policyr[e].version, results |-> new,
                         summary |-> policyr[e].summary]
    BY <1>1 DEF ReportType
  <2>2. put = [version |-> reports[r].version + 1, results |-> new,
               summary |-> policyr[e].summary]
    BY <2>1
  <2>3. reports[r].version + 1 \in Nat
    BY <1>2
  <2> HIDE DEF put, new
  <2> QED BY <1>2, <2>1, <2>2, <2>3 DEF ReportType
<1>4. reports' = [reports EXCEPT ![r] = put]
  BY DEF Put
<1> HIDE DEF put
<1>5. /\ reports' \in [Reports -> ReportType] /\ reports'[r] = put
      /\ \A s \in Reports \ {r} : reports'[s] = reports[s]
  BY <1>1, <1>3, <1>4
<1>6. TypeOK'
  BY <1>1, <1>5 DEF TypeOK
<1>7. new = old \/ new = Added(old, e)
  BY <1>1 DEF CopyInv
<1>9. \A s \in Reports : \A i \in DOMAIN reports[s].results : reports[s].results[i] # e
  BY <1>1 DEF StoredInv, Writing
<1>10. \A i \in DOMAIN new : new[i] = e \/ \E j \in DOMAIN old : new[i] = old[j]
  BY <1>2, <1>7, AddedResults
<1>11. \A i, j \in DOMAIN new : new[i] = new[j] => i = j
  <2>1. (\A i, j \in DOMAIN old : old[i] = old[j] => i = j) /\ \A i \in DOMAIN old : old[i] # e
    BY <1>1, <1>9 DEF RecordedOnce
  <2> QED BY <1>2, <1>7, <2>1, AddedResults
<1> HIDE DEF new, old
<1>12. CopyInv'
  <2> SUFFICES ASSUME NEW f \in Events
               PROVE  /\ policyr[f].summary = getSummary(policyr[f].results)
                      /\ Writing(f)' => policyr[f].version <= reports'[target[f]].version
                      /\ Writing(f)' /\ policyr[f].version = reports'[target[f]].version =>
                           \/ policyr[f].results = reports'[target[f]].results
                           \/ policyr[f].results = Added(reports'[target[f]].results, f)
    BY DEF CopyInv
  <2>1. policyr[f].summary = getSummary(policyr[f].results)
    BY <1>1 DEF CopyInv
  <2>2. CASE f = e
    BY <1>1, <2>1, <2>2 DEF Writing
  <2>3. CASE f # e
    <3>1. Writing(f)' = Writing(f) /\ target[f] \in Reports /\ policyr[f].version \in Nat
      BY <1>1, <2>3 DEF Writing, TypeOK, ReportType
    <3>2. CASE target[f] # r
      BY <1>1, <1>5, <2>1, <3>1, <3>2 DEF CopyInv
    <3>3. CASE target[f] = r
      <4>1. reports'[target[f]].version = reports[r].version + 1
        BY <1>3, <1>5, <3>3
      <4>2. Writing(f) => policyr[f].version <= reports[r].version
        BY <1>1, <3>3 DEF CopyInv
      <4> QED BY <1>2, <2>1, <3>1, <4>1, <4>2
    <3> QED BY <3>2, <3>3
  <2> QED BY <2>2, <2>3
<1>13. StoredInv'
  <2> SUFFICES ASSUME NEW s \in Reports, NEW i \in DOMAIN reports'[s].results,
                      reports'[s].results[i] \in Events
               PROVE  pc'[reports'[s].results[i]] \in {"ok", "error"}
    BY DEF StoredInv
  <2>1. CASE s # r
    BY <1>1, <1>5, <2>1 DEF StoredInv
  <2>2. CASE s = r
    <3>1. i \in DOMAIN new /\ reports'[s].results[i] = new[i]
      BY <1>3, <1>5, <2>2
    <3>2. CASE new[i] = e
      BY <1>1, <3>1, <3>2
    <3>3. CASE \E j \in DOMAIN old : new[i] = old[j]
      BY <1>1, <3>1, <3>3 DEF StoredInv, old
    <3> QED BY <1>10, <3>1, <3>2, <3>3
  <2> QED BY <2>1, <2>2
<1>14. RecordedOnce'
  <2> SUFFICES ASSUME NEW s \in Reports, NEW t \in Reports,
                      NEW i \in DOMAIN reports'[s].results, NEW j \in DOMAIN reports'[t].results,
                      reports'[s].results[i] = reports'[t].results[j]
               PROVE  s = t /\ i = j
    BY DEF RecordedOnce
  <2>1. reports'[r].results = new
    BY <1>3, <1>5
  <2>2. CASE s # r /\ t # r
    BY <1>1, <1>5, <2>2 DEF RecordedOnce
  <2>3. CASE s = r /\ t = r
    BY <1>11, <2>1, <2>3
  <2>4. ASSUME NEW q \in Reports \ {r}, NEW k \in DOMAIN reports[q].results, NEW m \in DOMAIN new
        PROVE  new[m] # reports[q].results[k]
    <3>1. reports[q].results[k] # e
      BY <1>9
    <3>2. \A n \in DOMAIN old : old[n] # reports[q].results[k]
      BY <1>1 DEF RecordedOnce, old
    <3> QED BY <1>10, <3>1, <3>2
  <2> QED BY <1>5, <2>1, <2>2, <2>3, <2>4
<1>15. SummaryMatches'
  <2>1. put.summary = getSummary(put.results)
    BY <1>1, <1>3 DEF CopyInv, new
  <2> QED BY <1>1, <1>5, <2>1 DEF SummaryMatches
<1> QED BY <1>6, <1>12, <1>13, <1>14, <1>15 DEF IInv

\* A step of e that writes no report and after which e does not write, or
\* only had its namespace looked up.
LEMMA IdleStep ==
  ASSUME IInv, NEW e \in Events, UNCHANGED <<nsExists, reports, policyr>>,
         NEW to \in {"get", "reread", "error", "panic"}, pc[e] \notin {"ok", "error"},
         pc' = [pc EXCEPT ![e] = to], NEW r \in Reports,
         target' = target \/ (to = "get" /\ target' = [target EXCEPT ![e] = r]),
         alive' \in BOOLEAN, ok' \in Nat, error' \in Nat
  PROVE  IInv'
<1>1. /\ TypeOK /\ CopyInv /\ StoredInv /\ RecordedOnce /\ SummaryMatches
      /\ pc \in [Events -> {"start", "get", "create", "reread", "update", "ok", "error", "panic"}]
      /\ target \in [Events -> Reports]
  BY DEF IInv, TypeOK
<1>2. target' \in [Events -> Reports]
  BY <1>1
<1>3. TypeOK'
  BY <1>1, <1>2 DEF TypeOK
<1>4. ~Writing(e)' /\ \A f \in Events \ {e} : Writing(f)' = Writing(f) /\ target'[f] = target[f]
  BY <1>1 DEF Writing
<1>5. CopyInv'
  BY <1>1, <1>4 DEF CopyInv
<1>6. StoredInv'
  BY <1>1 DEF StoredInv
<1>7. RecordedOnce' /\ SummaryMatches'
  BY <1>1 DEF RecordedOnce, SummaryMatches
<1> QED BY <1>3, <1>5, <1>6, <1>7 DEF IInv

\* Read and Reread: the copy is made anew.
LEMMA CopyStep ==
  ASSUME IInv, NEW e \in Events, pc[e] \in {"get", "reread"},
         NEW to \in {"create", "update"}, pc' = [pc EXCEPT ![e] = to],
         NEW copy \in ReportType, policyr' = [policyr EXCEPT ![e] = copy],
         copy.summary = getSummary(copy.results),
         copy.version = reports[target[e]].version,
         \/ copy.results = reports[target[e]].results
         \/ copy.results = Added(reports[target[e]].results, e),
         UNCHANGED <<nsExists, reports, target, alive, ok, error>>
  PROVE  IInv'
<1>1. /\ TypeOK /\ CopyInv /\ StoredInv /\ RecordedOnce /\ SummaryMatches
      /\ pc \in [Events -> {"start", "get", "create", "reread", "update", "ok", "error", "panic"}]
      /\ policyr \in [Events -> ReportType] /\ target \in [Events -> Reports]
      /\ reports[target[e]].version \in Nat
  BY DEF IInv, TypeOK, ReportType
<1>2. TypeOK'
  BY <1>1 DEF TypeOK
<1>3. policyr'[e] = copy /\ \A f \in Events \ {e} :
        policyr'[f] = policyr[f] /\ Writing(f)' = Writing(f)
  BY <1>1 DEF Writing
<1>4. CopyInv'
  BY <1>1, <1>3 DEF CopyInv
<1>5. StoredInv'
  BY <1>1 DEF StoredInv
<1>6. RecordedOnce' /\ SummaryMatches'
  BY <1>1 DEF RecordedOnce, SummaryMatches
<1> QED BY <1>2, <1>4, <1>5, <1>6 DEF IInv

LEMMA StepIInv == IInv /\ [Next]_vars => IInv'
<1> SUFFICES ASSUME IInv, [Next]_vars PROVE IInv'
  OBVIOUS
<1>1. CASE UNCHANGED vars
  BY <1>1 DEF vars, IInv, TypeOK, CopyInv, Writing, StoredInv, RecordedOnce, SummaryMatches
<1>2. /\ ok \in Nat /\ error \in Nat /\ alive \in BOOLEAN
      /\ \A e \in Events : target[e] \in Reports /\ reports[target[e]] \in ReportType
      /\ SummaryMatches
  BY DEF IInv, TypeOK
<1>3. "ns" \in Reports /\ "default" \in Reports
  BY DEF Reports
<1>4. ASSUME NEW e \in Events, FindNamespace(e) PROVE IInv'
  <2>1. pc[e] = "start" /\ UNCHANGED <<nsExists, reports, policyr, ok, error>>
    BY <1>4 DEF FindNamespace, Goto
  <2>2. \/ pc' = [pc EXCEPT ![e] = "get"] /\ UNCHANGED <<target, alive>>
        \/ /\ pc' = [pc EXCEPT ![e] = "get"] /\ UNCHANGED alive
           /\ target' = [target EXCEPT ![e] = "default"]
        \/ pc' = [pc EXCEPT ![e] = "panic"] /\ UNCHANGED target /\ alive' = FALSE
    BY <1>4 DEF FindNamespace, Goto
  <2> QED BY <1>2, <1>3, <2>1, <2>2, IdleStep
<1>5. ASSUME NEW e \in Events, FindCluster(e) PROVE IInv'
  <2>1. pc[e] = "start" /\ pc' = [pc EXCEPT ![e] = "get"]
        /\ UNCHANGED <<nsExists, reports, target, policyr, alive, ok, error>>
    BY <1>5 DEF FindCluster, Goto
  <2> QED BY <1>2, <1>3, <2>1, IdleStep
<1>12. ASSUME NEW e \in Events, NewResultPanics(e) PROVE IInv'
  <2>1. pc[e] = "start" /\ pc' = [pc EXCEPT ![e] = "panic"] /\ alive' = FALSE
        /\ UNCHANGED <<nsExists, reports, target, policyr, ok, error>>
    BY <1>12 DEF NewResultPanics, Goto
  <2> QED BY <1>2, <1>3, <2>1, IdleStep
<1>6. ASSUME NEW e \in Events, Read(e) PROVE IInv'
  <2> DEFINE r == reports[target[e]]
             s == Trim(Append(r.results, e))
             copy == Stored(r.version, s)
  <2>1. /\ pc[e] = "get" /\ \E to \in {"create", "update"} : pc' = [pc EXCEPT ![e] = to]
        /\ policyr' = [policyr EXCEPT ![e] = copy]
        /\ UNCHANGED <<nsExists, reports, target, alive, ok, error>>
    BY <1>6 DEF Read, Goto
  <2>2. r.results \in Seq(Results) /\ r.version \in Nat
    BY <1>2 DEF ReportType
  <2>3. s = Added(r.results, e)
    BY DEF Added
  <2>4. s \in Seq(Results)
    BY <2>2, <2>3, AddedResults
  <2> HIDE DEF s
  <2>5. copy \in ReportType /\ copy.results = s /\ copy.version = r.version
        /\ copy.summary = getSummary(s)
    BY <2>2, <2>4, StoredType
  <2> HIDE DEF copy
  <2> QED BY <2>1, <2>3, <2>5, CopyStep
<1>7. ASSUME NEW e \in Events, Create(e) \/ Update(e) PROVE IInv'
  <2>1. /\ Writing(e) /\ pc' = [pc EXCEPT ![e] = "ok"] /\ Put(e)
        /\ ok' = ok + 1 /\ error' = error /\ UNCHANGED <<nsExists, target, policyr, alive>>
    BY <1>7 DEF Create, Update, Goto, Writing, CountOk
  <2>2. policyr[e].version = reports[target[e]].version
    <3>1. CASE Create(e)
      <4>1. policyr[e].version \in Nat /\ policyr[e].version <= reports[target[e]].version
            /\ reports[target[e]].version = 0
        BY <2>1, <3>1 DEF Create, IInv, CopyInv, TypeOK, ReportType
      <4> QED BY <4>1
    <3> QED BY <1>7, <3>1 DEF Update
  <2>3. ok' \in Nat /\ error' \in Nat
    BY <1>2, <2>1
  <2> QED BY <2>1, <2>2, <2>3, WriteStep
<1>8. ASSUME NEW e \in Events, CreateConflict(e) PROVE IInv'
  <2>1. pc[e] = "create" /\ pc' = [pc EXCEPT ![e] = "reread"]
        /\ UNCHANGED <<nsExists, reports, target, policyr, alive, ok, error>>
    BY <1>8 DEF CreateConflict, Goto
  <2> QED BY <1>2, <1>3, <2>1, IdleStep
<1>9. ASSUME NEW e \in Events, Reread(e) PROVE IInv'
  <2>1. pc[e] = "reread" /\ UNCHANGED <<nsExists, reports, target, alive>>
    BY <1>9 DEF Reread, Goto
  <2>2. CASE pc' = [pc EXCEPT ![e] = "update"] /\ UNCHANGED <<ok, error>>
             /\ policyr' = [policyr EXCEPT ![e] = reports[target[e]]]
    BY <1>2, <2>1, <2>2, CopyStep DEF SummaryMatches
  <2>3. CASE pc' = [pc EXCEPT ![e] = "error"] /\ error' = error + 1 /\ UNCHANGED <<ok, policyr>>
    <3>1. ok' \in Nat /\ error' \in Nat /\ alive' \in BOOLEAN
      BY <1>2, <2>1, <2>3
    <3> QED BY <1>3, <2>1, <2>3, <3>1, IdleStep
  <2> QED BY <1>9, <2>2, <2>3 DEF Reread, Goto, CountError
<1>10. ASSUME NEW e \in Events, UpdateConflict(e) PROVE IInv'
  <2>1. pc[e] = "update" /\ pc' = [pc EXCEPT ![e] = "error"] /\ error' = error + 1
        /\ UNCHANGED <<nsExists, reports, target, policyr, alive, ok>>
    BY <1>10 DEF UpdateConflict, Goto, CountError
  <2>2. ok' \in Nat /\ error' \in Nat /\ alive' \in BOOLEAN
    BY <1>2, <2>1
  <2> QED BY <1>3, <2>1, <2>2, IdleStep
<1>11. ASSUME NEW e \in Events, CallFails(e) PROVE IInv'
  <2>1. /\ pc[e] \in {"get", "create", "reread", "update"} /\ pc' = [pc EXCEPT ![e] = "error"]
        /\ error' = error + 1 /\ UNCHANGED <<nsExists, target, policyr, alive, ok>>
    BY <1>11 DEF CallFails, Goto, CountError
  <2>2. ok' \in Nat /\ error' \in Nat /\ alive' \in BOOLEAN
    BY <1>2, <2>1
  <2>3. CASE UNCHANGED reports
    BY <1>3, <2>1, <2>2, <2>3, IdleStep
  <2>4. CASE Writing(e) /\ policyr[e].version = reports[target[e]].version /\ Put(e)
    BY <2>1, <2>2, <2>4, WriteStep
  <2> QED BY <1>11, <2>3, <2>4 DEF CallFails, Writing
<1> QED BY <1>1, <1>4, <1>5, <1>6, <1>7, <1>8, <1>9, <1>10, <1>11, <1>12 DEF Next, Step

LEMMA AlwaysIInv == Spec => []IInv
BY InitIInv, StepIInv, PTL DEF Spec

(***************************************************************************)
(* Theorems                                                                *)
(***************************************************************************)
\* Type correctness of the reports and their copies.
THEOREM ReportTypeCorrect == Spec => []TypeOK
BY AlwaysIInv, PTL DEF IInv

\* No result is stored twice, whatever conflicts, and calls that lose their
\* answer, the createOrUpdate functions meet.
THEOREM AlwaysRecordedOnce == Spec => []RecordedOnce
BY AlwaysIInv, PTL DEF IInv

\* The stored summary is that of the stored results.
THEOREM SummaryAlwaysMatches == Spec => []SummaryMatches
BY AlwaysIInv, PTL DEF IInv

\* Reports and copies fit.
FitInv ==
  /\ \A r \in Reports : Len(reports[r].results) <= MaxEvents
  /\ \A e \in Events : Len(policyr[e].results) <= MaxEvents

LEMMA StepFits ==
  ASSUME IInv, FitInv, [Next]_vars
  PROVE  FitInv' /\ \A r \in Reports : Len(reports'[r].results) <= MaxEvents
<1>1. /\ reports \in [Reports -> ReportType] /\ policyr \in [Events -> ReportType]
      /\ target \in [Events -> Reports] /\ MaxEvents \in Nat
  BY ReportAssumption DEF IInv, TypeOK
<1>2. CASE UNCHANGED <<reports, policyr>>
  BY <1>2 DEF FitInv
<1>3. ASSUME NEW e \in Events, Put(e), UNCHANGED policyr PROVE FitInv'
  <2>1. /\ \A r \in Reports \ {target[e]} : reports'[r] = reports[r]
        /\ reports'[target[e]].results = policyr[e].results
    BY <1>1, <1>3 DEF Put, ReportType
  <2> QED BY <1>3, <2>1 DEF FitInv
<1>4. ASSUME NEW e \in Events, NEW copy, policyr' = [policyr EXCEPT ![e] = copy],
             Len(copy.results) <= MaxEvents, UNCHANGED reports
      PROVE  FitInv'
  BY <1>1, <1>4 DEF FitInv
<1>5. ASSUME NEW e \in Events, Read(e) PROVE FitInv'
  <2> DEFINE old == reports[target[e]].results
             copy == Stored(reports[target[e]].version, Trim(Append(old, e)))
  <2>1. old \in Seq(Results) /\ Len(old) <= MaxEvents /\ e \in Results
    BY <1>1 DEF ReportType, FitInv, Results
  <2>2. Len(Trim(Append(old, e))) <= MaxEvents
    <3> HIDE DEF old
    <3> DEFINE a == Append(old, e)
    <3>1. a \in Seq(Results) /\ Len(a) = Len(old) + 1 /\ Len(old) \in Nat
      BY <2>1
    <3> HIDE DEF a
    <3>2. a # << >> => Len(Tail(a)) = Len(old)
      BY <3>1
    <3> QED BY <1>1, <2>1, <3>1, <3>2 DEF Trim
  <2>3. copy.results = Trim(Append(old, e))
    BY DEF Stored
  <2>4. policyr' = [policyr EXCEPT ![e] = copy] /\ UNCHANGED reports
    BY <1>5 DEF Read
  <2> HIDE DEF copy, old
  <2> QED BY <1>4, <2>2, <2>3, <2>4
<1>6. ASSUME NEW e \in Events, Reread(e) PROVE FitInv'
  <2>1. Len(reports[target[e]].results) <= MaxEvents
    BY <1>1 DEF FitInv
  <2>2. UNCHANGED reports /\ (UNCHANGED policyr \/
          policyr' = [policyr EXCEPT ![e] = reports[target[e]]])
    BY <1>6 DEF Reread
  <2> QED BY <1>2, <1>4, <2>1, <2>2
<1>7. ASSUME NEW e \in Events, Create(e) \/ Update(e) \/ CallFails(e) PROVE FitInv'
  <2>1. UNCHANGED policyr /\ (UNCHANGED reports \/ Put(e))
    BY <1>7 DEF Create, Update, CallFails
  <2> QED BY <1>2, <1>3, <2>1
<1>8. ASSUME NEW e \in Events, FindNamespace(e) \/ FindCluster(e) \/ CreateConflict(e)
                                 \/ UpdateConflict(e) \/ NewResultPanics(e)
      PROVE  FitInv'
  BY <1>2, <1>8 DEF NewResultPanics, FindNamespace, FindCluster, CreateConflict, UpdateConflict
<1>9. FitInv'
  BY <1>2, <1>5, <1>6, <1>7, <1>8 DEF Next, Step, vars
<1> QED BY <1>9 DEF FitInv

\* A report that starts within MaxEvents stays within it: one result is
\* dropped per write, and one is added.
THEOREM ReportsStayBounded == Len(Older) <= MaxEvents /\ Spec => ReportBounded
<1> SUFFICES ASSUME Len(Older) <= MaxEvents PROVE Spec => ReportBounded
  OBVIOUS
<1>1. Init => FitInv
  <2>1. /\ Absent.results = << >> /\ Stored(1, Older).results = Older /\ Len(<< >>) = 0
    BY DEF Absent, Stored
  <2> QED BY <2>1, ReportAssumption DEF Init, FitInv
<1>2. IInv /\ FitInv /\ [Next]_vars => FitInv'
  BY StepFits
<1>3. IInv /\ FitInv /\ [Next]_vars =>
        [\A r \in Reports :
           reports'[r] # reports[r] => Len(reports'[r].results) <= MaxEvents]_vars
  BY StepFits
<1> QED BY <1>1, <1>2, <1>3, AlwaysIInv, PTL DEF Spec, ReportBounded

(***************************************************************************)
(* What is said to be recorded                                             *)
(***************************************************************************)
\* The three things a step of f can be, for what is recorded.
OfOthers(f) == \A g \in Events \ {f} : UNCHANGED <<pc[g], policyr[g], target[g]>>

Idle(f) ==
  /\ UNCHANGED <<reports, policyr>> /\ OfOthers(f)
  /\ pc[f] \notin {"ok", "error"} /\ pc'[f] \notin {"create", "update", "ok"}

Copies(f) ==
  LET old == reports[target[f]] IN
  /\ UNCHANGED <<reports, target>> /\ OfOthers(f)
  /\ pc'[f] \in {"create", "update"}
  /\ policyr'[f].version = old.version
  /\ \/ pc[f] = "get" /\ policyr'[f].results = Trim(Append(old.results, f))
     \/ pc[f] = "reread" /\ policyr'[f].results = old.results

Writes(f) ==
  /\ Writing(f) /\ policyr[f].version = reports[target[f]].version
  /\ UNCHANGED <<target, policyr>> /\ OfOthers(f)
  /\ pc'[f] \in {"ok", "error"}
  /\ \A r \in Reports \ {target[f]} : reports'[r] = reports[r]
  /\ reports'[target[f]].results = policyr[f].results
  /\ reports'[target[f]].version = reports[target[f]].version + 1

LEMMA StepIsOne ==
  ASSUME IInv, Next
  PROVE  \E f \in Events : Idle(f) \/ Copies(f) \/ Writes(f)
<1>1. /\ reports \in [Reports -> ReportType] /\ policyr \in [Events -> ReportType]
      /\ target \in [Events -> Reports] /\ CopyInv
      /\ pc \in [Events -> {"start", "get", "create", "reread", "update", "ok", "error", "panic"}]
  BY DEF IInv, TypeOK
<1>2. PICK f \in Events : Step(f)
  BY DEF Next
<1>3. reports[target[f]] \in ReportType /\ reports[target[f]].version \in Nat
      /\ reports[target[f]].results \in Seq(Results) /\ policyr[f].version \in Nat
  BY <1>1 DEF ReportType
<1>4. CASE NewResultPanics(f) \/ FindNamespace(f) \/ FindCluster(f)
  <2>1. /\ pc[f] = "start" /\ UNCHANGED <<reports, policyr>>
        /\ pc' = [pc EXCEPT ![f] = "get"] \/ pc' = [pc EXCEPT ![f] = "panic"]
        /\ target' = target \/ target' = [target EXCEPT ![f] = "default"]
    BY <1>4 DEF NewResultPanics, FindNamespace, FindCluster, Goto
  <2> QED BY <1>1, <2>1 DEF Idle, OfOthers
<1>5. CASE CreateConflict(f) \/ UpdateConflict(f)
  BY <1>1, <1>5 DEF CreateConflict, UpdateConflict, Goto, Idle, OfOthers
<1>6. CASE Read(f)
  <2> DEFINE copy == Stored(reports[target[f]].version, Trim(Append(reports[target[f]].results, f)))
  <2>1. /\ copy.version = reports[target[f]].version
        /\ copy.results = Trim(Append(reports[target[f]].results, f))
    BY DEF Stored
  <2>2. policyr' = [policyr EXCEPT ![f] = copy] /\ UNCHANGED <<reports, target>>
        /\ pc[f] = "get" /\ (pc' = [pc EXCEPT ![f] = "create"] \/ pc' = [pc EXCEPT ![f] = "update"])
    BY <1>6 DEF Read, Goto
  <2> HIDE DEF copy
  <2> QED BY <1>1, <2>1, <2>2 DEF Copies, OfOthers
<1>7. CASE Reread(f)
  <2>1. CASE target[f] # "cluster"
    BY <1>1, <1>7, <2>1 DEF Reread, Goto, Copies, OfOthers
  <2>2. CASE target[f] = "cluster"
    BY <1>1, <1>7, <2>2 DEF Reread, Goto, Idle, OfOthers
  <2> QED BY <2>1, <2>2
<1>8. ASSUME Put(f), Writing(f), policyr[f].version = reports[target[f]].version,
             UNCHANGED <<target, policyr>>,
             pc' = [pc EXCEPT ![f] = "ok"] \/ pc' = [pc EXCEPT ![f] = "error"]
      PROVE  Writes(f)
  <2> DEFINE put == [policyr[f] EXCEPT !.version = reports[target[f]].version + 1]
  <2>1. put.results = policyr[f].results /\ put.version = reports[target[f]].version + 1
    BY <1>1 DEF ReportType
  <2>2. reports' = [reports EXCEPT ![target[f]] = put]
    BY <1>8 DEF Put
  <2> HIDE DEF put
  <2>3. /\ reports'[target[f]].results = policyr[f].results
        /\ reports'[target[f]].version = reports[target[f]].version + 1
        /\ \A r \in Reports \ {target[f]} : reports'[r] = reports[r]
    BY <1>1, <2>1, <2>2
  <2> QED BY <1>1, <1>8, <2>3 DEF Writes, OfOthers
<1>9. CASE Create(f)
  <2>1. Writing(f) /\ policyr[f].version = reports[target[f]].version
    BY <1>1, <1>3, <1>9 DEF Create, Goto, CopyInv, Writing
  <2> QED BY <1>8, <1>9, <2>1 DEF Create, Goto
<1>10. CASE Update(f)
  BY <1>8, <1>10 DEF Update, Goto, Writing
<1>11. CASE CallFails(f)
  <2>1. /\ pc[f] \in {"get", "create", "reread", "update"} /\ pc' = [pc EXCEPT ![f] = "error"]
        /\ UNCHANGED <<target, policyr>>
    BY <1>11 DEF CallFails, Goto
  <2>2. CASE UNCHANGED reports
    BY <1>1, <2>1, <2>2 DEF Idle, OfOthers
  <2>3. CASE Put(f) /\ Writing(f) /\ policyr[f].version = reports[target[f]].version
    BY <1>8, <2>1, <2>3
  <2> QED BY <1>11, <2>2, <2>3 DEF CallFails, Writing
<1> QED BY <1>2, <1>4, <1>5, <1>6, <1>7, <1>9, <1>10, <1>11 DEF Step

(***************************************************************************)
(* The log                                                                 *)
(***************************************************************************)
contents == [r \in Reports |-> reports[r].results]
finished == {e \in Events : pc[e] \in {"ok", "error"}}

\* policyreport.go:214-345 implements ReportLog: a write carried out is AddTo,
\* or AddNothing after the detour by "already exists", giving up is
\* AddNothing, and reading, looking up and panicking are stutters.  The
\* versions of the API server keep a read-modify-write one step.
THEOREM WritesAreAtomic == Spec => ImplementsLog
<1>1. Init => Log!LogInit
  <2> SUFFICES ASSUME Init PROVE Log!LogInit
    OBVIOUS
  <2>1. IInv /\ finished = {}
    BY InitIInv DEF Init, finished
  <2>2. \A r \in Reports : \A i \in DOMAIN contents[r] : contents[r][i] \notin Events
    BY <2>1 DEF IInv, StoredInv, contents, finished
  <2> QED BY <2>1, <2>2 DEF Log!LogInit, contents, finished
<1>2. IInv /\ [Next]_vars => [Log!LogNext]_(Log!logVars)
  <2> SUFFICES ASSUME IInv, [Next]_vars
               PROVE  Log!LogNext \/ UNCHANGED <<contents, finished>>
    BY DEF Log!logVars, contents, finished
  <2>1. reports \in [Reports -> ReportType] /\ target \in [Events -> Reports] /\ CopyInv
    BY DEF IInv, TypeOK
  <2>2. CASE UNCHANGED vars
    BY <2>2 DEF vars, contents, finished
  <2>3. ASSUME NEW f \in Events, Idle(f)
        PROVE  Log!AddNothing(f) \/ UNCHANGED <<contents, finished>>
    <3>1. UNCHANGED contents /\ f \notin finished
          /\ (finished' = finished \/ finished' = finished \union {f})
      BY <2>3 DEF Idle, OfOthers, contents, finished
    <3> QED BY <3>1 DEF Log!AddNothing, Log!Finish, contents, finished
  <2>4. ASSUME NEW f \in Events, Copies(f) PROVE UNCHANGED <<contents, finished>>
    BY <2>4 DEF Copies, OfOthers, contents, finished
  <2>5. ASSUME NEW f \in Events, Writes(f)
        PROVE  Log!AddNothing(f) \/ \E r \in Reports : Log!AddTo(f, r)
    <3> PICK r \in Reports : r = target[f]
      BY <2>1
    <3> DEFINE old == reports[r].results
    <3>1. f \notin finished /\ finished' = finished \union {f}
      BY <2>5 DEF Writes, Writing, OfOthers, finished
    <3>2. policyr[f].results = old \/ policyr[f].results = Added(old, f)
      BY <2>1, <2>5 DEF Writes, CopyInv
    <3>3. contents' = [contents EXCEPT ![r] = policyr[f].results] /\ contents[r] = old
      BY <2>1, <2>5 DEF Writes, contents
    <3> HIDE DEF old
    <3>4. CASE policyr[f].results = old
      <4>1. UNCHANGED contents
        BY <3>3, <3>4 DEF contents
      <4> QED BY <3>1, <4>1 DEF Log!AddNothing, Log!Finish, contents, finished
    <3>5. CASE policyr[f].results = Added(old, f)
      <4>1. contents' = [contents EXCEPT ![r] = Log!MakeRoom(Append(contents[r], f))]
        BY <3>3, <3>5 DEF Added, Trim, Log!MakeRoom
      <4> QED BY <3>1, <4>1 DEF Log!AddTo, Log!Finish, contents, finished
    <3> QED BY <3>2, <3>4, <3>5
  <2>6. CASE Next
    <3>1. PICK f \in Events : Idle(f) \/ Copies(f) \/ Writes(f)
      BY <2>6, StepIsOne
    <3>2. DOMAIN contents = Reports
      BY DEF contents
    <3> QED BY <2>3, <2>4, <2>5, <3>1, <3>2 DEF Log!LogNext, contents
  <2> QED BY <2>2, <2>6 DEF vars
<1> QED BY <1>1, <1>2, AlwaysIInv, PTL DEF Spec, ImplementsLog, Log!LogSpec

\* The reports have room for every event and every older result.
Roomy == IsFiniteSet(Events) /\ MaxEvents >= Cardinality(Events) + Len(Older)

LEMMA UpTo ==
  ASSUME NEW n \in Nat PROVE IsFiniteSet(1..n) /\ Cardinality(1..n) = n
BY FS_Interval

\* A sequence that repeats nothing is no longer than its set is large.
LEMMA NoRepetition ==
  ASSUME NEW n \in Nat, NEW T, IsFiniteSet(T), NEW s \in [1..n -> T],
         \A i, j \in 1..n : s[i] = s[j] => i = j
  PROVE  n <= Cardinality(T)
<1>1. IsFiniteSet(1..n) /\ Cardinality(1..n) = n /\ Cardinality(T) \in Nat
  BY UpTo, FS_CardinalityType
<1>2. SUFFICES ASSUME Cardinality(T) < n PROVE FALSE
  BY <1>1
<1> DEFINE S == 1..n
<1>3. IsFiniteSet(S) /\ Cardinality(T) < Cardinality(S) /\ s \in [S -> T]
  BY <1>1, <1>2
<1> HIDE DEF S
<1>4. \E x, y \in S : x # y /\ s[x] = s[y]
  BY <1>3, FS_PigeonHole
<1> QED BY <1>4 DEF S

\* Results are those of different events: the one of an event that has not
\* written still fits.
LEMMA OneFits ==
  ASSUME Roomy, IInv, NEW r \in Reports, NEW e \in Events, pc[e] \notin {"ok", "error"}
  PROVE  Len(reports[r].results) + 1 <= MaxEvents
<1> DEFINE s == reports[r].results
           n == Len(s)
           old == {Older[i] : i \in DOMAIN Older}
           others == Results \ {e}
<1>1. s \in Seq(Results) /\ MaxEvents \in Nat
  BY ReportAssumption DEF IInv, TypeOK, ReportType
<1>2. n \in Nat /\ DOMAIN s = 1..n /\ s \in [1..n -> Results]
  BY <1>1
<1>3. \A i \in 1..n : s[i] # e
  BY <1>2 DEF IInv, StoredInv
<1>4. \A i, j \in 1..n : s[i] = s[j] => i = j
  BY <1>2 DEF IInv, RecordedOnce
<1>5. IsFiniteSet(old) /\ Cardinality(old) <= Len(Older) /\ Len(Older) \in Nat
  <2>1. Len(Older) \in Nat /\ DOMAIN Older = 1..Len(Older) /\ Older \in [1..Len(Older) -> old]
    BY OlderAssumption
  <2>2. Older \in Surjection(1..Len(Older), old)
    BY <2>1 DEF Surjection
  <2>3. IsFiniteSet(1..Len(Older)) /\ Cardinality(1..Len(Older)) = Len(Older)
    BY <2>1, UpTo
  <2> QED BY <2>1, <2>2, <2>3, FS_Surjection
<1>6. IsFiniteSet(others) /\ Cardinality(others) \in Nat
      /\ Cardinality(others) + 1 <= Cardinality(Events) + Len(Older) /\ Cardinality(Events) \in Nat
  <2>1. IsFiniteSet(Events) /\ Cardinality(Events) \in Nat /\ Cardinality(old) \in Nat
    BY <1>5, FS_CardinalityType DEF Roomy
  <2>2. IsFiniteSet(Results) /\ Cardinality(Results)
          = Cardinality(Events) + Cardinality(old) - Cardinality(Events \intersect old)
    BY <1>5, <2>1, FS_Union DEF Results
  <2>3. Cardinality(Events \intersect old) \in Nat
    BY <2>1, FS_Intersection, FS_CardinalityType
  <2>4. IsFiniteSet(others) /\ Cardinality(others) = Cardinality(Results) - 1
    BY <2>2, FS_RemoveElement DEF Results
  <2>5. Cardinality(others) \in Nat
    BY <2>4, FS_CardinalityType
  <2> QED BY <1>5, <2>1, <2>2, <2>3, <2>4, <2>5
<1>7. n <= Cardinality(others)
  <2>1. s \in [1..n -> others]
    BY <1>2, <1>3
  <2> HIDE DEF s, n, others
  <2> QED BY <1>2, <1>4, <1>6, <2>1, NoRepetition
<1> QED BY <1>1, <1>2, <1>6, <1>7 DEF Roomy

\* Without "already exists", what e writes ends with its own result.
OwnInv(e) ==
  /\ pc[e] # "reread"
  /\ Writing(e) /\ policyr[e].version = reports[target[e]].version =>
       policyr[e].results = Append(reports[target[e]].results, e)
  /\ pc[e] = "ok" => Recorded(e)

LEMMA NoDetour ==
  ASSUME IInv, Next, NEW e \in Events, ~CreateConflict(e), pc[e] # "reread"
  PROVE  pc'[e] # "reread"
<1>1. pc \in [Events -> {"start", "get", "create", "reread", "update", "ok", "error", "panic"}]
  BY DEF IInv, TypeOK
<1>2. PICK f \in Events : Step(f)
  BY DEF Next
<1>3. CASE f # e
  BY <1>1, <1>2, <1>3 DEF Step, NewResultPanics, FindNamespace, FindCluster, Read, Create,
                          CreateConflict, Reread, Update, UpdateConflict, CallFails, Goto
<1>4. CASE f = e
  BY <1>1, <1>2, <1>4 DEF Step, NewResultPanics, FindNamespace, FindCluster, Read, Create, Reread,
                          Update, UpdateConflict, CallFails, Goto
<1> QED BY <1>3, <1>4

LEMMA AddedFits ==
  ASSUME Roomy, IInv, NEW r \in Reports, NEW e \in Events, pc[e] \notin {"ok", "error"}
  PROVE  Added(reports[r].results, e) = Append(reports[r].results, e)
<1> DEFINE old == reports[r].results
<1>1. Len(old) + 1 <= MaxEvents
  BY OneFits
<1>2. old \in Seq(Results) /\ e \in Results /\ MaxEvents \in Nat
  BY ReportAssumption DEF IInv, TypeOK, ReportType, Results
<1> HIDE DEF old
<1>3. Len(Append(old, e)) = Len(old) + 1 /\ Len(old) \in Nat
  BY <1>2
<1> QED BY <1>1, <1>2, <1>3 DEF Added, Trim, old

LEMMA AppendKeeps ==
  ASSUME NEW s \in Seq(Results), NEW x \in Results
  PROVE  /\ DOMAIN s \subseteq DOMAIN Append(s, x) /\ Append(s, x)[Len(s) + 1] = x
         /\ \A i \in DOMAIN s : Append(s, x)[i] = s[i]
         /\ Len(s) + 1 \in DOMAIN Append(s, x)
<1> DEFINE a == Append(s, x)
<1>1. /\ Len(s) \in Nat /\ DOMAIN s = 1..Len(s) /\ DOMAIN a = 1..(Len(s) + 1)
      /\ \A i \in 1..Len(s) : a[i] = s[i]
      /\ a[Len(s) + 1] = x
  OBVIOUS
<1> HIDE DEF a
<1>2. DOMAIN s \subseteq DOMAIN a /\ Len(s) + 1 \in DOMAIN a
  BY <1>1
<1> QED BY <1>1, <1>2 DEF a

LEMMA StepKeepsOwn ==
  ASSUME Roomy, IInv, Next, NEW e \in Events, OwnInv(e), ~CreateConflict(e)
  PROVE  OwnInv(e)'
<1>1. /\ reports \in [Reports -> ReportType] /\ policyr \in [Events -> ReportType]
      /\ target \in [Events -> Reports] /\ CopyInv /\ MaxEvents \in Nat
  BY ReportAssumption DEF IInv, TypeOK
<1>2. pc'[e] # "reread"
  BY NoDetour DEF OwnInv
<1>3. ASSUME NEW f \in Events, Idle(f) PROVE OwnInv(e)'
  BY <1>2, <1>3 DEF Idle, OfOthers, OwnInv, Recorded, Writing
<1>4. ASSUME NEW f \in Events, Copies(f) PROVE OwnInv(e)'
  <2>1. CASE f # e
    BY <1>2, <1>4, <2>1 DEF Copies, OfOthers, OwnInv, Recorded, Writing
  <2>2. CASE f = e
    <3>1. pc[e] = "get"
      BY <1>4, <2>2 DEF Copies, OwnInv
    <3>2. Added(reports[target[e]].results, e) = Append(reports[target[e]].results, e)
      BY <1>1, <3>1, AddedFits
    <3> QED BY <1>2, <1>4, <2>2, <3>1, <3>2 DEF Copies, Added, OwnInv
  <2> QED BY <2>1, <2>2
<1>5. ASSUME NEW f \in Events, Writes(f) PROVE OwnInv(e)'
  <2> DEFINE old == reports[target[f]].results
             new == reports'[target[f]].results
  <2>1. old \in Seq(Results) /\ f \in Results /\ new \in {old, Append(old, f)}
    <3>1. Added(old, f) = Append(old, f)
      BY <1>1, <1>5, AddedFits DEF Writes, Writing
    <3> QED BY <1>1, <1>5, <3>1 DEF ReportType, Results, Writes, CopyInv
  <2>2. /\ DOMAIN old \subseteq DOMAIN Append(old, f) /\ Append(old, f)[Len(old) + 1] = f
        /\ \A i \in DOMAIN old : Append(old, f)[i] = old[i]
        /\ Len(old) + 1 \in DOMAIN Append(old, f)
    BY <2>1, AppendKeeps
  <2> HIDE DEF old, new
  <2>3. DOMAIN old \subseteq DOMAIN new /\ \A i \in DOMAIN old : new[i] = old[i]
    BY <2>1, <2>2
  <2>4. Recorded(e) => Recorded(e)'
    BY <1>1, <1>5, <2>3 DEF Writes, Recorded, old, new
  <2>5. CASE f = e
    <3>1. new = Append(old, e)
      BY <1>5, <2>5 DEF Writes, OwnInv, old, new
    <3>2. Recorded(e)'
      BY <1>1, <1>5, <2>2, <2>5, <3>1 DEF Recorded, Writes, new
    <3> QED BY <1>2, <1>5, <2>5, <3>2 DEF Writes, OwnInv, Writing
  <2>6. CASE f # e
    <3>1. UNCHANGED <<pc[e], policyr[e], target>>
      BY <1>5, <2>6 DEF Writes, OfOthers
    <3>2. Writing(e) /\ policyr[e].version = reports'[target[e]].version
            => reports'[target[e]] = reports[target[e]]
      <4>1. CASE target[e] # target[f]
        BY <1>1, <1>5, <4>1 DEF Writes
      <4>2. CASE target[e] = target[f] /\ Writing(e)
        <5>1. policyr[e].version <= reports[target[f]].version
          BY <1>1, <4>2 DEF CopyInv
        <5>2. policyr[e].version \in Nat /\ reports[target[f]].version \in Nat
          BY <1>1 DEF ReportType
        <5> QED BY <1>5, <4>2, <5>1, <5>2 DEF Writes
      <4> QED BY <4>1, <4>2
    <3> QED BY <1>2, <2>4, <3>1, <3>2 DEF OwnInv, Writing
  <2> QED BY <2>5, <2>6
<1> QED BY <1>3, <1>4, <1>5, StepIsOne

\* Where there is room for every result, an event reported ok is in a report
\* for as long as the process runs, unless its own create met "already
\* exists": the detour, where the report is read again and nothing is
\* appended, is the only way to lose a result that was reported ok.
THEOREM OkIsThere ==
  ASSUME NEW e \in Events, Roomy
  PROVE  Spec /\ [][~CreateConflict(e)]_vars => [](pc[e] = "ok" => Recorded(e))
<1>1. Init => OwnInv(e)
  BY DEF Init, OwnInv, Writing
<1>2. IInv /\ OwnInv(e) /\ [Next]_vars /\ [~CreateConflict(e)]_vars => OwnInv(e)'
  <2> SUFFICES ASSUME IInv, OwnInv(e), [Next]_vars, [~CreateConflict(e)]_vars
               PROVE  OwnInv(e)'
    OBVIOUS
  <2>1. CASE UNCHANGED vars
    BY <2>1 DEF vars, OwnInv, Writing, Recorded
  <2>2. CASE Next /\ ~CreateConflict(e)
    BY <2>2, StepKeepsOwn
  <2> QED BY <2>1, <2>2
<1>3. OwnInv(e) => (pc[e] = "ok" => Recorded(e))
  BY DEF OwnInv
<1> QED BY <1>1, <1>2, <1>3, AlwaysIInv, PTL DEF Spec
=============================================================================
