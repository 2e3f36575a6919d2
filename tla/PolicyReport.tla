---------------------------- MODULE PolicyReport ----------------------------
(***************************************************************************)
(* outputs/policyreport.go: each event's goroutine reads the report of its *)
(* namespace (or the cluster report), appends its result, trims the report *)
(* and writes it back.  The API server (external) is the only              *)
(* synchronisation: an update carries the version that was read and is     *)
(* refused if the report has changed since.                                *)
(*                                                                         *)
(* A result is named by its event; Priority[e] decides its status.         *)
(***************************************************************************)
EXTENDS Integers, Sequences, FiniteSets

CONSTANTS
  Events,        \* the events, one goroutine each
  Clusterwide,   \* events without a namespace: they go to the cluster report
  WithSubjects,  \* events getSubjects finds a resource name and kind for
  Unchecked,     \* events of which it looks at ka.resp.name, not always a string
  Priority,      \* priority of each event, 1 (Debug) to 8 (Emergency)
  MaxEvents,     \* config.PolicyReport.MaxEvents
  Older,         \* results of earlier runs in the report of "ns", in order
  ServerFails    \* a call may fail for a reason of the server's or network's

ASSUME ReportAssumption ==
  /\ Clusterwide \subseteq Events
  /\ WithSubjects \subseteq Events
  /\ Unchecked \subseteq Events
  /\ \A e \in Events : Priority[e] \in 1..8
  /\ MaxEvents \in Nat
  /\ ServerFails \in BOOLEAN

\* What was reported before was reported once.
ASSUME OlderAssumption ==
  /\ Older \in Seq({Older[i] : i \in DOMAIN Older})
  /\ \A i, j \in DOMAIN Older : Older[i] = Older[j] => i = j
  /\ \A i \in DOMAIN Older : Older[i] \notin Events

\* The reports the events may end in: that of their namespace, that of
\* defaultNamespace if theirs does not exist, the cluster report.
Reports == {"ns", "default", "cluster"}

VARIABLES
  nsExists,   \* the events' namespace exists
  reports,    \* the reports in the API server; version 0: no such report
  pc,         \* position of each event's goroutine
  target,     \* the report an event goes to
  policyr,    \* the goroutine's copy of the report
  alive,      \* the process runs
  ok, error   \* c.Stats.PolicyReport

vars == <<nsExists, reports, pc, target, policyr, alive, ok, error>>

notice == 3
warning == 4

mapResult(e) ==
  IF Priority[e] <= notice THEN "skip"
  ELSE IF Priority[e] = warning THEN "warn" ELSE "fail"

\* The results of earlier runs are all of priority Notice or lower.
StatusOf(r) == IF r \in Events THEN mapResult(r) ELSE "skip"

getSummary(results) ==
  [s \in {"fail", "warn", "skip"} |->
     Cardinality({i \in DOMAIN results : StatusOf(results[i]) = s})]

Absent == [version |-> 0, results |-> << >>, summary |-> getSummary(<< >>)]

Stored(version, results) ==
  [version |-> version, results |-> results, summary |-> getSummary(results)]

Init ==
  /\ nsExists \in BOOLEAN
  /\ reports = [r \in Reports |->
       IF r = "ns" /\ nsExists /\ Older # << >> THEN Stored(1, Older) ELSE Absent]
  /\ pc = [e \in Events |-> "start"]
  /\ target = [e \in Events |-> IF e \in Clusterwide THEN "cluster" ELSE "ns"]
  /\ policyr = [e \in Events |-> Absent]
  /\ alive = TRUE
  /\ ok = 0
  /\ error = 0

Goto(e, from, to) ==
  /\ alive
  /\ pc[e] = from
  /\ pc' = [pc EXCEPT ![e] = to]

CountError == error' = error + 1 /\ UNCHANGED ok

CountOk == ok' = ok + 1 /\ UNCHANGED error

(***************************************************************************)
(* UpdateOrCreatePolicyReport                                              *)
(***************************************************************************)
\* getResourceNameKind asserts that ka.resp.name is a string where the event
\* names no pod and no target, only its resource.  The value is the event's.
NewResultPanics(e) ==
  /\ e \in Unchecked
  /\ Goto(e, "start", "panic")
  /\ alive' = FALSE
  /\ UNCHANGED <<nsExists, reports, target, policyr, ok, error>>

\* Only a namespace that is not found matters, other errors are ignored.
\* The fallback writes to the first subject of the result: without one it
\* is an index out of range in a goroutine nobody recovers.
FindNamespace(e) ==
  /\ e \notin Clusterwide
  /\ \/ /\ nsExists \/ ServerFails
        /\ Goto(e, "start", "get")
        /\ UNCHANGED <<target, alive>>
     \/ /\ ~nsExists
        /\ e \in WithSubjects
        /\ Goto(e, "start", "get")
        /\ target' = [target EXCEPT ![e] = "default"]
        /\ UNCHANGED alive
     \/ /\ ~nsExists
        /\ e \notin WithSubjects
        /\ Goto(e, "start", "panic")
        /\ alive' = FALSE
        /\ UNCHANGED target
  /\ UNCHANGED <<nsExists, reports, policyr, ok, error>>

FindCluster(e) ==
  /\ e \in Clusterwide
  /\ Goto(e, "start", "get")
  /\ UNCHANGED <<nsExists, reports, target, policyr, alive, ok, error>>

\* Mutant: a report may be one result too long.
MutantTrim(results) ==
  IF Len(results) > MaxEvents + 1 THEN Tail(results) ELSE results

Trim(results) == IF Len(results) > MaxEvents THEN Tail(results) ELSE results

\* Mutant: the report is summarized before it is trimmed.
MutantRead(e) ==
  LET r == reports[target[e]]
      appended == Append(r.results, e)
  IN /\ Goto(e, "get", IF r.version = 0 THEN "create" ELSE "update")
     /\ policyr' = [policyr EXCEPT ![e] = [version |-> r.version,
          results |-> Trim(appended), summary |-> getSummary(appended)]]
     /\ UNCHANGED <<nsExists, reports, target, alive, ok, error>>

\* Get, append, trim, summarize; a report that is not found is made anew.
Read(e) ==
  LET r == reports[target[e]] IN
  /\ Goto(e, "get", IF r.version = 0 THEN "create" ELSE "update")
  /\ policyr' = [policyr EXCEPT ![e] =
                   Stored(r.version, Trim(Append(r.results, e)))]
  /\ UNCHANGED <<nsExists, reports, target, alive, ok, error>>

\* What the API server keeps of a report that is created or updated.
Put(e) ==
  reports' = [reports EXCEPT ![target[e]] =
                [policyr[e] EXCEPT !.version = reports[target[e]].version + 1]]

InNamespace(e) == target[e] = "ns" => nsExists

Create(e) ==
  /\ Goto(e, "create", "ok")
  /\ reports[target[e]].version = 0
  /\ InNamespace(e)
  /\ Put(e)
  /\ CountOk
  /\ UNCHANGED <<nsExists, target, policyr, alive>>

\* Mutant: "already exists" is taken for success and counted nowhere.
MutantCreateConflict(e) ==
  /\ Goto(e, "create", "ok")
  /\ reports[target[e]].version # 0
  /\ UNCHANGED <<nsExists, reports, target, policyr, alive, ok, error>>

\* IsAlreadyExists: somebody created the report since it was read.
CreateConflict(e) ==
  /\ Goto(e, "create", "reread")
  /\ reports[target[e]].version # 0
  /\ UNCHANGED <<nsExists, reports, target, policyr, alive, ok, error>>

\* The report is read again, this time without appending the result.  For
\* the cluster report the name looked up is that of the namespaced one.
Reread(e) ==
  /\ \/ /\ target[e] # "cluster"
        /\ Goto(e, "reread", "update")
        /\ policyr' = [policyr EXCEPT ![e] = reports[target[e]]]
        /\ UNCHANGED <<ok, error>>
     \/ /\ target[e] = "cluster"
        /\ Goto(e, "reread", "error")
        /\ CountError
        /\ UNCHANGED policyr
  /\ UNCHANGED <<nsExists, reports, target, alive>>

\* Mutant: the update is sent without the version that was read.
MutantUpdate(e) ==
  /\ Goto(e, "update", "ok")
  /\ Put(e)
  /\ CountOk
  /\ UNCHANGED <<nsExists, target, policyr, alive>>

Update(e) ==
  /\ Goto(e, "update", "ok")
  /\ policyr[e].version = reports[target[e]].version
  /\ Put(e)
  /\ CountOk
  /\ UNCHANGED <<nsExists, target, policyr, alive>>

\* Mutant: a conflict leads to a step nobody wrote.
MutantUpdateConflict(e) ==
  /\ Goto(e, "update", "conflict")
  /\ policyr[e].version # reports[target[e]].version
  /\ CountError
  /\ UNCHANGED <<nsExists, reports, target, policyr, alive>>

UpdateConflict(e) ==
  /\ Goto(e, "update", "error")
  /\ policyr[e].version # reports[target[e]].version
  /\ CountError
  /\ UNCHANGED <<nsExists, reports, target, policyr, alive>>

\* Mutant: a call that fails is tried again from the start, although it may
\* have been carried out.
MutantCallFails(e) ==
  /\ \E from \in {"create", "update"} : Goto(e, from, "get")
  /\ ServerFails
  /\ \/ UNCHANGED reports
     \/ policyr[e].version = reports[target[e]].version /\ Put(e)
  /\ UNCHANGED <<nsExists, target, policyr, alive, ok, error>>

\* A call that fails, or is carried out although its answer is lost: no step
\* is tried again.  In a namespace that does not exist nothing is created.
CallFails(e) ==
  /\ \E from \in {"get", "create", "reread", "update"} : Goto(e, from, "error")
  /\ \/ ServerFails /\ UNCHANGED reports
     \/ pc[e] = "create" /\ ~InNamespace(e) /\ UNCHANGED reports
     \/ /\ ServerFails
        /\ pc[e] = "update" \/ (pc[e] = "create" /\ InNamespace(e))
        /\ policyr[e].version = reports[target[e]].version
        /\ Put(e)
  /\ CountError
  /\ UNCHANGED <<nsExists, target, policyr, alive>>

Step(e) ==
  \/ NewResultPanics(e) \/ FindNamespace(e) \/ FindCluster(e) \/ Read(e) \/ Create(e)
  \/ CreateConflict(e) \/ Reread(e) \/ Update(e) \/ UpdateConflict(e) \/ CallFails(e)

Next == \E e \in Events : Step(e)

\* Goroutines run; every call to the API server returns.
Spec == Init /\ [][Next]_vars /\ \A e \in Events : WF_vars(Step(e))

(***************************************************************************)
(* Properties                                                              *)
(***************************************************************************)
Results == Events \union {Older[i] : i \in DOMAIN Older}
ReportType == [version : Nat, results : Seq(Results),
               summary : [{"fail", "warn", "skip"} -> Nat]]

TypeOK ==
  /\ nsExists \in BOOLEAN
  /\ reports \in [Reports -> ReportType]
  /\ pc \in [Events -> {"start", "get", "create", "reread", "update", "ok",
                        "error", "panic"}]
  /\ target \in [Events -> Reports]
  /\ policyr \in [Events -> ReportType]
  /\ alive \in BOOLEAN
  /\ ok \in Nat /\ error \in Nat

Recorded(e) == \E r \in Reports : \E i \in DOMAIN reports[r].results :
                 reports[r].results[i] = e

Log == INSTANCE ReportLog WITH results <- [r \in Reports |-> reports[r].results],
                               done <- {e \in Events : pc[e] \in {"ok", "error"}}

\* No write makes another event's result disappear, however reads and writes
\* of the same report interleave: what an event reads, changes and writes
\* later is as good as one step, that adds its result at the end and drops
\* the oldest one of a full report, or that changes nothing.
ImplementsLog == Log!LogSpec

\* No result is stored twice, in one report or in two.
RecordedOnce ==
  \A r, s \in Reports : \A i \in DOMAIN reports[r].results :
    \A j \in DOMAIN reports[s].results :
      reports[r].results[i] = reports[s].results[j] => r = s /\ i = j

\* The stored summary counts the stored results: after the trim, and after
\* the detour by "already exists".
SummaryMatches == \A r \in Reports :
  reports[r].summary = getSummary(reports[r].results)

\* "The max number of events that can be in a policyreport"
\* (docs/outputs/policy_report.md:23): a report that is written has room for
\* its results.  One result is dropped per write, so this needs the results
\* of earlier runs to fit as well.
ReportBounded ==
  [][\A r \in Reports :
       reports'[r] # reports[r] => Len(reports'[r].results) <= MaxEvents]_vars

\* An event reported ok is in a report, or was pushed out of one by MaxEvents
\* later ones.
OkIsRecorded ==
  MaxEvents >= Cardinality(Events) + Len(Older) =>
    \A e \in Events : pc[e] = "ok" => Recorded(e)

\* An event that ends the process: the name of its response is asserted to
\* be a string, or it has no subject to move to the default namespace.
EndsAll(e) ==
  /\ pc[e] = "panic"
  /\ e \in Unchecked \/ (~nsExists /\ e \notin WithSubjects \union Clusterwide)

\* Every event is counted, once, whatever conflicts and failures it meets,
\* unless one of those two kinds of event ends it all.
EventuallyCounted ==
  <>(ok + error = Cardinality(Events) \/ (~alive /\ \E e \in Events : EndsAll(e)))
=============================================================================
