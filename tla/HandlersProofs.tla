-------------------------- MODULE HandlersProofs ---------------------------
(***************************************************************************)
(* What the goroutines of any number of events do to what they share, for  *)
(* every table of handlers that keeps to its exceptions: the tags stay as  *)
(* they were received, the fields change only by an output that edits      *)
(* them, and the process ends only in the ways the exceptions allow.       *)
(* And what each of them does by itself: a handler that is sound alone     *)
(* counts, reports and closes as it should among any number of others.     *)
(***************************************************************************)
EXTENDS Handlers, SequenceTheorems, TLAPS

Sorted == PayloadTags(ReceivedTags)

\* What the goroutine of an output may have left to execute.
Left(o) == Remainders(o) \union {Store(k) \o p : k \in KeptBy(o), p \in Remainders(o)}

CodeInv ==
  /\ output \in [Goroutines -> Outputs]
  /\ event \in [Goroutines -> Events]
  /\ code \in [Goroutines -> UNION {Left(o) : o \in Outputs}]
  /\ \A g \in Goroutines : code[g] \in Left(output[g])

\* The tags are sorted once, before there are goroutines: no sort stores.
TagsInv ==
  /\ tags = [e \in Events |-> Sorted]
  /\ readTags = [g \in Goroutines |-> Sorted]
  /\ swapping = [g \in Goroutines |-> << >>]

Edits(g, e) == event[g] = e /\ output[g] \in Editing

FieldsInv ==
  /\ writers \in [Events -> SUBSET Goroutines]
  /\ \A e \in Events : \A g \in writers[e] : Edits(g, e)
  /\ edits \in [Events -> SUBSET Changes]
  /\ \A e \in Events : edits[e] # {} => \E g \in Goroutines : Edits(g, e)

\* Whose keys were removed is beside an output that removes them.
RemovedBeside(g) ==
  \E h \in Goroutines : h # g /\ event[h] = event[g] /\ output[h] \in Deleting

StaleInv == stale \subseteq Goroutines /\ \A g \in stale : RemovedBeside(g)

\* g is between its check of what the client keeps and the end of its store.
Storing(g, k) == code[g] # << >> /\ Head(code[g]).do = "store" /\ What(g) = k

KeptInv ==
  /\ kept \in [Kept -> {"unset", "torn", "set"}]
  /\ \A g \in Goroutines, k \in Kept : Storing(g, k) => k \in existing
  /\ \A k \in Kept :
       /\ kept[k] # "unset" => k \in existing
       /\ kept[k] = "torn" => \E g \in Goroutines : Storing(g, k)

Pending(g) == IF g \in queue THEN 1 ELSE 0

\* Whatever the others do, g has come to an account of its own output, but
\* for a store it is about to make, and for its publications: those counted in
\* the account may still be sent, or be lost.
Keeps(a, g) ==
  /\ counted[g] = a.counted
  /\ refused[g] = a.refused
  /\ opened[g] = a.opened
  /\ a.sent <= sent[g]
  /\ sent[g] + Pending(g) <= a.sent + a.published
  /\ \/ code[g] = a.left
     \/ \E k \in KeptBy(output[g]) : code[g] = Store(k) \o a.left

AccountInv ==
  /\ DOMAIN counted = Goroutines
  /\ sent \in [Goroutines -> Nat]
  /\ refused \in [Goroutines -> BOOLEAN]
  /\ opened \in [Goroutines -> Int]
  /\ \A g \in Goroutines : \E a \in Accounts[output[g]] : Keeps(a, g)

ClientInv ==
  /\ missing \subseteq Goroutines
  /\ existing \subseteq Kept
  /\ connected \in BOOLEAN
  /\ queue \subseteq Goroutines
  /\ dead \in {"no", "panic", "map", "stale", "torn"}

IInv ==
  CodeInv /\ TagsInv /\ FieldsInv /\ StaleInv /\ KeptInv /\ Survives /\ AccountInv /\ ClientInv

(***************************************************************************)
(* Programs                                                                *)
(***************************************************************************)
\* What comes of an account is an account of the same output.
LEMMA AccountGoesOn ==
  ASSUME NEW o \in Outputs, NEW a \in Accounts[o]
  PROVE  /\ a \in AccountOf(o)
         /\ a.left \in Remainders(o)
         /\ a.left # << >> =>
              /\ Head(a.left) \in Steps(o)
              /\ Head(a.left).do # "panic" => Onwards(a) \in Accounts[o]
              /\ Head(a.left).do \in Fallible => Refused(a) \in Accounts[o]
              /\ Head(a.left).do = "hand" => Flushed(a) \in Accounts[o]
<1>1. a \in AccountOf(o) /\ AfterAlone(a) \subseteq Accounts[o]
  BY AccountsAssumption
<1>2. a.left \in Remainders(o)
  BY DEF Remainders
<1>3. ASSUME a.left # << >>, Head(a.left).do # "panic" PROVE Onwards(a) \in Accounts[o]
  BY <1>1, <1>3 DEF AfterAlone
<1>4. ASSUME a.left # << >>, Head(a.left).do \in Fallible PROVE Refused(a) \in Accounts[o]
  BY <1>1, <1>4 DEF AfterAlone, Fallible
<1>5. ASSUME a.left # << >>, Head(a.left).do = "hand" PROVE Flushed(a) \in Accounts[o]
  BY <1>1, <1>5 DEF AfterAlone
<1>6. a.left # << >> => Head(a.left) \in Steps(o)
  BY <1>2 DEF Steps
<1> QED BY <1>1, <1>2, <1>3, <1>4, <1>5, <1>6

\* What the next step adds to an account.
LEMMA OnwardsIs ==
  ASSUME NEW o \in Outputs, NEW a \in Accounts[o], NEW b, b = Onwards(a),
         NEW do, do = Head(a.left).do
  PROVE  /\ b.left = Tail(a.left)
         /\ b.refused = a.refused
         /\ b.counted = IF do = "count" THEN Append(a.counted, Head(a.left)) ELSE a.counted
         /\ b.sent = IF do = "send" THEN a.sent + 1 ELSE a.sent
         /\ b.published = IF do = "publish" THEN a.published + 1 ELSE a.published
         /\ do = "open" => b.opened = a.opened + 1
         /\ do = "close" => b.opened = a.opened - 1
         /\ do \notin {"open", "close"} => b.opened = a.opened
<1>1. a.sent \in Nat /\ a.published \in Nat /\ a.opened \in Int
  BY AccountGoesOn DEF AccountOf
<1> QED BY <1>1 DEF Onwards

LEMMA FlushedIs ==
  ASSUME NEW o \in Outputs, NEW a \in Accounts[o], Head(a.left).do = "hand",
         NEW b, b = Flushed(a)
  PROVE  /\ b.left = Tail(a.left)
         /\ b.counted = a.counted /\ b.refused = a.refused /\ b.opened = a.opened
         /\ b.sent = a.sent + 1 /\ b.published = a.published
<1>1. a.sent \in Nat /\ a.published \in Nat /\ a.opened \in Int
  BY AccountGoesOn DEF AccountOf
<1> QED BY <1>1 DEF Flushed, Onwards

LEMMA RefusedIs ==
  ASSUME NEW o \in Outputs, NEW a \in Accounts[o], NEW b, b = Refused(a)
  PROVE  /\ b.left = Head(a.left).else
         /\ b.refused = TRUE
         /\ b.counted = a.counted /\ b.sent = a.sent /\ b.published = a.published
         /\ b.opened = a.opened
<1>1. a \in AccountOf(o)
  BY AccountGoesOn
<1> QED BY <1>1 DEF Refused, AccountOf

\* A store is put before a remainder and leaves it.
LEMMA StoreFirstOf ==
  ASSUME NEW o \in Outputs, NEW p \in Remainders(o), NEW k
  PROVE  /\ Store(k) \o p # << >>
         /\ Head(Store(k) \o p) = [do |-> "store", what |-> k]
         /\ Tail(Store(k) \o p) = p
<1> DEFINE step == [do |-> "store", what |-> k]
           S == Steps(o) \union {step}
<1>1. p \in Seq(S)
  <2>1. p \in Seq(Steps(o))
    BY AccountGoesOn DEF Remainders, AccountOf
  <2> QED BY <2>1
<1>2. Store(k) = <<step>> /\ <<step>> \in Seq(S)
  BY DEF Store
<1> HIDE DEF step, S
<1>3. <<step>> \o p # << >> /\ Head(<<step>> \o p) = step /\ Tail(<<step>> \o p) = p
  BY <1>1, <1>2
<1> QED BY <1>2, <1>3 DEF step

\* What is left of a program belongs to the same output, whatever the step.
LEMMA RemainderGoesOn ==
  ASSUME NEW o \in Outputs, NEW p \in Left(o), p # << >>
  PROVE  /\ Head(p).do # "panic" => Tail(p) \in Remainders(o)
         /\ Head(p).do \in Fallible => Head(p).else \in Remainders(o)
         /\ Head(p).do = "ensure" => Store(Head(p).what) \o Tail(p) \in Left(o)
         /\ Head(p).do = "panic" => o \in Panicking
         /\ Head(p).do = "edit" => o \in Editing /\ Head(p).change \in Changes
         /\ Head(p).do = "edit" /\ Head(p).change \in Removals => o \in Deleting
         /\ Head(p).do = "values" => o \in Asserting
         /\ Head(p).do \in {"ensure", "store", "use"} =>
              Head(p).what \in KeptBy(o)
<1>1. CASE p \in Remainders(o)
  <2>0. PICK a \in Accounts[o] : p = a.left
    BY <1>1 DEF Remainders
  <2>1. Head(p).do # "panic" => Tail(p) \in Remainders(o)
    <3>1. Onwards(a).left = Tail(a.left)
      BY DEF Onwards
    <3> QED BY <2>0, <3>1, AccountGoesOn DEF Remainders
  <2>2. Head(p).do \in Fallible => Head(p).else \in Remainders(o)
    <3>1. Refused(a).left = Head(a.left).else
      BY <2>0, AccountGoesOn DEF Refused, AccountOf
    <3> QED BY <2>0, <3>1, AccountGoesOn DEF Remainders
  <2>3. Head(p) \in Steps(o)
    BY <1>1 DEF Steps
  <2>4. Head(p).do \in {"ensure", "use"} => Head(p).what \in KeptBy(o)
    BY <2>3 DEF KeptBy
  <2>5. Head(p).do = "ensure" => Store(Head(p).what) \o Tail(p) \in Left(o)
    <3>1. ASSUME NEW k \in KeptBy(o), NEW q \in Remainders(o) PROVE Store(k) \o q \in Left(o)
      BY DEF Left
    <3> QED BY <2>1, <2>4, <3>1
  <2>6. /\ Head(p).do = "panic" => o \in Panicking
        /\ Head(p).do = "edit" => o \in Editing /\ Head(p).change \in Changes
        /\ Head(p).do = "edit" /\ Head(p).change \in Removals => o \in Deleting
        /\ Head(p).do = "values" => o \in Asserting
        /\ Head(p).do # "store"
    BY <2>3, ExceptionsAssumption
  <2>7. Head(p).do \in {"ensure", "store", "use"} => Head(p).what \in KeptBy(o)
    BY <2>4, <2>6
  <2> QED BY <2>1, <2>2, <2>5, <2>6, <2>7
<1>2. ASSUME NEW k \in KeptBy(o), NEW q \in Remainders(o), p = Store(k) \o q
      PROVE  /\ Tail(p) = q
             /\ Head(p) = [do |-> "store", what |-> k]
  BY <1>2, StoreFirstOf
<1>3. CASE \E k \in KeptBy(o), q \in Remainders(o) : p = Store(k) \o q
  <2>1. PICK k \in KeptBy(o), q \in Remainders(o) : p = Store(k) \o q
    BY <1>3
  <2>2. Tail(p) = q /\ Head(p).do = "store" /\ Head(p).what = k
    BY <1>2, <2>1
  <2>3. Tail(p) \in Remainders(o) /\ Head(p).what \in KeptBy(o)
    BY <2>2
  <2>4. /\ Head(p).do \notin Fallible
        /\ Head(p).do # "ensure" /\ Head(p).do # "panic" /\ Head(p).do # "edit"
        /\ Head(p).do # "values"
    BY <2>2 DEF Fallible
  <2> QED BY <2>3, <2>4
<1>4. p \in Remainders(o) \/ \E k \in KeptBy(o), q \in Remainders(o) : p = Store(k) \o q
  BY DEF Left
<1> QED BY <1>1, <1>3, <1>4

\* After newKhulnasoftPayload there is nothing left to sort.
LEMMA SortedIsSorted ==
  /\ Sorted \in Rearranged(ReceivedTags)
  /\ Sorted \in Seq(Nat)
  /\ Inversions(Sorted) = {}
<1>1. Sorted \in Rearranged(ReceivedTags) /\ Ascending(Sorted)
  BY SortableAssumption DEF Sorted, PayloadTags
<1>2. ReceivedTags \in Seq(Nat)
  BY HandlersAssumption
<1>3. PICK p \in [DOMAIN ReceivedTags -> DOMAIN ReceivedTags] :
        Sorted = [i \in DOMAIN ReceivedTags |-> ReceivedTags[p[i]]]
  BY <1>1 DEF Rearranged
<1>4. Sorted \in [1..Len(ReceivedTags) -> Nat]
  BY <1>2, <1>3
<1>5. Sorted \in Seq(Nat)
  BY <1>2, <1>4, SeqDef
<1>6. \A i \in 1..(Len(Sorted) - 1) : Sorted[i] \in Nat /\ Sorted[i + 1] \in Nat
  BY <1>5
<1>7. Inversions(Sorted) = {}
  BY <1>1, <1>6 DEF Ascending, Inversions
<1> QED BY <1>1, <1>5, <1>7

LEMMA InitIInv == Init => IInv
<1> SUFFICES ASSUME Init PROVE IInv
  OBVIOUS
<1>1. output \in [Goroutines -> Outputs] /\ event \in [Goroutines -> Events]
  BY HandlersAssumption DEF Init
<1>2. \A g \in Goroutines : code[g] \in Remainders(output[g]) /\ code[g] \in Left(output[g])
  <2>1. ASSUME NEW o \in Outputs, NEW program \in Programs[o]
        PROVE  program \in Remainders(o)
    <3>1. Begin(program) \in Accounts[o] /\ Begin(program).left = program
      BY AccountsAssumption DEF Begin
    <3> QED BY <3>1 DEF Remainders
  <2> QED BY <1>1, <2>1 DEF Init, Left
<1>3. code \in [Goroutines -> UNION {Left(o) : o \in Outputs}]
  BY <1>1, <1>2 DEF Init
<1>4. CodeInv
  BY <1>1, <1>2, <1>3 DEF CodeInv
<1>5. TagsInv /\ FieldsInv /\ StaleInv /\ Survives
  BY DEF Init, TagsInv, FieldsInv, StaleInv, Survives, Sorted
<1>6. KeptInv
  <2>1. ASSUME NEW g \in Goroutines, NEW k \in Kept, Storing(g, k) PROVE FALSE
    BY <1>1, <1>2, <2>1, ExceptionsAssumption DEF Storing, Steps
  <2> QED BY <2>1 DEF Init, KeptInv
<1>7. AccountInv
  <2>1. ASSUME NEW g \in Goroutines
        PROVE  \E a \in Accounts[output[g]] : Keeps(a, g)
    <3>1. Begin(code[g]) \in Accounts[output[g]]
      BY <1>1, AccountsAssumption DEF Init
    <3>2. Keeps(Begin(code[g]), g)
      BY DEF Init, Begin, Keeps, Pending
    <3> QED BY <3>1, <3>2
  <2> QED BY <2>1 DEF Init, AccountInv
<1>8. ClientInv
  BY DEF Init, ClientInv
<1> QED BY <1>4, <1>5, <1>6, <1>7, <1>8 DEF IInv

(***************************************************************************)
(* Steps                                                                   *)
(***************************************************************************)
\* Nobody is given other work; a goroutine goes on with what is left.
LEMMA CodeStep == CodeInv /\ [Next]_vars => CodeInv'
<1> SUFFICES ASSUME CodeInv, [Next]_vars PROVE CodeInv'
  OBVIOUS
<1> DEFINE Moves(g, rest) ==
      /\ UNCHANGED <<output, event>>
      /\ code' = [code EXCEPT ![g] = rest]
<1>1. CASE UNCHANGED <<output, event, code>>
  BY <1>1 DEF CodeInv
<1>2. ASSUME NEW g \in Goroutines, NEW rest \in Left(output[g]), Moves(g, rest)
      PROVE  CodeInv'
  BY <1>2 DEF CodeInv
<1> HIDE DEF Moves
<1>3. ASSUME NEW g \in Goroutines, code[g] # << >>
      PROVE  /\ Head(code[g]).do # "panic" => Tail(code[g]) \in Left(output[g])
             /\ Head(code[g]).do \in Fallible => Head(code[g]).else \in Left(output[g])
             /\ Head(code[g]).do = "ensure" =>
                  Store(Head(code[g]).what) \o Tail(code[g]) \in Left(output[g])
  <2>1. output[g] \in Outputs /\ code[g] \in Left(output[g])
    BY DEF CodeInv
  <2>2. Remainders(output[g]) \subseteq Left(output[g])
    BY DEF Left
  <2> QED BY <1>3, <2>1, <2>2, RemainderGoesOn
<1>4. ASSUME NEW g \in Goroutines, code[g] # << >>, Head(code[g]).do # "panic",
             UNCHANGED <<output, event>>, Proceed(g)
      PROVE  CodeInv'
  <2>1. Moves(g, Tail(code[g]))
    BY <1>4 DEF Moves, Proceed, CodeInv
  <2> QED BY <2>1, <1>2, <1>3, <1>4
<1>5. ASSUME NEW g \in Goroutines, At(g, Fallible), UNCHANGED <<output, event>>, Fail(g)
      PROVE  CodeInv'
  <2>1. Moves(g, Head(code[g]).else)
    BY <1>5 DEF Moves, Fail, CodeInv
  <2> QED BY <2>1, <1>2, <1>3, <1>5 DEF At
<1>6. CASE UNCHANGED vars
  BY <1>6, <1>1 DEF vars
<1>7. ASSUME NEW g \in Goroutines, NEW why, Dies(why) PROVE CodeInv'
  BY <1>7, <1>1 DEF Dies
<1>8. ASSUME NEW g \in Goroutines,
             Count(g) \/ ReadTags(g) \/ ReadFields(g) \/ EndEdit(g) \/ ReadValues(g)
               \/ CallReturns(g) \/ SendReturns(g) \/ HandReturns(g) \/ OpenReturns(g)
               \/ CloseConnection(g) \/ EnsureFound(g) \/ StoreSecond(g) \/ UseKept(g)
               \/ ConnectReturns(g) \/ PublishReturns(g)
               \/ DisconnectClient(g)
      PROVE  CodeInv'
  BY <1>8, <1>4 DEF Count, ReadTags, ReadFields, EndEdit, ReadValues, CallReturns, SendReturns,
       HandReturns, OpenReturns, CloseConnection, EnsureFound, StoreSecond, UseKept, ConnectReturns,
       PublishReturns, DisconnectClient, At
<1>9. ASSUME NEW g \in Goroutines, CallFails(g) \/ EnsureFails(g) \/ MQTTFails(g)
      PROVE  CodeInv'
  BY <1>9, <1>5 DEF CallFails, EnsureFails, MQTTFails, At, Fallible
<1>10. ASSUME NEW g \in Goroutines, BeginEdit(g) \/ EnsureMissing(g) \/ StoreFirst(g) \/ Written(g)
       PROVE  CodeInv'
  BY <1>10, <1>1 DEF BeginEdit, EnsureMissing, StoreFirst, Written
<1>11. ASSUME NEW g \in Goroutines, Panic(g) \/ MapThrow(g) \/ StaleValue(g) \/ UseTorn(g)
       PROVE  CodeInv'
  BY <1>11, <1>7 DEF Panic, MapThrow, StaleValue, UseTorn
<1>12. ASSUME NEW g \in Goroutines, SortTags(g) PROVE CodeInv'
  BY <1>12, <1>1, <1>4 DEF SortTags, At
<1>13. ASSUME NEW g \in Goroutines, EnsureCreate(g) PROVE CodeInv'
  <2>1. Moves(g, Store(What(g)) \o Tail(code[g]))
    BY <1>13 DEF Moves, EnsureCreate, CodeInv
  <2> QED BY <2>1, <1>2, <1>3, <1>13 DEF EnsureCreate, At, What
<1> QED
  BY <1>6, <1>8, <1>9, <1>10, <1>11, <1>12, <1>13 DEF Next

\* Every read is of the sorted tags, and a sort finds nothing to exchange.
LEMMA TagsStep == CodeInv /\ TagsInv /\ [Next]_vars => TagsInv'
<1> SUFFICES ASSUME CodeInv, TagsInv, [Next]_vars PROVE TagsInv'
  OBVIOUS
<1>1. CASE UNCHANGED <<tags, readTags, swapping>>
  BY <1>1 DEF TagsInv
<1>2. ASSUME NEW g \in Goroutines, ReadTags(g) PROVE TagsInv'
  BY <1>2 DEF ReadTags, TagsInv, CodeInv
<1>3. ASSUME NEW g \in Goroutines, SortTags(g) PROVE TagsInv'
  <2>1. swapping[g] = << >> /\ tags[event[g]] = Sorted
    BY DEF TagsInv, CodeInv
  <2>2. UNCHANGED <<tags, swapping, readTags>>
    BY <1>3, <2>1, SortedIsSorted DEF SortTags
  <2> QED BY <2>2, <1>1
<1> QED
  BY <1>1, <1>2, <1>3 DEF Next, vars, eventVars, Dies, Count, Panic, ReadFields, BeginEdit,
    EndEdit, MapThrow, ReadValues, StaleValue, CallReturns, SendReturns, HandReturns,
    OpenReturns, CloseConnection, CallFails, EnsureFound, EnsureMissing, EnsureCreate, EnsureFails,
    StoreFirst, StoreSecond, UseKept, UseTorn,
    ConnectReturns, PublishReturns, MQTTFails, DisconnectClient, Written

\* Who changes the fields of an event executes an edit, as only some outputs do.
LEMMA FieldsStep == CodeInv /\ FieldsInv /\ [Next]_vars => FieldsInv'
<1> SUFFICES ASSUME CodeInv, FieldsInv, [Next]_vars PROVE FieldsInv'
  OBVIOUS
<1>1. ASSUME UNCHANGED <<output, event, writers, edits>> PROVE FieldsInv'
  BY <1>1 DEF FieldsInv, Edits
<1>2. ASSUME NEW g \in Goroutines, At(g, {"edit"})
      PROVE  event[g] \in Events /\ Edits(g, event[g]) /\ Head(code[g]).change \in Changes
  BY <1>2, RemainderGoesOn DEF At, CodeInv, Edits
<1>3. ASSUME NEW g \in Goroutines, BeginEdit(g) PROVE FieldsInv'
  <2>1. event[g] \in Events /\ Edits(g, event[g])
    BY <1>2, <1>3 DEF BeginEdit
  <2>2. UNCHANGED <<output, event, edits>>
    BY <1>3 DEF BeginEdit
  <2>3. writers' = [writers EXCEPT ![event[g]] = @ \union {g}]
    BY <1>3 DEF BeginEdit
  <2> QED BY <2>1, <2>2, <2>3 DEF FieldsInv, Edits
<1>4. ASSUME NEW g \in Goroutines, EndEdit(g) PROVE FieldsInv'
  <2>1. event[g] \in Events /\ Edits(g, event[g]) /\ Head(code[g]).change \in Changes
    BY <1>2, <1>4 DEF EndEdit
  <2>2. UNCHANGED <<output, event>>
    BY <1>4 DEF EndEdit
  <2>3. writers' = [writers EXCEPT ![event[g]] = @ \ {g}]
    BY <1>4 DEF EndEdit
  <2>4. edits' = [edits EXCEPT ![event[g]] = @ \union {Head(code[g]).change}]
    BY <1>4 DEF EndEdit
  <2> QED BY <2>1, <2>2, <2>3, <2>4 DEF FieldsInv, Edits
<1> QED
  BY <1>1, <1>3, <1>4 DEF Next, vars, eventVars, Dies, Count, Panic, ReadTags, SortTags,
    ReadFields, MapThrow, ReadValues, StaleValue, CallReturns, SendReturns, HandReturns,
    OpenReturns, CloseConnection, CallFails, EnsureFound, EnsureMissing, EnsureCreate, EnsureFails,
    StoreFirst, StoreSecond, UseKept, UseTorn,
    ConnectReturns, PublishReturns, MQTTFails, DisconnectClient, Written

\* A value is created before it is stored, and torn only while it is stored.
LEMMA KeptStep == CodeInv /\ KeptInv /\ [Next]_vars => KeptInv'
<1> SUFFICES ASSUME CodeInv, KeptInv, [Next]_vars PROVE KeptInv'
  OBVIOUS
<1>1. ASSUME UNCHANGED <<code, kept, existing>> PROVE KeptInv'
  BY <1>1 DEF KeptInv, Storing, What
\* What is left after another step does not begin with a store.
<1>2. ASSUME NEW g \in Goroutines, NEW r \in Remainders(output[g]),
             code[g] # << >>, Head(code[g]).do # "store",
             code' = [code EXCEPT ![g] = r], UNCHANGED <<kept, existing>>
      PROVE  KeptInv'
  <2>1. ASSUME NEW h \in Goroutines, NEW k \in Kept PROVE Storing(h, k)' <=> Storing(h, k)
    <3>1. CASE h = g
      <4>1. code'[h] = r /\ output[g] \in Outputs
        BY <1>2, <3>1 DEF CodeInv
      <4>2. r # << >> => Head(r).do # "store"
        BY <4>1, ExceptionsAssumption DEF Steps
      <4> QED BY <1>2, <3>1, <4>1, <4>2 DEF Storing
    <3>2. CASE h # g
      BY <1>2, <3>2 DEF Storing, What, CodeInv
    <3> QED BY <3>1, <3>2
  <2> QED BY <1>2, <2>1 DEF KeptInv
<1>3. ASSUME NEW g \in Goroutines, code[g] # << >>
      PROVE  /\ output[g] \in Outputs
             /\ Head(code[g]).do # "panic" => Tail(code[g]) \in Remainders(output[g])
             /\ Head(code[g]).do \in Fallible => Head(code[g]).else \in Remainders(output[g])
             /\ Head(code[g]).do \in {"ensure", "store", "use"} => What(g) \in Kept
  <2>1. output[g] \in Outputs /\ code[g] \in Left(output[g])
    BY DEF CodeInv
  <2> QED BY <1>3, <2>1, RemainderGoesOn, ExceptionsAssumption DEF What
<1>4. ASSUME NEW g \in Goroutines, code[g] # << >>,
             Head(code[g]).do \notin {"store", "panic"}, UNCHANGED <<kept, existing>>, Proceed(g)
      PROVE  KeptInv'
  BY <1>2, <1>3, <1>4 DEF Proceed
<1>5. ASSUME NEW g \in Goroutines, At(g, Fallible), UNCHANGED <<kept, existing>>, Fail(g)
      PROVE  KeptInv'
  <2>1. Head(code[g]).else \in Remainders(output[g]) /\ Head(code[g]).do # "store"
    BY <1>3, <1>5 DEF At, Fallible
  <2> QED BY <1>2, <1>5, <2>1 DEF Fail, At
<1>6. ASSUME NEW g \in Goroutines, EnsureCreate(g) PROVE KeptInv'
  <2>1. Tail(code[g]) \in Remainders(output[g]) /\ output[g] \in Outputs /\ What(g) \in Kept
    BY <1>3, <1>6 DEF EnsureCreate, At
  <2>2. code'[g] = Store(What(g)) \o Tail(code[g])
    BY <1>6 DEF EnsureCreate, CodeInv
  <2>3. ASSUME NEW k \in Kept, Storing(g, k)' PROVE k = What(g)
    <3>1. Head(code'[g]) = [do |-> "store", what |-> What(g)]
      BY <2>1, <2>2, StoreFirstOf
    <3>2. Head(code'[g]).what = k
      BY <2>3 DEF Storing, What
    <3> QED BY <3>1, <3>2
  <2>4. ASSUME NEW h \in Goroutines, h # g, NEW k \in Kept
        PROVE  Storing(h, k)' <=> Storing(h, k)
    BY <1>6, <2>4 DEF EnsureCreate, Storing, What, CodeInv
  <2>5. \A k \in Kept : ~Storing(g, k)
    BY <1>6 DEF EnsureCreate, At, Storing
  <2>6. existing' = existing \union {What(g)} /\ kept' = kept
    BY <1>6 DEF EnsureCreate
  <2> QED BY <2>3, <2>4, <2>5, <2>6 DEF KeptInv
<1>7. ASSUME NEW g \in Goroutines, StoreFirst(g) PROVE KeptInv'
  <2>1. What(g) \in Kept /\ Storing(g, What(g))
    BY <1>3, <1>7 DEF StoreFirst, At, Storing
  <2>2. UNCHANGED <<code, existing>> /\ kept' = [kept EXCEPT ![What(g)] = "torn"]
    BY <1>7 DEF StoreFirst
  <2>3. \A h \in Goroutines, k \in Kept : Storing(h, k)' <=> Storing(h, k)
    BY <2>2 DEF Storing, What
  <2> QED BY <2>1, <2>2, <2>3 DEF KeptInv
<1>8. ASSUME NEW g \in Goroutines, StoreSecond(g) PROVE KeptInv'
  <2>1. What(g) \in Kept /\ Storing(g, What(g)) /\ output[g] \in Outputs
    BY <1>3, <1>8 DEF StoreSecond, At, Storing
  <2>2. code'[g] = Tail(code[g]) /\ Tail(code[g]) \in Remainders(output[g])
    BY <1>3, <1>8 DEF StoreSecond, At, Proceed, CodeInv
  <2>3. \A k \in Kept : ~Storing(g, k)'
    BY <2>1, <2>2, ExceptionsAssumption DEF Storing, Steps
  <2>4. ASSUME NEW h \in Goroutines, h # g, NEW k \in Kept
        PROVE  Storing(h, k)' <=> Storing(h, k)
    BY <1>8, <2>4 DEF StoreSecond, Proceed, Storing, What, CodeInv
  <2>5. \A k \in Kept : Storing(g, k) => k = What(g)
    BY DEF Storing
  <2>6. existing' = existing /\ kept' = [kept EXCEPT ![What(g)] = "set"]
    BY <1>8 DEF StoreSecond
  <2> QED BY <2>1, <2>3, <2>4, <2>5, <2>6 DEF KeptInv
<1>9. ASSUME NEW g \in Goroutines,
             Count(g) \/ ReadTags(g) \/ ReadFields(g) \/ EndEdit(g) \/ ReadValues(g)
               \/ CallReturns(g) \/ SendReturns(g) \/ HandReturns(g) \/ OpenReturns(g)
               \/ CloseConnection(g) \/ EnsureFound(g) \/ UseKept(g)
               \/ ConnectReturns(g) \/ PublishReturns(g)
               \/ DisconnectClient(g)
      PROVE  KeptInv'
  BY <1>9, <1>4 DEF Count, ReadTags, ReadFields, EndEdit, ReadValues, CallReturns, SendReturns,
       HandReturns, OpenReturns, CloseConnection, EnsureFound, UseKept, ConnectReturns, PublishReturns,
       DisconnectClient, At, clientVars
<1>10. ASSUME NEW g \in Goroutines, CallFails(g) \/ EnsureFails(g) \/ MQTTFails(g)
       PROVE  KeptInv'
  BY <1>10, <1>5 DEF CallFails, EnsureFails, MQTTFails, At, Fallible, clientVars
<1>11. ASSUME NEW g \in Goroutines, SortTags(g) PROVE KeptInv'
  BY <1>11, <1>1, <1>4 DEF SortTags, At, clientVars
<1> QED
  BY <1>1, <1>6, <1>7, <1>8, <1>9, <1>10, <1>11 DEF Next, vars, clientVars, Dies, Panic,
    MapThrow, StaleValue, UseTorn, BeginEdit, EnsureMissing, Written

\* Keys become stale only beside a goroutine that removes keys of the event.
LEMMA StaleStep == CodeInv /\ StaleInv /\ [Next]_vars => StaleInv'
<1> SUFFICES ASSUME CodeInv, StaleInv, [Next]_vars PROVE StaleInv'
  OBVIOUS
<1>1. ASSUME UNCHANGED <<output, event>>, stale' \subseteq stale PROVE StaleInv'
  BY <1>1 DEF StaleInv, RemovedBeside
<1>2. ASSUME NEW g \in Goroutines, EndEdit(g) PROVE StaleInv'
  <2>1. UNCHANGED <<output, event>>
    BY <1>2 DEF EndEdit
  <2>2. CASE Head(code[g]).change \notin Removals
    BY <1>1, <1>2, <2>1, <2>2 DEF EndEdit
  <2>3. CASE Head(code[g]).change \in Removals
    <3>1. output[g] \in Deleting
      BY <1>2, <2>3, RemainderGoesOn DEF EndEdit, At, CodeInv
    <3>2. stale' = stale \union HoldKeys(event[g])
      BY <1>2, <2>3 DEF EndEdit
    <3>3. ASSUME NEW h \in HoldKeys(event[g])
          PROVE  h \in Goroutines /\ event[h] = event[g] /\ h # g
      BY <1>2 DEF EndEdit, HoldKeys, At
    <3>4. \A h \in HoldKeys(event[g]) : h \in Goroutines /\ RemovedBeside(h)
      BY <3>1, <3>3 DEF RemovedBeside
    <3>5. \A h \in stale' : h \in Goroutines /\ RemovedBeside(h)
      BY <3>2, <3>4 DEF StaleInv
    <3> QED BY <2>1, <3>5 DEF StaleInv, RemovedBeside
  <2> QED BY <2>2, <2>3
<1>3. ASSUME NEW g \in Goroutines, ReadValues(g) PROVE StaleInv'
  BY <1>1, <1>3 DEF ReadValues
<1> QED
  BY <1>1, <1>2, <1>3 DEF Next, vars, eventVars, Dies, Count, Panic, ReadTags, SortTags,
    ReadFields, BeginEdit, MapThrow, StaleValue, CallReturns, SendReturns, HandReturns,
    OpenReturns, CloseConnection, CallFails, EnsureFound, EnsureMissing, EnsureCreate,
    EnsureFails, StoreFirst, StoreSecond, UseKept, UseTorn, ConnectReturns, PublishReturns,
    MQTTFails, DisconnectClient, Written

\* Each end of the process is the work of outputs that were named for it.
LEMMA SurvivesStep ==
  CodeInv /\ FieldsInv /\ StaleInv /\ KeptInv /\ Survives /\ [Next]_vars => Survives'
<1> SUFFICES ASSUME CodeInv, FieldsInv, StaleInv, KeptInv, Survives, [Next]_vars PROVE Survives'
  OBVIOUS
<1>1. ASSUME UNCHANGED <<output, event, dead>> PROVE Survives'
  BY <1>1 DEF Survives
<1>2. ASSUME NEW g \in Goroutines, code[g] # << >>
      PROVE  /\ output[g] \in Outputs
             /\ Head(code[g]).do = "panic" => output[g] \in Panicking
             /\ Head(code[g]).do = "values" => output[g] \in Asserting
             /\ Head(code[g]).do = "edit" /\ Head(code[g]).change \in Removals =>
                  output[g] \in Deleting
             /\ Head(code[g]).do \in {"store", "use"} => What(g) \in KeptBy(output[g])
  <2>1. output[g] \in Outputs /\ code[g] \in Left(output[g])
    BY DEF CodeInv
  <2> QED BY <1>2, <2>1, RemainderGoesOn DEF What
<1>3. ASSUME NEW g \in Goroutines, Panic(g) PROVE Survives'
  <2>1. output[g] \in Panicking
    BY <1>2, <1>3 DEF Panic, At
  <2>2. dead' = "panic" /\ UNCHANGED <<output, event>>
    BY <1>3 DEF Panic, Dies
  <2> QED BY <2>1, <2>2 DEF Survives
<1>4. ASSUME NEW g \in Goroutines, MapThrow(g) PROVE Survives'
  <2>1. event[g] \in Events
    BY DEF CodeInv
  <2>2. PICK h \in writers[event[g]] : h # g
    BY <1>4 DEF MapThrow, OthersWrite
  <2>3. h \in Goroutines /\ event[h] = event[g] /\ output[h] \in Editing
    BY <2>1, <2>2 DEF FieldsInv, Edits
  <2>4. dead' = "map" /\ UNCHANGED <<output, event>>
    BY <1>4 DEF MapThrow, Dies
  <2> QED BY <2>2, <2>3, <2>4 DEF Survives
<1>5. ASSUME NEW g \in Goroutines, UseTorn(g) PROVE Survives'
  <2>1. output[g] \in Outputs /\ What(g) \in KeptBy(output[g]) /\ kept[What(g)] = "torn"
    BY <1>2, <1>5 DEF UseTorn, At
  <2>2. What(g) \in Kept
    BY <2>1, ExceptionsAssumption
  <2>3. PICK h \in Goroutines : Storing(h, What(g))
    BY <2>1, <2>2 DEF KeptInv
  <2>4. output[h] \in Outputs /\ What(g) \in KeptBy(output[h])
    BY <1>2, <2>3 DEF Storing
  <2>5. output[h] = output[g] /\ output[g] \in Caching
    BY <2>1, <2>4, ExceptionsAssumption
  <2>6. h # g
    BY <1>5, <2>3 DEF UseTorn, At, Storing
  <2>7. dead' = "torn" /\ UNCHANGED <<output, event>>
    BY <1>5 DEF UseTorn, Dies
  <2> QED BY <2>5, <2>6, <2>7 DEF Survives
<1>6. ASSUME NEW g \in Goroutines, StaleValue(g) PROVE Survives'
  <2>1. output[g] \in Asserting
    BY <1>2, <1>6 DEF StaleValue, At
  <2>2. CASE g \in stale
    <3>1. RemovedBeside(g)
      BY <2>2 DEF StaleInv
    <3> QED BY <1>6, <2>1, <3>1 DEF StaleValue, Dies, RemovedBeside, Survives
  <2>3. CASE \E h \in Goroutines : event[h] = event[g] /\ Removing(h)
    <3>1. PICK h \in Goroutines : event[h] = event[g] /\ Removing(h)
      BY <2>3
    <3>2. h # g /\ output[h] \in Deleting
      BY <1>2, <1>6, <3>1 DEF StaleValue, Removing, At
    <3>3. dead' = "stale" /\ UNCHANGED <<output, event>>
      BY <1>6 DEF StaleValue, Dies
    <3> QED BY <2>1, <3>1, <3>2, <3>3 DEF Survives
  <2> QED BY <1>6, <2>2, <2>3 DEF StaleValue
<1> QED
  BY <1>1, <1>3, <1>4, <1>5, <1>6 DEF Next, vars, Count, ReadTags, SortTags, ReadFields,
    BeginEdit, EndEdit, ReadValues, CallReturns, SendReturns, HandReturns,
    OpenReturns, CloseConnection, CallFails, EnsureFound,
    EnsureMissing, EnsureCreate, EnsureFails, StoreFirst, StoreSecond, UseKept, ConnectReturns,
    PublishReturns, MQTTFails, DisconnectClient, Written

\* A step takes the account of its goroutine onwards, or has its call refused,
\* and leaves the accounts of the others as they are.
LEMMA AccountStep == CodeInv /\ AccountInv /\ ClientInv /\ [Next]_vars => AccountInv'
<1> SUFFICES ASSUME CodeInv, AccountInv, ClientInv, [Next]_vars PROVE AccountInv'
  OBVIOUS
<1> DEFINE Types == /\ DOMAIN counted = Goroutines
                    /\ sent \in [Goroutines -> Nat]
                    /\ refused \in [Goroutines -> BOOLEAN]
                    /\ opened \in [Goroutines -> Int]
           Alike(h) == /\ UNCHANGED <<code[h], counted[h], sent[h], refused[h], opened[h]>>
                       /\ h \in queue' => h \in queue
<1>0. ASSUME NEW g \in Goroutines
      PROVE  /\ output[g] \in Outputs /\ sent[g] \in Nat /\ opened[g] \in Int
             /\ \E a \in Accounts[output[g]] : Keeps(a, g)
             /\ \A a \in Accounts[output[g]] : a.sent \in Nat /\ a.published \in Nat
  BY AccountGoesOn DEF CodeInv, AccountInv, AccountOf
<1>1. ASSUME NEW g \in Goroutines, Alike(g), output' = output
      PROVE  \E a \in Accounts[output[g]] : Keeps(a, g)'
  <2>1. PICK a \in Accounts[output[g]] : Keeps(a, g)
    BY <1>0
  <2>2. a.sent <= sent'[g] /\ sent'[g] + Pending(g)' <= a.sent + a.published
    BY <1>0, <1>1, <2>1 DEF Keeps, Pending
  <2>3. Keeps(a, g)'
    BY <1>1, <2>1, <2>2 DEF Keeps
  <2> QED BY <2>3
<1>2. ASSUME output' = output, Types', \A h \in Goroutines : Alike(h) PROVE AccountInv'
  BY <1>1, <1>2 DEF AccountInv
<1>3. ASSUME NEW g \in Goroutines, NEW a \in Accounts[output[g]], Keeps(a, g)',
             output' = output, Types', \A h \in Goroutines \ {g} : Alike(h)
      PROVE  AccountInv'
  <2>1. ASSUME NEW h \in Goroutines PROVE \E b \in Accounts[output'[h]] : Keeps(b, h)'
    <3>1. CASE h = g
      BY <1>3, <3>1
    <3>2. CASE h # g
      BY <1>1, <1>3, <3>2
    <3> QED BY <3>1, <3>2
  <2> QED BY <1>3, <2>1 DEF AccountInv
\* No store is in front: what is left is what the account has left.
<1>4. ASSUME NEW g \in Goroutines, NEW kinds, At(g, kinds), "store" \notin kinds
      PROVE  \E a \in Accounts[output[g]] :
               Keeps(a, g) /\ code[g] = a.left /\ a.left # << >> /\ Head(a.left).do \in kinds
  <2>1. PICK a \in Accounts[output[g]] : Keeps(a, g)
    BY <1>0
  <2>2. a.left \in Remainders(output[g]) /\ output[g] \in Outputs
    BY <1>0, AccountGoesOn
  <2>3. \A k : code[g] # Store(k) \o a.left
    BY <1>4, <2>2, StoreFirstOf DEF At
  <2>4. code[g] = a.left
    BY <2>1, <2>3 DEF Keeps
  <2> QED BY <1>4, <2>1, <2>4 DEF At
<1>5. ASSUME NEW g \in Goroutines, At(g, {"store"})
      PROVE  \E a \in Accounts[output[g]] : Keeps(a, g) /\ Tail(code[g]) = a.left
  <2>1. PICK a \in Accounts[output[g]] : Keeps(a, g)
    BY <1>0
  <2>2. a.left \in Remainders(output[g]) /\ output[g] \in Outputs
    BY <1>0, AccountGoesOn
  <2>3. code[g] # a.left
    BY <1>5, <2>2, ExceptionsAssumption DEF At, Steps
  <2>4. PICK k : code[g] = Store(k) \o a.left
    BY <2>1, <2>3 DEF Keeps
  <2> QED BY <2>1, <2>2, <2>4, StoreFirstOf
<1> DEFINE Do(g) == Head(code[g]).do
           Goes(g) ==
             /\ output' = output /\ Proceed(g) /\ Types'
             /\ counted'[g] = IF Do(g) = "count" THEN Append(counted[g], Head(code[g]))
                                ELSE counted[g]
             /\ refused'[g] = refused[g]
             /\ opened'[g] = IF Do(g) = "open" THEN opened[g] + 1 ELSE
                             IF Do(g) = "close" THEN opened[g] - 1 ELSE opened[g]
             /\ sent'[g] = IF Do(g) = "send" THEN sent[g] + 1 ELSE sent[g]
             /\ Do(g) # "publish" => (g \in queue' => g \in queue)
             /\ \A h \in Goroutines \ {g} :
                  /\ UNCHANGED <<counted[h], sent[h], refused[h], opened[h]>>
                  /\ h \in queue' => h \in queue
\* The step is made, and the account goes onwards.
<1>6. ASSUME NEW g \in Goroutines, NEW kinds, At(g, kinds), "store" \notin kinds,
             "panic" \notin kinds, Goes(g)
      PROVE  AccountInv'
  <2>1. PICK a \in Accounts[output[g]] :
          Keeps(a, g) /\ code[g] = a.left /\ a.left # << >> /\ Head(a.left).do \in kinds
    BY <1>4, <1>6
  <2>2. Onwards(a) \in Accounts[output[g]]
    BY <1>0, <1>6, <2>1, AccountGoesOn
  <2>3. code'[g] = Tail(code[g]) /\ \A h \in Goroutines \ {g} : code'[h] = code[h]
    BY <1>6 DEF Proceed, CodeInv
  <2>4. Do(g) # "publish" => Pending(g)' <= Pending(g)
    BY <1>6 DEF Pending
  <2> DEFINE b == Onwards(a)
  <2>5. /\ b.left = Tail(a.left)
        /\ b.refused = a.refused
        /\ b.counted = IF Do(g) = "count" THEN Append(a.counted, Head(a.left)) ELSE a.counted
        /\ b.sent = IF Do(g) = "send" THEN a.sent + 1 ELSE a.sent
        /\ b.published = IF Do(g) = "publish" THEN a.published + 1 ELSE a.published
        /\ Do(g) = "open" => b.opened = a.opened + 1
        /\ Do(g) = "close" => b.opened = a.opened - 1
        /\ Do(g) \notin {"open", "close"} => b.opened = a.opened
    BY <1>0, <2>1, OnwardsIs
  <2> HIDE DEF b
  <2>6. b.sent <= sent'[g] /\ sent'[g] + Pending(g)' <= b.sent + b.published
    <3>1. /\ a.sent \in Nat /\ a.published \in Nat /\ sent[g] \in Nat
          /\ Pending(g) \in {0, 1} /\ Pending(g)' \in {0, 1}
          /\ a.sent <= sent[g] /\ sent[g] + Pending(g) <= a.sent + a.published
      BY <1>0, <2>1 DEF Keeps, Pending
    <3>2. CASE Do(g) = "publish"
      <4>1. sent'[g] = sent[g] /\ b.sent = a.sent /\ b.published = a.published + 1
        BY <1>6, <2>5, <3>2
      <4> QED BY <3>1, <4>1
    <3>3. CASE Do(g) # "publish"
      <4>1. b.published = a.published /\ Pending(g)' <= Pending(g)
        BY <2>4, <2>5, <3>3
      <4>2. \/ sent'[g] = sent[g] /\ b.sent = a.sent
            \/ sent'[g] = sent[g] + 1 /\ b.sent = a.sent + 1
        BY <1>6, <2>5
      <4> QED BY <3>1, <4>1, <4>2
    <3> QED BY <3>2, <3>3
  <2>7. b.counted = counted'[g] /\ b.refused = refused'[g] /\ b.opened = opened'[g]
    BY <1>6, <2>1, <2>5 DEF Keeps
  <2>8. Keeps(b, g)'
    BY <1>6, <2>1, <2>3, <2>5, <2>6, <2>7 DEF Keeps
  <2>9. \A h \in Goroutines \ {g} : Alike(h)
    BY <1>6, <2>3
  <2> QED BY <1>3, <1>6, <2>2, <2>8, <2>9 DEF b
\* The call is refused.
<1>7. ASSUME NEW g \in Goroutines, At(g, Fallible), Fail(g), output' = output,
             UNCHANGED <<counted, sent, opened, queue>>
      PROVE  AccountInv'
  <2>1. PICK a \in Accounts[output[g]] :
          Keeps(a, g) /\ code[g] = a.left /\ a.left # << >> /\ Head(a.left).do \in Fallible
    BY <1>4, <1>7 DEF Fallible
  <2>2. Refused(a) \in Accounts[output[g]]
    BY <1>0, <2>1, AccountGoesOn
  <2>3. /\ code'[g] = Head(code[g]).else /\ \A h \in Goroutines \ {g} : code'[h] = code[h]
        /\ refused'[g] = TRUE /\ \A h \in Goroutines \ {g} : refused'[h] = refused[h]
        /\ Types'
    BY <1>7 DEF Fail, CodeInv, AccountInv
  <2> DEFINE b == Refused(a)
  <2>4. /\ b.left = Head(a.left).else
        /\ b.refused = TRUE /\ b.counted = a.counted /\ b.sent = a.sent
        /\ b.published = a.published /\ b.opened = a.opened
    BY <1>0, RefusedIs
  <2> HIDE DEF b
  <2>5. Keeps(b, g)'
    BY <1>7, <2>1, <2>3, <2>4 DEF Keeps, Pending
  <2> QED BY <1>3, <1>7, <2>2, <2>3, <2>5 DEF b
<1>8. ASSUME NEW g \in Goroutines,
             ReadTags(g) \/ ReadFields(g) \/ EndEdit(g) \/ ReadValues(g) \/ CallReturns(g)
               \/ EnsureFound(g) \/ UseKept(g) \/ ConnectReturns(g) \/ DisconnectClient(g)
      PROVE  AccountInv'
  <2> DEFINE kinds ==
        {"tags", "fields", "edit", "values", "call", "ensure", "use", "connect", "disconnect"}
  <2>1. At(g, kinds) /\ Goes(g)
    BY <1>8 DEF ReadTags, ReadFields, EndEdit, ReadValues, CallReturns, EnsureFound, UseKept,
         ConnectReturns, DisconnectClient, At, AccountInv, accountVars, clientVars
  <2> QED BY <1>6, <2>1
<1>9. ASSUME NEW g \in Goroutines, Count(g) \/ SendReturns(g) \/ OpenReturns(g)
               \/ CloseConnection(g) \/ PublishReturns(g)
      PROVE  AccountInv'
  <2> DEFINE kinds == {"count", "send", "open", "close", "publish"}
  <2>1. CASE Count(g)
    BY <1>6, <2>1 DEF Count, At, AccountInv, clientVars
  <2>2. CASE SendReturns(g)
    <3>1. sent[g] + 1 \in Nat
      BY <1>0
    <3>2. At(g, kinds) /\ Goes(g)
      BY <2>2, <3>1 DEF SendReturns, At, AccountInv, clientVars
    <3> QED BY <1>6, <3>2
  <2>3. CASE OpenReturns(g)
    <3>1. opened[g] + 1 \in Int
      BY <1>0
    <3>2. At(g, kinds) /\ Goes(g)
      BY <2>3, <3>1 DEF OpenReturns, At, AccountInv, clientVars
    <3> QED BY <1>6, <3>2
  <2>4. CASE CloseConnection(g)
    <3>1. opened[g] - 1 \in Int
      BY <1>0
    <3>2. At(g, kinds) /\ Goes(g)
      BY <2>4, <3>1 DEF CloseConnection, At, AccountInv, clientVars
    <3> QED BY <1>6, <3>2
  <2>5. CASE PublishReturns(g)
    BY <1>6, <2>5 DEF PublishReturns, At, AccountInv, accountVars
  <2> QED BY <1>9, <2>1, <2>2, <2>3, <2>4, <2>5
<1>10. ASSUME NEW g \in Goroutines, CallFails(g) \/ EnsureFails(g) \/ MQTTFails(g)
       PROVE  AccountInv'
  BY <1>7, <1>10 DEF CallFails, EnsureFails, MQTTFails, At, Fallible, clientVars
<1>11. ASSUME NEW g \in Goroutines, SortTags(g) PROVE AccountInv'
  <2>1. CASE UNCHANGED code
    BY <1>2, <1>11, <2>1 DEF SortTags, AccountInv, accountVars, clientVars
  <2>2. CASE Proceed(g)
    <3>1. At(g, {"sort"}) /\ Goes(g)
      BY <1>11, <2>2 DEF SortTags, At, AccountInv, accountVars, clientVars
    <3> QED BY <1>6, <3>1
  <2> QED BY <1>11, <2>1, <2>2 DEF SortTags
\* The account of g goes onwards already; the store is put before what is left.
<1>12. ASSUME NEW g \in Goroutines, EnsureCreate(g) PROVE AccountInv'
  <2>1. At(g, {"ensure"}) /\ output' = output /\ UNCHANGED accountVars /\ queue' = queue
    BY <1>12 DEF EnsureCreate
  <2>2. PICK a \in Accounts[output[g]] :
          Keeps(a, g) /\ code[g] = a.left /\ a.left # << >> /\ Head(a.left).do = "ensure"
    BY <1>4, <2>1
  <2>3. Onwards(a) \in Accounts[output[g]] /\ What(g) \in KeptBy(output[g])
    BY <1>0, <2>2, AccountGoesOn DEF KeptBy, What
  <2> DEFINE b == Onwards(a)
  <2>4. /\ b.left = Tail(a.left) /\ b.refused = a.refused /\ b.counted = a.counted
        /\ b.sent = a.sent /\ b.published = a.published /\ b.opened = a.opened
    BY <1>0, <2>2, OnwardsIs
  <2> HIDE DEF b
  <2>5. /\ code'[g] = Store(What(g)) \o b.left
        /\ \A h \in Goroutines \ {g} : code'[h] = code[h]
    BY <1>12, <2>2, <2>4 DEF EnsureCreate, CodeInv
  <2>6. Keeps(b, g)'
    BY <2>1, <2>2, <2>3, <2>4, <2>5 DEF Keeps, Pending, accountVars
  <2>7. Types' /\ \A h \in Goroutines \ {g} : Alike(h)
    BY <2>1, <2>5 DEF AccountInv, accountVars
  <2> QED BY <1>3, <2>1, <2>3, <2>6, <2>7 DEF b
<1>13. ASSUME NEW g \in Goroutines, StoreSecond(g) PROVE AccountInv'
  <2>1. At(g, {"store"}) /\ output' = output /\ UNCHANGED <<accountVars, queue>>
    BY <1>13 DEF StoreSecond
  <2>2. PICK a \in Accounts[output[g]] : Keeps(a, g) /\ Tail(code[g]) = a.left
    BY <1>5, <2>1
  <2>3. code'[g] = Tail(code[g]) /\ \A h \in Goroutines \ {g} : code'[h] = code[h]
    BY <1>13 DEF StoreSecond, Proceed, CodeInv
  <2>4. Keeps(a, g)'
    BY <2>1, <2>2, <2>3 DEF Keeps, Pending, accountVars
  <2>5. Types' /\ \A h \in Goroutines \ {g} : Alike(h)
    BY <2>1, <2>3 DEF AccountInv, accountVars
  <2> QED BY <1>3, <2>1, <2>2, <2>4, <2>5
<1>14. ASSUME NEW g \in Goroutines, Written(g) PROVE AccountInv'
  <2>1. PICK a \in Accounts[output[g]] : Keeps(a, g)
    BY <1>0
  <2>2. /\ UNCHANGED <<output, code, counted, refused, opened>>
        /\ sent'[g] = sent[g] + 1 /\ \A h \in Goroutines \ {g} : sent'[h] = sent[h]
        /\ sent' \in [Goroutines -> Nat]
        /\ g \in queue /\ queue' = queue \ {g}
    BY <1>14 DEF Written, AccountInv
  <2>3. a.sent <= sent'[g] /\ sent'[g] + Pending(g)' <= a.sent + a.published
    BY <1>0, <2>1, <2>2 DEF Keeps, Pending
  <2>4. Keeps(a, g)'
    BY <2>1, <2>2, <2>3 DEF Keeps
  <2>5. Types' /\ \A h \in Goroutines \ {g} : Alike(h)
    BY <2>2 DEF AccountInv
  <2> QED BY <1>3, <2>2, <2>4, <2>5
<1>15. CASE UNCHANGED <<output, code, accountVars, queue>>
  BY <1>2, <1>15 DEF AccountInv, accountVars
\* The account goes onwards, with the event sent by the library or without.
<1>16. ASSUME NEW g \in Goroutines, HandReturns(g) PROVE AccountInv'
  <2>1. CASE sent' = sent
    <3>1. At(g, {"hand"}) /\ Goes(g)
      BY <1>16, <2>1 DEF HandReturns, At, AccountInv, clientVars
    <3> QED BY <1>6, <3>1
  <2>2. CASE sent' = [sent EXCEPT ![g] = @ + 1]
    <3>1. At(g, {"hand"}) /\ output' = output /\ UNCHANGED <<counted, refused, opened, queue>>
      BY <1>16 DEF HandReturns, clientVars
    <3>2. PICK a \in Accounts[output[g]] :
            Keeps(a, g) /\ code[g] = a.left /\ a.left # << >> /\ Head(a.left).do = "hand"
      BY <1>4, <3>1
    <3>3. Flushed(a) \in Accounts[output[g]]
      BY <1>0, <3>2, AccountGoesOn
    <3> DEFINE b == Flushed(a)
    <3>4. /\ b.left = Tail(a.left)
          /\ b.counted = a.counted /\ b.refused = a.refused /\ b.opened = a.opened
          /\ b.sent = a.sent + 1 /\ b.published = a.published
      BY <1>0, <3>2, FlushedIs
    <3> HIDE DEF b
    <3>5. code'[g] = Tail(code[g]) /\ \A h \in Goroutines \ {g} : code'[h] = code[h]
      BY <1>16 DEF HandReturns, Proceed, CodeInv
    <3>6. /\ sent'[g] = sent[g] + 1 /\ \A h \in Goroutines \ {g} : sent'[h] = sent[h]
          /\ Types'
      BY <2>2, <3>1 DEF AccountInv
    <3>7. b.sent <= sent'[g] /\ sent'[g] + Pending(g)' <= b.sent + b.published
      BY <1>0, <3>1, <3>2, <3>4, <3>6 DEF Keeps, Pending
    <3>8. Keeps(b, g)'
      BY <3>1, <3>2, <3>4, <3>5, <3>6, <3>7 DEF Keeps
    <3>9. \A h \in Goroutines \ {g} : Alike(h)
      BY <3>1, <3>5, <3>6
    <3> QED BY <1>3, <3>1, <3>3, <3>6, <3>8, <3>9 DEF b
  <2> QED BY <1>16, <2>1, <2>2 DEF HandReturns
<1> QED
  BY <1>8, <1>9, <1>10, <1>11, <1>12, <1>13, <1>14, <1>15, <1>16 DEF Next, vars, clientVars,
    Dies, Panic, MapThrow, StaleValue, UseTorn, BeginEdit, EnsureMissing, StoreFirst

\* Who waits for what exists, and for what: a type for each of the rest.
LEMMA ClientStep == CodeInv /\ ClientInv /\ [Next]_vars => ClientInv'
<1> SUFFICES ASSUME CodeInv, ClientInv, [Next]_vars PROVE ClientInv'
  OBVIOUS
<1>1. CASE UNCHANGED <<missing, existing, connected, queue, dead>>
  BY <1>1 DEF ClientInv
<1>2. ASSUME NEW g \in Goroutines, EnsureCreate(g) PROVE ClientInv'
  <2>1. What(g) \in Kept
    BY <1>2, RemainderGoesOn, ExceptionsAssumption DEF EnsureCreate, At, CodeInv, What
  <2> QED BY <1>2, <2>1 DEF EnsureCreate, ClientInv
<1>3. ASSUME NEW g \in Goroutines,
             EnsureMissing(g) \/ EnsureFails(g) \/ ConnectReturns(g) \/ PublishReturns(g)
               \/ DisconnectClient(g) \/ Written(g)
      PROVE  ClientInv'
  BY <1>3 DEF EnsureMissing, EnsureFails, ConnectReturns, PublishReturns, DisconnectClient,
       Written, ClientInv
<1>4. ASSUME NEW g \in Goroutines, Panic(g) \/ MapThrow(g) \/ StaleValue(g) \/ UseTorn(g)
      PROVE  ClientInv'
  BY <1>4 DEF Panic, MapThrow, StaleValue, UseTorn, Dies, clientVars, ClientInv
<1> QED
  BY <1>1, <1>2, <1>3, <1>4 DEF Next, vars, clientVars, Count, ReadTags, SortTags, ReadFields,
    BeginEdit, EndEdit, ReadValues, CallReturns, SendReturns, HandReturns, OpenReturns,
    CloseConnection, CallFails, EnsureFound, StoreFirst, StoreSecond, UseKept, MQTTFails

LEMMA StepIInv == IInv /\ [Next]_vars => IInv'
BY CodeStep, TagsStep, FieldsStep, StaleStep, KeptStep, SurvivesStep, AccountStep, ClientStep DEF IInv

LEMMA AlwaysIInv == Spec => []IInv
BY InitIInv, StepIInv, PTL DEF Spec

(***************************************************************************)
(* Theorems                                                                *)
(***************************************************************************)
\* Of a goroutine that ended nothing is left of its account either.
LEMMA EndedAccount ==
  ASSUME IInv, NEW g \in Goroutines
  PROVE  \E a \in Accounts[output[g]] :
           Sound(output[g], a) /\ Keeps(a, g) /\ (Ended(g) => a.left = << >>)
<1>1. output[g] \in Outputs
  BY DEF IInv, CodeInv
<1>2. PICK a \in Accounts[output[g]] : Keeps(a, g)
  BY DEF IInv, AccountInv
<1>3. Sound(output[g], a)
  BY <1>1, SoundAssumption
<1>4. ASSUME Ended(g) PROVE a.left = << >>
  <2>1. \A k : code[g] # Store(k) \o a.left
    BY <1>1, <1>4, StoreFirstOf, AccountGoesOn DEF Ended
  <2> QED BY <1>2, <1>4, <2>1 DEF Keeps, Ended
<1> QED BY <1>2, <1>3, <1>4

\* newKhulnasoftPayload sorts the tags once; no handler stores into them
\* afterwards, although a dozen sort them, and none reads anything else.
THEOREM TagsUntouched == Spec => []TagsInv
BY AlwaysIInv, PTL DEF IInv

\* However many outputs an event has, their handlers read its own tags, and
\* its fields change only if one of them is an output that edits fields.
THEOREM EventSeen == Spec => []SeesTheEvent
<1>1. IInv => SeesTheEvent
  <2> SUFFICES ASSUME IInv PROVE SeesTheEvent
    OBVIOUS
  <2>1. \A g \in Goroutines : readTags[g] \in Rearranged(ReceivedTags)
    BY SortedIsSorted DEF IInv, TagsInv
  <2> QED BY <2>1 DEF IInv, FieldsInv, Edits, SeesTheEvent
<1> QED BY <1>1, AlwaysIInv, PTL

\* However many events are in progress, the process ends only by a handler
\* that panics on some events, by two of one event of which one edits its
\* fields, or removes keys the other collected, or by two of one output that
\* keeps what it creates.
THEOREM ProcessSurvives == Spec => []Survives
BY AlwaysIInv, PTL DEF IInv

\* Every variable keeps its type: among others, no connection is closed that
\* was not opened, although any call may fail.
THEOREM HandlersTypeCorrect == Spec => []HandlersTypeOK
<1>1. IInv => HandlersTypeOK
  <2> SUFFICES ASSUME IInv PROVE HandlersTypeOK
    OBVIOUS
  <2>1. \A g \in Goroutines : opened[g] \in Nat
    BY EndedAccount DEF Sound, Keeps
  <2>2. opened \in [Goroutines -> Nat]
    BY <2>1 DEF IInv, AccountInv
  <2>3. tags \in [Events -> Seq(Nat)] /\ readTags \in [Goroutines -> Seq(Nat)]
    BY SortedIsSorted DEF IInv, TagsInv
  <2> QED
    BY <2>2, <2>3 DEF IInv, CodeInv, FieldsInv, StaleInv, KeptInv, AccountInv, ClientInv, HandlersTypeOK
<1> QED BY <1>1, AlwaysIInv, PTL

\* However many handlers run, and whatever fails, one that ends has counted its
\* event once in every backend that is not exempt: nothing another handler does
\* takes it to an account it would not come to alone.
THEOREM AlwaysAccounted == Spec => []Accounted
<1>1. IInv => Accounted
  BY EndedAccount DEF Sound, Keeps, Accounted
<1> QED BY <1>1, AlwaysIInv, PTL

\* However many handlers run, ok is said of an event that was sent, error of one
\* a call of which failed, and none is sent twice, but for the outputs named: a
\* publication that leaves the queue late, or a buffered event that is flushed
\* late or lost, adds nothing to what the handler accounts for.
THEOREM ResultsAlwaysReported == Spec => []ReportsResult
<1>1. IInv => ReportsResult
  <2> SUFFICES ASSUME IInv, NEW g \in Goroutines
               PROVE  /\ Says(counted[g], "ok") /\ output[g] \notin Unreliable => sent[g] > 0
                      /\ Says(counted[g], "error") => refused[g]
                      /\ output[g] \notin Repeating => sent[g] <= 1
    BY DEF ReportsResult
  <2>1. PICK a \in Accounts[output[g]] : Sound(output[g], a) /\ Keeps(a, g)
    BY EndedAccount
  <2>2. output[g] \in Outputs /\ sent[g] \in Nat
    BY DEF IInv, CodeInv, AccountInv
  <2>3. a.sent \in Nat /\ a.published \in Nat
    BY <2>2, AccountGoesOn DEF AccountOf
  <2>4. a.sent <= sent[g] /\ sent[g] <= a.sent + a.published
    BY <2>1, <2>2, <2>3 DEF Keeps, Pending
  <2> QED BY <2>1, <2>2, <2>3, <2>4 DEF Sound, Keeps
<1> QED BY <1>1, AlwaysIInv, PTL

\* However many handlers run, one that ends has closed every connection it
\* opened, on whatever path, but for the outputs that leak; and what clients keep
\* exists.
THEOREM ResourcesAlwaysKept == Spec => []ResourcesKept
<1>1. IInv => ResourcesKept
  BY EndedAccount DEF IInv, KeptInv, Sound, Keeps, KeptExists, ResourcesKept
<1> QED BY <1>1, AlwaysIInv, PTL
=============================================================================
