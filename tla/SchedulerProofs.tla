--------------------------- MODULE SchedulerProofs ---------------------------
(***************************************************************************)
(* Proofs about the scheduler process: the slots of the semaphore add up,  *)
(* a row that reads running has somebody who ends it, three failures       *)
(* deactivate a row unless a commit crossed another, and a row that reads  *)
(* success has its run and its report - for any number of rows, request    *)
(* threads, slots, runs and days.                                          *)
(*                                                                         *)
(* The slots need to know that only scheduled runs queue and that nothing  *)
(* of the scheduler outlives its process; the type of the failure counter  *)
(* needs that every failure, in a row and in what an open transaction has  *)
(* read of it, is owed to a run of its own that is over; the owners need   *)
(* that the scheduler records no run while it marks rows; the reports need *)
(* that a linked run is over, and that a recorded run is not linked yet.   *)
(***************************************************************************)
EXTENDS Scheduler, FiniteSetTheorems, TLAPS

RunType == [state : RunStates, task : Tasks, manual : BOOLEAN, day : 0 .. MaxDay,
            opened : 0 .. MaxDay, result : Results]

LoopType == [pc : LoopPcs, tasks : SUBSET Tasks, noted : SUBSET Tasks,
             reports : SUBSET RunIds, lost : SUBSET Tasks]

TxnType == [writer : Writers, task : Tasks, run : 0 .. MaxRuns, was : RowType]

Busy        == {r \in RunIds : ~runs[r].manual /\ runs[r].state = "working"}
Recorded(t) == {r \in RunIds : runs[r].task = t /\ runs[r].state = "over"}

OnlyScheduledQueue == \A r \in RunIds : runs[r].state = "queued" => ~runs[r].manual

DownIsDead == ~Up => \A r \in RunIds : runs[r].state \in Live => runs[r].manual

StartIsFull == loop.pc \in Starting => permits = Limit

FailuresAreRuns == \A t \in Tasks : rows[t].failures <= Cardinality(Recorded(t))

\* A writer has one transaction, and what it has read is owed to runs that
\* are over; the run it records is not.
Records(x) ==
  /\ x.run \in RunIds
  /\ runs[x.run].state = "ended" /\ runs[x.run].task = x.task /\ x.writer = Recorder(x.run)

OneEach   == \A x, y \in txns : x.writer = y.writer => x = y
TxnRuns   == \A x \in txns : x.run # 0 => Records(x)
TxnCounts == \A x \in txns : x.was.failures <= Cardinality(Recorded(x.task))

TxnInv == OneEach /\ TxnRuns /\ TxnCounts

CoreInv ==
  TypeOK /\ Slots /\ OnlyScheduledQueue /\ DownIsDead /\ StartIsFull /\ FailuresAreRuns /\ TxnInv

-----------------------------------------------------------------------------
(* Counting.                                                               *)

LEMMA FewRuns ==
  ASSUME NEW S, S \subseteq RunIds
  PROVE  IsFiniteSet(S) /\ Cardinality(S) \in Nat /\ Cardinality(S) <= MaxRuns
<1>1. MaxRuns \in Nat
  BY SchedulerAssumption
<1>2. IsFiniteSet(RunIds) /\ Cardinality(RunIds) = MaxRuns
  BY <1>1, FS_Interval DEF RunIds
<1> QED
  BY <1>2, FS_Subset, FS_CardinalityType

LEMMA Fewer ==
  ASSUME NEW S, S \subseteq RunIds, NEW r \in RunIds, r \notin S
  PROVE  Cardinality(S) + 1 <= MaxRuns
<1>1. IsFiniteSet(S) /\ Cardinality(S) \in Nat
  BY FewRuns
<1>2. Cardinality(S \cup {r}) = Cardinality(S) + 1
  BY <1>1, FS_AddElement
<1>3. Cardinality(S \cup {r}) <= MaxRuns
  BY FewRuns
<1> QED
  BY <1>2, <1>3

\* Two sets of runs that agree except perhaps on r.
LEMMA OneApart ==
  ASSUME NEW S, NEW T, NEW r, S \subseteq RunIds, T \ {r} = S \ {r}
  PROVE  /\ (r \in S <=> r \in T) => Cardinality(T) = Cardinality(S)
         /\ r \notin S /\ r \in T => Cardinality(T) = Cardinality(S) + 1
         /\ r \in S /\ r \notin T => Cardinality(T) = Cardinality(S) - 1
<1>1. IsFiniteSet(S) /\ Cardinality(S) \in Nat
  BY FewRuns
<1>2. CASE r \in S <=> r \in T
  BY <1>2, S = T
<1>3. CASE r \notin S /\ r \in T
  <2>1. T = S \cup {r}
    BY <1>3
  <2> QED
    BY <1>1, <1>3, <2>1, FS_AddElement
<1>4. CASE r \in S /\ r \notin T
  <2>1. T = S \ {r}
    BY <1>4
  <2> QED
    BY <1>1, <1>4, <2>1, FS_RemoveElement
<1> QED
  BY <1>2, <1>3, <1>4

\* More runs on record excuse more failures.
LEMMA MoreRecorded ==
  ASSUME NEW S, NEW T, S \subseteq T, T \subseteq RunIds
  PROVE  Cardinality(S) <= Cardinality(T)
  BY FewRuns, FS_Subset

-----------------------------------------------------------------------------
(* What the steps do to runs and rows.                                     *)

LEMMA RunChange ==
  ASSUME TypeOK, NEW r \in RunIds, NEW x \in RunType, runs' = [runs EXCEPT ![r] = x]
  PROVE  /\ runs' \in [RunIds -> RunType]
         /\ runs'[r] = x
         /\ \A q \in RunIds : q # r => runs'[q] = runs[q]
<1>1. runs \in [RunIds -> RunType]
  BY DEF TypeOK, RunType
<1> HIDE DEF RunType
<1> QED
  BY <1>1

LEMMA RowChange ==
  ASSUME TypeOK, NEW t \in Tasks, NEW x \in RowType, rows' = [rows EXCEPT ![t] = x]
  PROVE  /\ rows' \in [Tasks -> RowType]
         /\ rows'[t] = x
         /\ \A u \in Tasks : u # t => rows'[u] = rows[u]
<1>1. rows \in [Tasks -> RowType]
  BY DEF TypeOK
<1> HIDE DEF RowType
<1> QED
  BY <1>1

LEMMA DayType == ASSUME TypeOK PROVE day \in 0 .. MaxDay /\ UtcDay \in 0 .. MaxDay
  BY SchedulerAssumption DEF TypeOK, UtcDay

\* A run enters a new state and keeps its task and kind.
Turns(r, s) ==
  /\ runs' \in [RunIds -> RunType]
  /\ runs'[r].state = s /\ runs'[r].task = runs[r].task /\ runs'[r].manual = runs[r].manual
  /\ \A q \in RunIds : q # r => runs'[q] = runs[q]

LEMMA AcquireTurns ==
  ASSUME TypeOK, NEW r \in RunIds, Acquire(r)
  PROVE  Turns(r, "working") /\ runs'[r].result = runs[r].result
<1> DEFINE x == [runs[r] EXCEPT !.state = "working", !.opened = UtcDay]
<1>1. runs \in [RunIds -> RunType] /\ UtcDay \in 0 .. MaxDay
  BY DayType DEF TypeOK, RunType
<1>2. runs[r] \in RunType
  BY <1>1
<1>3. /\ x \in RunType /\ x.state = "working" /\ x.task = runs[r].task
      /\ x.manual = runs[r].manual /\ x.result = runs[r].result
  BY <1>1, <1>2 DEF RunType, RunStates
<1>4. runs' = [runs EXCEPT ![r] = x]
  BY <1>1 DEF Acquire
<1> QED
  BY <1>3, <1>4, RunChange DEF Turns

LEMMA EndTurns ==
  ASSUME TypeOK, NEW r \in RunIds, End(r)
  PROVE  /\ Turns(r, "ended")
         /\ \E e \in Endings(reports[r]) :
              runs'[r].result = e.result /\ reports' = [reports EXCEPT ![r] = e.report]
<1>1. PICK e \in Endings(reports[r]) : /\ runs' = [runs EXCEPT ![r].state = "ended", ![r].result = e.result]
                                       /\ reports' = [reports EXCEPT ![r] = e.report]
  BY DEF End
<1> DEFINE x == [runs[r] EXCEPT !.state = "ended", !.result = e.result]
<1>2. runs \in [RunIds -> RunType] /\ e.result \in Results
  BY DEF TypeOK, RunType, Endings, Results
<1>3. runs[r] \in RunType
  BY <1>2
<1>4. /\ x \in RunType /\ x.state = "ended" /\ x.task = runs[r].task
      /\ x.manual = runs[r].manual /\ x.result = e.result
  BY <1>2, <1>3 DEF RunType, RunStates
<1>5. runs' = [runs EXCEPT ![r] = x]
  BY <1>1, <1>2
<1> QED
  BY <1>1, <1>4, <1>5, RunChange DEF Turns

LEMMA RecordTurns ==
  ASSUME TypeOK, NEW r \in RunIds, runs' = [runs EXCEPT ![r].state = "over"]
  PROVE  Turns(r, "over") /\ runs'[r].result = runs[r].result
<1> DEFINE x == [runs[r] EXCEPT !.state = "over"]
<1>1. runs \in [RunIds -> RunType]
  BY DEF TypeOK, RunType
<1>2. runs[r] \in RunType
  BY <1>1
<1>3. /\ x \in RunType /\ x.state = "over" /\ x.task = runs[r].task
      /\ x.manual = runs[r].manual /\ x.result = runs[r].result
  BY <1>1, <1>2 DEF RunType, RunStates
<1>4. runs' = [runs EXCEPT ![r] = x]
  BY <1>1
<1> QED
  BY <1>3, <1>4, RunChange DEF Turns

\* A new run takes an id nobody has used.
Begins(r, t, s, m) ==
  /\ runs[r].state = "none"
  /\ runs' \in [RunIds -> RunType]
  /\ runs'[r].state = s /\ runs'[r].task = t /\ runs'[r].manual = m
  /\ \A q \in RunIds : q # r => runs'[q] = runs[q]

LEMMA LaunchBegins ==
  ASSUME TypeOK, NEW t \in Tasks, Launch(t)
  PROVE  \E r \in RunIds : Begins(r, t, "queued", FALSE)
<1>1. PICK r \in RunIds :
        /\ NextRun(r)
        /\ runs' = [runs EXCEPT ![r] = [state |-> "queued", task |-> t, manual |-> FALSE, day |-> day,
                                        opened |-> 0, result |-> "none"]]
  BY DEF Launch
<1>2. [state |-> "queued", task |-> t, manual |-> FALSE, day |-> day, opened |-> 0,
       result |-> "none"] \in RunType
  BY DayType, SchedulerAssumption DEF RunType, RunStates, Results
<1>3. runs[r].state = "none"
  BY <1>1 DEF NextRun, Unstarted
<1> QED
  BY <1>1, <1>2, <1>3, RunChange DEF Begins

LEMMA TriggerBegins ==
  ASSUME TypeOK, NEW t \in Tasks, Trigger(t)
  PROVE  \E r \in RunIds : /\ Begins(r, t, "working", TRUE)
                           /\ reports' = [reports EXCEPT ![r] = "running"]
<1>1. PICK r \in RunIds :
        /\ NextRun(r)
        /\ runs' = [runs EXCEPT ![r] = [state |-> "working", task |-> t, manual |-> TRUE, day |-> day,
                                        opened |-> UtcDay, result |-> "none"]]
        /\ reports' = [reports EXCEPT ![r] = "running"]
  BY DEF Trigger
<1>2. [state |-> "working", task |-> t, manual |-> TRUE, day |-> day, opened |-> UtcDay,
       result |-> "none"] \in RunType
  BY DayType DEF RunType, RunStates, Results
<1>3. runs[r].state = "none"
  BY <1>1 DEF NextRun, Unstarted
<1> QED
  BY <1>1, <1>2, <1>3, RunChange DEF Begins

\* The runs of one of the processes die.
LEMMA KillEffect ==
  ASSUME TypeOK, NEW m \in BOOLEAN, KillRuns(m)
  PROVE  /\ runs' \in [RunIds -> RunType]
         /\ \A r \in RunIds :
              /\ runs[r].state \in Live /\ runs[r].manual = m => runs'[r].state = "killed"
              /\ ~(runs[r].state \in Live /\ runs[r].manual = m) => runs'[r] = runs[r]
              /\ runs'[r].task = runs[r].task /\ runs'[r].manual = runs[r].manual
<1>1. runs \in [RunIds -> RunType]
  BY DEF TypeOK, RunType
<1>2. ASSUME NEW r \in RunIds
      PROVE  /\ [runs[r] EXCEPT !.state = "killed"] \in RunType
             /\ [runs[r] EXCEPT !.state = "killed"].state = "killed"
             /\ [runs[r] EXCEPT !.state = "killed"].task = runs[r].task
             /\ [runs[r] EXCEPT !.state = "killed"].manual = runs[r].manual
  <2>1. runs[r] \in RunType
    BY <1>1
  <2> QED
    BY <2>1 DEF RunType, RunStates
<1> HIDE DEF RunType
<1> QED
  BY <1>1, <1>2 DEF KillRuns

-----------------------------------------------------------------------------
(* What transactions do to rows.                                           *)

Struck(x) == x.failures >= 3 => ~x.active

\* What a request may make of a row it has read, and what a run.
Edited(new, was) ==
  /\ new \in RowType
  /\ new.status = was.status /\ new.report = was.report
  /\ new.failures <= was.failures
  /\ Struck(was) => Struck(new)

Judged(new, was, r) ==
  /\ new \in RowType
  /\ \/ new.status = "success" /\ new.report = r /\ runs[r].result # "failed"
     \/ new.status = "failed" /\ new.report = was.report
  /\ new.failures <= was.failures + 1
  /\ Struck(was) => Struck(new)

LEMMA RowInts == ASSUME NEW x \in RowType PROVE x.failures \in 0 .. MaxRuns /\ x.failures \in Int /\ MaxRuns \in Nat
  BY SchedulerAssumption DEF RowType

LEMMA EditsOf ==
  ASSUME NEW was \in RowType, NEW new \in Edits(was)
  PROVE  Edited(new, was)
<1>1. was.failures \in 0 .. MaxRuns /\ MaxRuns \in Nat
  BY RowInts
<1>2. CASE new = [was EXCEPT !.active = FALSE]
  <2>1. new.status = was.status /\ new.report = was.report /\ new.failures = was.failures
    BY <1>2 DEF RowType
  <2>2. new \in RowType
    BY <1>2 DEF RowType
  <2>3. ~new.active
    BY <1>2 DEF RowType
  <2>4. Struck(new)
    BY <2>3 DEF Struck
  <2> QED
    BY <1>1, <2>1, <2>2, <2>4 DEF Edited
<1>3. CASE new = [was EXCEPT !.active = TRUE, !.failures = 0]
  <2>1. new.status = was.status /\ new.report = was.report /\ new.failures = 0
    BY <1>3 DEF RowType
  <2>2. new \in RowType
    <3>1. 0 \in 0 .. MaxRuns
      BY <1>1
    <3>2. ASSUME NEW y \in RowType PROVE [y EXCEPT !.active = TRUE] \in RowType
      BY DEF RowType
    <3>3. ASSUME NEW y \in RowType PROVE [y EXCEPT !.failures = 0] \in RowType
      BY <3>1 DEF RowType
    <3> QED
      BY <1>3, <3>2, <3>3
  <2>3. Struck(new) /\ new.failures <= was.failures
    BY <1>1, <2>1 DEF Struck
  <2> QED
    BY <2>1, <2>2, <2>3 DEF Edited
<1>4. ASSUME NEW w \in Windows, new = [was EXCEPT !.trigger = w]
      PROVE  Edited(new, was)
  <2>1. new.status = was.status /\ new.report = was.report /\ new.failures = was.failures
    BY <1>4 DEF RowType
  <2>2. new \in RowType
    BY <1>4 DEF RowType
  <2>3. new.active = was.active
    BY <1>4 DEF RowType
  <2>4. Struck(was) => Struck(new)
    BY <2>1, <2>3, Zenon DEF Struck
  <2>5. new.failures <= was.failures
    BY <1>1, <2>1
  <2> QED
    BY <2>1, <2>2, <2>4, <2>5 DEF Edited
<1> QED
  BY <1>2, <1>3, <1>4 DEF Edits

LEMMA SuccessType ==
  ASSUME NEW x \in RowType, NEW d \in 0 .. MaxDay, NEW r \in 0 .. MaxRuns, MaxRuns \in Nat
  PROVE  /\ [x EXCEPT !.status = "success", !.report = r, !.failures = 0] \in RowType
         /\ [x EXCEPT !.date = d, !.status = "success", !.report = r, !.failures = 0] \in RowType
<1>1. 0 \in 0 .. MaxRuns
  OBVIOUS
<1>2. [x EXCEPT !.date = d] \in RowType
  BY DEF RowType
<1>3. ASSUME NEW y \in RowType
      PROVE  [y EXCEPT !.status = "success", !.report = r, !.failures = 0] \in RowType
  <2>1. [y EXCEPT !.status = "success"] \in RowType
    BY DEF RowType
  <2>2. ASSUME NEW z \in RowType PROVE [z EXCEPT !.report = r] \in RowType
    BY DEF RowType
  <2>3. ASSUME NEW z \in RowType PROVE [z EXCEPT !.failures = 0] \in RowType
    BY <1>1 DEF RowType
  <2> QED
    BY <2>1, <2>2, <2>3
<1> QED
  BY <1>2, <1>3

LEMMA FailedType ==
  ASSUME NEW x \in RowType, NEW d \in 0 .. MaxDay, NEW n \in 0 .. MaxRuns, NEW a \in BOOLEAN
  PROVE  [x EXCEPT !.date = d, !.status = "failed", !.failures = n, !.active = a] \in RowType
<1>1. [x EXCEPT !.date = d] \in RowType
  BY DEF RowType
<1>2. ASSUME NEW z \in RowType PROVE [z EXCEPT !.status = "failed"] \in RowType
  BY DEF RowType
<1>3. ASSUME NEW z \in RowType PROVE [z EXCEPT !.failures = n] \in RowType
  BY DEF RowType
<1>4. ASSUME NEW z \in RowType PROVE [z EXCEPT !.active = a] \in RowType
  BY DEF RowType
<1> QED
  BY <1>1, <1>2, <1>3, <1>4

LEMMA OutcomeOf ==
  ASSUME TypeOK, NEW r \in RunIds, NEW was \in RowType, was.failures + 1 <= MaxRuns
  PROVE  Judged(Outcome(was, r), was, r)
<1>1. runs[r] \in RunType /\ MaxRuns \in Nat /\ r \in 0 .. MaxRuns
  BY SchedulerAssumption DEF TypeOK, RunType, RunIds
<1>2. runs[r].day \in 0 .. MaxDay /\ was.failures \in 0 .. MaxRuns /\ was.active \in BOOLEAN
  BY <1>1 DEF RunType, RowType
<1>3. CASE runs[r].manual /\ runs[r].result = "failed"
  <2> DEFINE x == [was EXCEPT !.status = "failed"]
  <2>1. Outcome(was, r) = x
    BY <1>3 DEF Outcome, Tested
  <2>2. /\ x \in RowType /\ x.status = "failed" /\ x.failures = was.failures
        /\ x.active = was.active /\ x.report = was.report
    BY <1>2 DEF RowType
  <2> HIDE DEF x
  <2>3. Struck(was) => Struck(x)
    BY <2>2, Zenon DEF Struck
  <2> QED
    BY <1>2, <2>1, <2>2, <2>3 DEF Judged
<1>4. CASE runs[r].manual /\ runs[r].result # "failed"
  <2> DEFINE x == [was EXCEPT !.status = "success", !.report = r, !.failures = 0]
  <2>1. Outcome(was, r) = x
    BY <1>4 DEF Outcome, Tested
  <2>2. x.status = "success" /\ x.failures = 0 /\ x.report = r
    BY <1>1, <1>2 DEF RowType
  <2>3. x \in RowType
    BY <1>1, <1>2, SuccessType
  <2> HIDE DEF x
  <2> QED
    BY <1>2, <1>4, <2>1, <2>2, <2>3 DEF Judged, Struck
<1>5. CASE ~runs[r].manual /\ runs[r].result = "failed"
  <2> DEFINE a == was.active /\ was.failures + 1 < 3
             n == was.failures + 1
             x == [was EXCEPT !.date = runs[r].day, !.status = "failed", !.failures = n, !.active = a]
  <2>1. Outcome(was, r) = x
    BY <1>5 DEF Outcome, Failed
  <2>2. n \in 0 .. MaxRuns /\ a \in BOOLEAN /\ (n >= 3 => ~a) /\ n <= was.failures + 1
    BY <1>1, <1>2
  <2> HIDE DEF a, n
  <2>3. x \in RowType
    BY <1>2, <2>2, FailedType
  <2>4. x.status = "failed" /\ x.report = was.report /\ x.failures = n
    BY <2>2 DEF RowType
  <2>5. x.active = a
    BY <2>2 DEF RowType
  <2> HIDE DEF x
  <2>6. Struck(x)
    BY <2>2, <2>4, <2>5, Zenon DEF Struck
  <2> QED
    BY <2>1, <2>2, <2>3, <2>4, <2>6 DEF Judged
<1>6. CASE ~runs[r].manual /\ runs[r].result # "failed"
  <2> DEFINE x == [was EXCEPT !.date = runs[r].day, !.status = "success", !.report = r, !.failures = 0]
  <2>1. Outcome(was, r) = x
    BY <1>6 DEF Outcome, Succeeded
  <2>2. x.status = "success" /\ x.failures = 0 /\ x.report = r
    BY <1>1, <1>2 DEF RowType
  <2>3. x \in RowType
    BY <1>1, <1>2, SuccessType
  <2> HIDE DEF x
  <2> QED
    BY <1>2, <1>6, <2>1, <2>2, <2>3 DEF Judged, Struck
<1> QED
  BY <1>3, <1>4, <1>5, <1>6

LEMMA MergedRow ==
  ASSUME NEW now \in RowType, NEW was \in RowType, NEW new \in RowType
  PROVE  LET m == Merged(now, was, new)
         IN  /\ m \in RowType /\ m.life = now.life
             /\ m.status = Kept(now.status, was.status, new.status)
             /\ m.report = Kept(now.report, was.report, new.report)
             /\ m.failures = Kept(now.failures, was.failures, new.failures)
             /\ m.active = Kept(now.active, was.active, new.active)
<1>1. /\ now.active \in BOOLEAN /\ new.active \in BOOLEAN
      /\ Kept(now.active, was.active, new.active) \in BOOLEAN
  BY DEF RowType, Kept
<1> DEFINE act == Kept(now.active, was.active, new.active)
<1> HIDE DEF act
<1>2. Merged(now, was, new) =
        [life |-> now.life, active |-> act,
         trigger |-> Kept(now.trigger, was.trigger, new.trigger),
         date |-> Kept(now.date, was.date, new.date),
         status |-> Kept(now.status, was.status, new.status),
         report |-> Kept(now.report, was.report, new.report),
         failures |-> Kept(now.failures, was.failures, new.failures)]
  BY DEF Merged, act
<1>3. Merged(now, was, new) \in RowType
  <2>1. act \in BOOLEAN
    BY <1>1 DEF act
  <2> QED
    BY <1>2, <2>1 DEF RowType, Kept
<1> QED
  BY <1>2, <1>3 DEF act

\* What a commit leaves in the row it writes.
CommitOf(x, new) ==
  LET t == x.task
  IN  /\ rows' \in [Tasks -> RowType]
      /\ \A u \in Tasks : u # t => rows'[u] = rows[u]
      /\ \A u \in Tasks : rows'[u].life = rows[u].life
      /\ crossed \subseteq crossed' /\ crossed' \subseteq Tasks
      /\ rows'[t].failures = rows[t].failures \/ rows'[t].failures = new.failures
      /\ IF new.status = x.was.status \/ ~Present(t) THEN rows'[t].status = rows[t].status
                                                   ELSE rows'[t].status = new.status
      /\ IF new.report = x.was.report \/ ~Present(t) THEN rows'[t].report = rows[t].report
                                                   ELSE rows'[t].report = new.report
      /\ \/ t \in crossed' \/ rows'[t] = rows[t]
         \/ rows'[t].active = new.active /\ rows'[t].failures = new.failures

LEMMA CommitEffect ==
  ASSUME TypeOK, NEW x \in txns, NEW new \in RowType, Commit(x, new)
  PROVE  CommitOf(x, new)
<1>1. /\ rows \in [Tasks -> RowType] /\ x.task \in Tasks /\ x.was \in RowType
      /\ rows[x.task] \in RowType /\ crossed \subseteq Tasks
  BY DEF TypeOK
<1>2. CASE ~Present(x.task)
  BY <1>1, <1>2 DEF Commit, CommitOf
<1>3. CASE Present(x.task)
  <2> DEFINE t == x.task
             m == Merged(rows[t], x.was, new)
  <2>1. rows' = [rows EXCEPT ![t] = m] /\ crossed \subseteq crossed' /\ crossed' \subseteq Tasks
    BY <1>1, <1>3 DEF Commit
  <2>2. /\ m \in RowType /\ m.life = rows[t].life
        /\ m.status = Kept(rows[t].status, x.was.status, new.status)
        /\ m.report = Kept(rows[t].report, x.was.report, new.report)
        /\ m.failures = Kept(rows[t].failures, x.was.failures, new.failures)
        /\ m.active = Kept(rows[t].active, x.was.active, new.active)
    BY <1>1, MergedRow
  <2> HIDE DEF m
  <2>3. rows' \in [Tasks -> RowType] /\ rows'[t] = m /\ \A u \in Tasks : u # t => rows'[u] = rows[u]
    BY <1>1, <2>1, <2>2, RowChange
  <2>4. t \in crossed' \/ (rows[t].active = x.was.active /\ rows[t].failures = x.was.failures)
    BY <1>3 DEF Commit
  <2>5. rows[t].active = x.was.active => m.active = new.active
    BY <2>2, Zenon DEF Kept
  <2>6. rows[t].failures = x.was.failures => m.failures = new.failures
    BY <2>2 DEF Kept
  <2>7. t \in crossed' \/ (m.active = new.active /\ m.failures = new.failures)
    BY <2>4, <2>5, <2>6
  <2>8. \A u \in Tasks : rows'[u].life = rows[u].life
    BY <2>2, <2>3
  <2>9. /\ m.failures = rows[t].failures \/ m.failures = new.failures
        /\ IF new.status = x.was.status THEN m.status = rows[t].status ELSE m.status = new.status
        /\ IF new.report = x.was.report THEN m.report = rows[t].report ELSE m.report = new.report
    BY <2>2 DEF Kept
  <2> QED
    BY <1>3, <2>1, <2>3, <2>7, <2>8, <2>9 DEF CommitOf
<1> QED
  BY <1>2, <1>3

LEMMA EditEffect ==
  ASSUME TypeOK, NEW w \in Requests, EditCommit(w)
  PROVE  \E x \in txns, new \in RowType :
           /\ x.writer = w /\ txns' = txns \ {x} /\ Edited(new, x.was) /\ CommitOf(x, new)
<1>1. PICK x \in txns : x.writer = w /\ \E new \in Edits(x.was) : Commit(x, new)
  BY DEF EditCommit
<1>2. PICK new \in Edits(x.was) : Commit(x, new)
  BY <1>1
<1>3. x.was \in RowType
  BY DEF TypeOK
<1>4. Edited(new, x.was)
  BY <1>3, EditsOf
<1> QED
  BY <1>1, <1>2, <1>4, CommitEffect DEF Edited, Commit

\* Marking and recovering rows.
LEMMA MarkRow ==
  ASSUME TypeOK, Mark
  PROVE  /\ rows' \in [Tasks -> RowType]
         /\ \A t \in Tasks :
              /\ t \notin loop.tasks => rows'[t] = rows[t]
              /\ rows'[t].status = "running" \/ rows'[t].status = rows[t].status
              /\ rows'[t].life = rows[t].life /\ rows'[t].failures = rows[t].failures
              /\ rows'[t].active = rows[t].active /\ rows'[t].report = rows[t].report
         /\ \/ loop' = [loop EXCEPT !.pc = "marked", !.noted = {}, !.lost = @ \ loop.tasks]
            \/ loop' = At("idle", loop.lost) /\ UNCHANGED rows
<1>1. rows \in [Tasks -> RowType] /\ day \in 0 .. MaxDay
  BY DayType DEF TypeOK
<1>2. ASSUME NEW x \in RowType, NEW s \in {"running", x.status}
      PROVE  LET y == [x EXCEPT !.date = day, !.status = s]
             IN  /\ y \in RowType /\ y.status = s /\ y.life = x.life /\ y.failures = x.failures
                 /\ y.active = x.active /\ y.report = x.report
  BY <1>1 DEF RowType
<1>3. CASE UNCHANGED rows
  BY <1>1, <1>3 DEF Mark
<1>4. CASE \A t \in loop.tasks : Present(t)
  <2>1. /\ rows' = [t \in Tasks |->
             IF t \in loop.tasks
               THEN [rows[t] EXCEPT !.date = day, !.status = IF t \in loop.noted THEN @ ELSE "running"]
               ELSE rows[t]]
        /\ loop' = [loop EXCEPT !.pc = "marked", !.noted = {}, !.lost = @ \ loop.tasks]
    BY <1>4 DEF Mark
  <2> HIDE DEF RowType
  <2>2. ASSUME NEW t \in Tasks
        PROVE  /\ rows'[t] \in RowType
               /\ t \notin loop.tasks => rows'[t] = rows[t]
               /\ rows'[t].status = "running" \/ rows'[t].status = rows[t].status
               /\ rows'[t].life = rows[t].life /\ rows'[t].failures = rows[t].failures
               /\ rows'[t].active = rows[t].active /\ rows'[t].report = rows[t].report
    <3>1. CASE t \in loop.tasks
      <4> DEFINE s == IF t \in loop.noted THEN rows[t].status ELSE "running"
                 y == [rows[t] EXCEPT !.date = day, !.status = s]
      <4>1. rows'[t] = y
        BY <2>1, <3>1
      <4>2. rows[t] \in RowType /\ s \in {"running", rows[t].status}
        BY <1>1
      <4> HIDE DEF s
      <4>3. /\ y \in RowType /\ y.status = s /\ y.life = rows[t].life
            /\ y.failures = rows[t].failures /\ y.active = rows[t].active /\ y.report = rows[t].report
        BY <1>2, <4>2
      <4> HIDE DEF y
      <4> QED
        BY <3>1, <4>1, <4>2, <4>3
    <3>2. CASE t \notin loop.tasks
      BY <1>1, <2>1, <3>2
    <3> QED
      BY <3>1, <3>2
  <2> QED
    BY <2>1, <2>2
<1> QED
  BY <1>3, <1>4 DEF Mark

LEMMA RecoverRow ==
  ASSUME TypeOK, RecoverRows
  PROVE  /\ rows' \in [Tasks -> RowType]
         /\ \A t \in Tasks :
              /\ rows'[t].life = rows[t].life /\ rows'[t].failures = rows[t].failures
              /\ rows'[t].active = rows[t].active /\ rows'[t].report = rows[t].report
              /\ \/ rows'[t] = rows[t] /\ (t \notin loop.tasks \/ loop'.pc = "down")
                 \/ rows'[t].status = "stale" /\ Present(t)
                 \/ rows'[t].status = "success" /\ Present(t) /\ t \in loop.noted
<1>1. rows \in [Tasks -> RowType] /\ 0 \in 0 .. MaxDay
  BY SchedulerAssumption DEF TypeOK
<1>2. ASSUME NEW x \in RowType
      PROVE  LET y == [x EXCEPT !.status = "success"]
             IN  /\ y \in RowType /\ y.status = "success" /\ y.life = x.life /\ y.failures = x.failures
                 /\ y.active = x.active /\ y.report = x.report
  BY DEF RowType
<1>3. ASSUME NEW x \in RowType
      PROVE  LET y == [x EXCEPT !.status = "stale", !.date = 0]
             IN  /\ y \in RowType /\ y.status = "stale" /\ y.life = x.life /\ y.failures = x.failures
                 /\ y.active = x.active /\ y.report = x.report
  BY <1>1 DEF RowType
<1>4. CASE UNCHANGED rows /\ loop' = At("down", {})
  BY <1>1, <1>4 DEF At
<1>5. CASE \A t \in loop.tasks : Present(t)
  <2>1. rows' = [t \in Tasks |->
             IF t \notin loop.tasks THEN rows[t]
             ELSE IF t \in loop.noted THEN [rows[t] EXCEPT !.status = "success"]
             ELSE [rows[t] EXCEPT !.status = "stale", !.date = 0]]
    BY <1>5 DEF RecoverRows
  <2> HIDE DEF RowType
  <2>2. ASSUME NEW t \in Tasks
        PROVE  /\ rows'[t] \in RowType
               /\ rows'[t].life = rows[t].life /\ rows'[t].failures = rows[t].failures
               /\ rows'[t].active = rows[t].active /\ rows'[t].report = rows[t].report
               /\ \/ rows'[t] = rows[t] /\ (t \notin loop.tasks \/ loop'.pc = "down")
                  \/ rows'[t].status = "stale" /\ Present(t)
                  \/ rows'[t].status = "success" /\ Present(t) /\ t \in loop.noted
    <3>0. rows[t] \in RowType
      BY <1>1
    <3>1. CASE t \notin loop.tasks
      BY <2>1, <3>0, <3>1
    <3>2. CASE t \in loop.tasks /\ t \in loop.noted
      <4>1. rows'[t] = [rows[t] EXCEPT !.status = "success"] /\ Present(t)
        BY <1>5, <2>1, <3>2
      <4> QED
        BY <1>2, <3>0, <3>2, <4>1
    <3>3. CASE t \in loop.tasks /\ t \notin loop.noted
      <4>1. rows'[t] = [rows[t] EXCEPT !.status = "stale", !.date = 0] /\ Present(t)
        BY <1>5, <2>1, <3>3
      <4> QED
        BY <1>3, <3>0, <4>1
    <3> QED
      BY <3>1, <3>2, <3>3
  <2> QED
    BY <2>1, <2>2
<1> QED
  BY <1>4, <1>5 DEF RecoverRows

\* Rows that are created or deleted.
LEMMA LifeRow ==
  ASSUME TypeOK, NEW t \in Tasks, Create(t) \/ Delete(t)
  PROVE  /\ rows' \in [Tasks -> RowType]
         /\ \A u \in Tasks : u # t => rows'[u] = rows[u]
         /\ rows'[t].status = rows[t].status /\ rows'[t].report = rows[t].report
         /\ rows'[t].failures = rows[t].failures /\ rows'[t].active = rows[t].active
         /\ \/ rows[t].life = "new" /\ rows'[t].life = "present"
            \/ rows[t].life = "present" /\ rows'[t].life = "deleted"
<1>1. rows \in [Tasks -> RowType] /\ rows[t] \in RowType
  BY DEF TypeOK
<1>2. ASSUME NEW l \in {"present", "deleted"}
      PROVE  LET y == [rows[t] EXCEPT !.life = l]
             IN  /\ y \in RowType /\ y.status = rows[t].status /\ y.report = rows[t].report
                 /\ y.failures = rows[t].failures /\ y.active = rows[t].active /\ y.life = l
  BY <1>1 DEF RowType
<1>3. PICK l \in {"present", "deleted"} :
        /\ rows' = [rows EXCEPT ![t] = [rows[t] EXCEPT !.life = l]]
        /\ (rows[t].life = "new" /\ l = "present") \/ (rows[t].life = "present" /\ l = "deleted")
  BY <1>1 DEF Create, Delete, Present
<1> DEFINE y == [rows[t] EXCEPT !.life = l]
<1>4. /\ y \in RowType /\ y.status = rows[t].status /\ y.report = rows[t].report
      /\ y.failures = rows[t].failures /\ y.active = rows[t].active /\ y.life = l
  BY <1>2
<1>5. rows' = [rows EXCEPT ![t] = y]
  BY <1>3
<1> HIDE DEF y
<1>6. rows' \in [Tasks -> RowType] /\ rows'[t] = y /\ \A u \in Tasks : u # t => rows'[u] = rows[u]
  BY <1>4, <1>5, RowChange
<1> QED
  BY <1>3, <1>4, <1>6

-----------------------------------------------------------------------------
(* The slots and the failure counters.                                     *)

LEMMA CoreInit == Init => CoreInv
<1> SUFFICES ASSUME Init PROVE CoreInv
  OBVIOUS
<1>1. /\ Limit \in Nat /\ MaxRuns \in Nat /\ 1 \in 1 .. MaxDay /\ Tasks # {}
      /\ 0 \in 0 .. MaxRuns /\ 0 \in 0 .. MaxDay
  BY SchedulerAssumption
<1>2. (CHOOSE t \in Tasks : TRUE) \in Tasks
  BY <1>1
<1>3. \A r \in RunIds : runs[r].state = "none" /\ runs[r].manual = FALSE
  BY DEF Init
<1>4. (\A t \in Tasks : rows[t].failures = 0) /\ txns = {} /\ loop.pc = "idle"
  BY DEF Init, At
<1>5. runs \in [RunIds -> RunType]
  BY <1>1, <1>2 DEF Init, RunType, RunStates, Results
<1>6. rows \in [Tasks -> RowType]
  <2>1. [life : {"new"}, active : {TRUE}, trigger : Windows, date : {0}, status : {"none"},
         report : {0}, failures : {0}] \subseteq RowType
    BY <1>1 DEF RowType
  <2> QED
    BY <2>1 DEF Init
<1>7. TypeOK
  <2>1. loop \in LoopType
    BY DEF Init, At, LoopType, LoopPcs
  <2>2. reports \in [RunIds -> ReportStates]
    BY DEF Init, ReportStates
  <2> QED
    BY <1>1, <1>5, <1>6, <2>1, <2>2 DEF Init, TypeOK, RunType, LoopType, Parts, Morning
<1>8. Busy = {} /\ \A t \in Tasks : Recorded(t) = {}
  BY <1>3 DEF Busy, Recorded
<1>9. Slots
  <2>1. Cardinality(Busy) = 0
    BY <1>8, FS_EmptySet
  <2>2. permits = Limit
    BY DEF Init
  <2> QED
    BY <1>1, <2>1, <2>2 DEF Slots, Busy
<1>10. FailuresAreRuns
  BY <1>4, <1>8, FS_EmptySet DEF FailuresAreRuns
<1>11. TxnInv /\ StartIsFull
  BY <1>4 DEF TxnInv, OneEach, TxnRuns, TxnCounts, StartIsFull, Starting
<1> QED
  BY <1>1, <1>3, <1>7, <1>9, <1>10, <1>11 DEF CoreInv, OnlyScheduledQueue, DownIsDead, Live, Init

LEMMA Types ==
  ASSUME CoreInv
  PROVE  /\ TypeOK /\ rows \in [Tasks -> RowType] /\ loop \in LoopType /\ txns \subseteq TxnType
         /\ reports \in [RunIds -> ReportStates] /\ readers \subseteq RunIds /\ crossed \subseteq Tasks
         /\ runs \in [RunIds -> RunType] /\ permits \in 0 .. Limit /\ Limit \in Nat
  BY SchedulerAssumption DEF CoreInv, TypeOK, LoopType, TxnType, RunType

\* What a failure counter may hold, now and in an open transaction.
LEMMA Counts ==
  ASSUME CoreInv, NEW t \in Tasks
  PROVE  /\ Recorded(t) \subseteq RunIds
         /\ Cardinality(Recorded(t)) \in Nat /\ Cardinality(Recorded(t)) <= MaxRuns
         /\ rows[t].failures \in Int /\ rows[t].failures <= Cardinality(Recorded(t))
         /\ \A x \in txns : x.task = t => x.was.failures \in Int /\ x.was.failures <= Cardinality(Recorded(t))
<1>1. Recorded(t) \subseteq RunIds
  BY DEF Recorded
<1>2. Cardinality(Recorded(t)) \in Nat /\ Cardinality(Recorded(t)) <= MaxRuns
  BY <1>1, FewRuns
<1>3. rows[t] \in RowType /\ \A x \in txns : x.was \in RowType
  BY DEF CoreInv, TypeOK
<1>4. rows[t].failures \in Int /\ \A x \in txns : x.was.failures \in Int
  BY <1>3, RowInts
<1>5. rows[t].failures <= Cardinality(Recorded(t))
  BY DEF CoreInv, FailuresAreRuns
<1>6. \A x \in txns : x.was.failures <= Cardinality(Recorded(x.task))
  BY DEF CoreInv, TxnInv, TxnCounts
<1> QED
  BY <1>1, <1>2, <1>4, <1>5, <1>6

\* No run leaves the record.
Grows == \A t \in Tasks : Recorded(t) \subseteq Recorded(t)'

LEMMA CountsGrow ==
  ASSUME CoreInv, Grows, NEW t \in Tasks
  PROVE  /\ Cardinality(Recorded(t)') \in Nat
         /\ Cardinality(Recorded(t)) <= Cardinality(Recorded(t)')
<1>1. Recorded(t)' \subseteq RunIds /\ Recorded(t) \subseteq Recorded(t)'
  BY DEF Recorded, Grows
<1> QED
  BY <1>1, FewRuns, MoreRecorded

LEMMA SameFailures ==
  ASSUME CoreInv, Grows,
         \A t \in Tasks : rows'[t].failures \in Int /\ rows'[t].failures <= Cardinality(Recorded(t))
  PROVE  FailuresAreRuns'
<1> SUFFICES ASSUME NEW t \in Tasks PROVE rows'[t].failures <= Cardinality(Recorded(t)')
  BY DEF FailuresAreRuns
<1> QED
  BY Counts, CountsGrow

\* Transactions that stay open keep the run they record.
LEMMA TxnsStay ==
  ASSUME CoreInv, Grows, txns' \subseteq txns,
         \A x \in txns' : x.run # 0 => runs'[x.run] = runs[x.run]
  PROVE  TxnInv'
<1>1. \A x \in txns' : x.was.failures <= Cardinality(Recorded(x.task)')
  <2> SUFFICES ASSUME NEW x \in txns' PROVE x.was.failures <= Cardinality(Recorded(x.task)')
    OBVIOUS
  <2>1. x \in txns /\ x.task \in Tasks
    BY Types DEF TxnType
  <2> QED
    BY <2>1, Counts, CountsGrow
<1>2. \A x \in txns' : x.run # 0 => Records(x)'
  BY DEF CoreInv, TxnInv, TxnRuns, Records, Recorder
<1>3. \A x, y \in txns' : x.writer = y.writer => x = y
  BY DEF CoreInv, TxnInv, OneEach
<1> QED
  BY <1>1, <1>2, <1>3 DEF TxnInv, OneEach, TxnRuns, TxnCounts

\* Steps that leave the runs alone.
LEMMA CoreQuiet ==
  ASSUME CoreInv, UNCHANGED <<runs, permits, day, part>>,
         Up' <=> Up, loop' \in LoopType,
         loop'.pc \in Starting => loop.pc \in Starting,
         rows' \in [Tasks -> RowType],
         \A t \in Tasks : rows'[t].failures <= Cardinality(Recorded(t)),
         txns' \subseteq txns, crossed' \subseteq Tasks,
         reports' \in [RunIds -> ReportStates], readers' \subseteq RunIds
  PROVE  CoreInv'
<1>1. TypeOK'
  BY DEF CoreInv, TypeOK, LoopType
<1>2. Busy' = Busy /\ Grows
  BY DEF Busy, Recorded, Grows
<1>3. Slots'
  BY <1>2 DEF CoreInv, Slots, Busy
<1>4. FailuresAreRuns'
  <2>1. \A t \in Tasks : rows'[t].failures \in Int
    BY RowInts
  <2> QED
    BY <1>2, <2>1, SameFailures
<1>5. TxnInv'
  BY <1>2, TxnsStay
<1>6. DownIsDead' /\ StartIsFull' /\ OnlyScheduledQueue'
  BY DEF CoreInv, DownIsDead, StartIsFull, OnlyScheduledQueue
<1> QED
  BY <1>1, <1>3, <1>4, <1>5, <1>6 DEF CoreInv

LEMMA CoreUsers ==
  ASSUME CoreInv,
         \/ \E t \in Tasks : Create(t) \/ Delete(t)
         \/ \E r \in RunIds : Discard(r) \/ ReadReport(r) \/ Finalize(r)
  PROVE  CoreInv'
<1>1. ASSUME NEW t \in Tasks, Create(t) \/ Delete(t) PROVE CoreInv'
  <2>1. rows' \in [Tasks -> RowType] /\ \A u \in Tasks : rows'[u].failures = rows[u].failures
    BY <1>1, Types, LifeRow
  <2>2. \A u \in Tasks : rows'[u].failures <= Cardinality(Recorded(u))
    BY <2>1, Counts
  <2>3. UNCHANGED <<txns, crossed, day, part, loop, permits, runs, reports, readers>>
    BY <1>1 DEF Create, Delete
  <2> QED
    BY <2>1, <2>2, <2>3, CoreQuiet, Types DEF Up
<1>2. ASSUME NEW r \in RunIds, Discard(r) \/ ReadReport(r) \/ Finalize(r) PROVE CoreInv'
  <2>1. reports' \in [RunIds -> ReportStates] /\ readers' \subseteq RunIds
    BY <1>2, Types DEF Discard, ReadReport, Finalize, ReportStates
  <2>2. UNCHANGED <<rows, txns, crossed, day, part, loop, permits, runs>>
    BY <1>2 DEF Discard, ReadReport, Finalize
  <2> QED
    BY <2>1, <2>2, CoreQuiet, Types, Counts DEF Up
<1> QED
  BY <1>1, <1>2

\* A transaction opens.
LEMMA CoreLoad ==
  ASSUME CoreInv, NEW w \in Writers, NEW t \in Tasks, NEW r \in 0 .. MaxRuns,
         ~Open(w), Load(w, t, r),
         r # 0 => /\ r \in RunIds /\ runs[r].state = "ended"
                  /\ runs[r].task = t /\ w = Recorder(r),
         UNCHANGED <<rows, crossed, day, part, loop, permits, runs, reports, readers>>
  PROVE  CoreInv'
<1> DEFINE x == [writer |-> w, task |-> t, run |-> r, was |-> rows[t]]
<1>1. txns' = txns \cup {x} /\ \A y \in txns : y.writer # w
  BY DEF Load, Open
<1>2. x \in TxnType
  BY Types DEF TxnType
<1>3. TypeOK'
  BY <1>1, <1>2 DEF CoreInv, TypeOK, TxnType
<1>4. TxnInv'
  <2>1. /\ x.was.failures <= Cardinality(Recorded(x.task)) /\ x.writer = w
        /\ x.run # 0 => Records(x)
    BY Counts DEF Records
  <2> HIDE DEF x
  <2>2. OneEach'
    BY <1>1, <2>1 DEF CoreInv, TxnInv, OneEach
  <2>3. TxnRuns'
    BY <1>1, <2>1 DEF CoreInv, TxnInv, TxnRuns, Records, Recorder
  <2>4. TxnCounts'
    <3>1. \A u \in Tasks : Recorded(u)' = Recorded(u)
      BY DEF Recorded
    <3>2. TxnCounts /\ \A y \in txns' : y.task \in Tasks
      BY <1>3 DEF CoreInv, TxnInv, TypeOK
    <3> QED
      BY <1>1, <2>1, <3>1, <3>2 DEF TxnCounts
  <2> QED
    BY <2>2, <2>3, <2>4 DEF TxnInv
<1>5. FailuresAreRuns' /\ Slots' /\ DownIsDead' /\ StartIsFull' /\ OnlyScheduledQueue'
  BY DEF CoreInv, FailuresAreRuns, Recorded, Slots, DownIsDead, StartIsFull, OnlyScheduledQueue, Up
<1> QED
  BY <1>3, <1>4, <1>5 DEF CoreInv

LEMMA CoreEditLoad ==
  ASSUME CoreInv, NEW w \in Requests, NEW t \in Tasks, EditLoad(w, t)
  PROVE  CoreInv'
<1>1. w \in Writers /\ 0 \in 0 .. MaxRuns
  BY SchedulerAssumption DEF Writers
<1> QED
  BY <1>1, CoreLoad DEF EditLoad

LEMMA CoreEditCommit ==
  ASSUME CoreInv, NEW w \in Requests, EditCommit(w)
  PROVE  CoreInv'
<1>1. PICK x \in txns, new \in RowType : txns' = txns \ {x} /\ Edited(new, x.was) /\ CommitOf(x, new)
  BY Types, EditEffect
<1>2. x \in TxnType /\ x.task \in Tasks
  BY Types DEF TxnType
<1>3. \A t \in Tasks : rows'[t].failures <= Cardinality(Recorded(t))
  <2> SUFFICES ASSUME NEW t \in Tasks PROVE rows'[t].failures <= Cardinality(Recorded(t))
    OBVIOUS
  <2>1. CASE t # x.task
    BY <1>1, <2>1, Counts DEF CommitOf
  <2>2. CASE t = x.task
    <3>1. new.failures \in Int /\ new.failures <= x.was.failures
      BY <1>1, RowInts DEF Edited
    <3>2. /\ rows[t].failures <= Cardinality(Recorded(t)) /\ Cardinality(Recorded(t)) \in Int
          /\ x.was.failures \in Int /\ x.was.failures <= Cardinality(Recorded(t))
      BY <2>2, Counts
    <3>3. new.failures <= Cardinality(Recorded(t))
      BY <3>1, <3>2
    <3>4. rows'[t].failures = rows[t].failures \/ rows'[t].failures = new.failures
      BY <1>1, <2>2 DEF CommitOf
    <3> QED
      BY <3>2, <3>3, <3>4
  <2> QED
    BY <2>1, <2>2
<1>4. UNCHANGED <<day, part, loop, permits, runs, reports, readers>>
  BY DEF EditCommit
<1>5. rows' \in [Tasks -> RowType] /\ crossed' \subseteq Tasks
  BY <1>1 DEF CommitOf
<1> QED
  BY <1>1, <1>3, <1>4, <1>5, CoreQuiet, Types DEF Up

LEMMA CoreLoop ==
  ASSUME CoreInv, Poll \/ Mark \/ Snapshot
  PROVE  CoreInv'
<1>1. loop' \in LoopType /\ loop'.pc \notin {"down"} \cup Starting /\ loop.pc \notin {"down"} \cup Starting
  <2>1. CASE Poll
    <3>1. Pending \subseteq Tasks /\ {t \in Pending : rows[t].status = "running"} \subseteq Tasks
      BY DEF Pending
    <3> QED
      BY <2>1, <3>1, Types DEF Poll, LoopType, LoopPcs, Starting
  <2>2. CASE Mark
    <3>1. loop.pc = "read"
      BY <2>2 DEF Mark
    <3>2. CASE loop' = [loop EXCEPT !.pc = "marked", !.noted = {}, !.lost = @ \ loop.tasks]
      <4>1. loop.lost \ loop.tasks \subseteq Tasks
        BY Types DEF LoopType
      <4> QED
        BY <3>1, <3>2, <4>1, Types DEF LoopType, LoopPcs, Starting
    <3>3. CASE loop' = At("idle", loop.lost)
      BY <3>1, <3>3, Types DEF LoopType, LoopPcs, Starting, At
    <3> QED
      BY <2>2, <3>2, <3>3, Types, MarkRow
  <2>3. CASE Snapshot
    BY <2>3, Types DEF Snapshot, LoopType, LoopPcs, Starting, At
  <2> QED
    BY <2>1, <2>2, <2>3
<1>2. UNCHANGED <<txns, crossed, day, part, permits, runs, reports, readers>>
  BY DEF Poll, Mark, Snapshot
<1>3. rows' \in [Tasks -> RowType] /\ \A t \in Tasks : rows'[t].failures = rows[t].failures
  <2>1. CASE Mark
    BY <2>1, Types, MarkRow
  <2>2. CASE UNCHANGED rows
    BY <2>2, Types
  <2> QED
    BY <2>1, <2>2 DEF Poll, Snapshot
<1>4. \A t \in Tasks : rows'[t].failures <= Cardinality(Recorded(t))
  BY <1>3, Counts
<1> QED
  BY <1>1, <1>2, <1>3, <1>4, CoreQuiet, Types DEF Up

\* Steps that move one run and leave the rows alone.
LEMMA CoreMove ==
  ASSUME CoreInv, NEW r \in RunIds, runs[r].state # "over",
         \A x \in txns : x.run # r,
         runs' \in [RunIds -> RunType], \A q \in RunIds : q # r => runs'[q] = runs[q],
         runs'[r].state = "queued" => ~runs'[r].manual,
         runs'[r].state \in Live /\ ~runs'[r].manual => Up,
         permits' \in 0 .. Limit,
         \/ (r \in Busy <=> r \in Busy') /\ UNCHANGED permits
         \/ Up /\ r \notin Busy /\ r \in Busy' /\ (Limit > 0 => permits' = permits - 1)
         \/ Up /\ r \in Busy /\ r \notin Busy' /\ (Limit > 0 => permits' = permits + 1),
         reports' \in [RunIds -> ReportStates],
         UNCHANGED <<rows, txns, crossed, day, part, readers>>,
         Up' <=> Up, loop' \in LoopType,
         loop'.pc \in Starting => loop.pc \in Starting
  PROVE  CoreInv'
<1>1. TypeOK'
  BY DEF CoreInv, TypeOK, RunType, LoopType
<1>2. Slots'
  <2>1. Busy \subseteq RunIds /\ Busy' \ {r} = Busy \ {r}
    BY DEF Busy
  <2>2. Cardinality(Busy) \in Nat /\ permits \in Int /\ permits' \in Int /\ Limit \in Nat
    BY <2>1, FewRuns, Types
  <2>3. Up /\ Limit > 0 => permits + Cardinality(Busy) = Limit
    BY DEF CoreInv, Slots, Busy
  <2>4. Up' /\ Limit > 0 => permits' + Cardinality(Busy') = Limit
    BY <2>1, <2>2, <2>3, OneApart
  <2> QED
    BY <2>4 DEF Slots, Busy
<1>3. Grows
  BY DEF Recorded, Grows
<1>4. FailuresAreRuns'
  BY <1>3, Counts, SameFailures
<1>5. TxnInv'
  <2>1. \A x \in txns : x.run # 0 => x.run \in RunIds
    BY DEF CoreInv, TxnInv, TxnRuns, Records
  <2> QED
    BY <1>3, <2>1, TxnsStay
<1>6. OnlyScheduledQueue'
  BY DEF CoreInv, OnlyScheduledQueue
<1>7. DownIsDead'
  BY DEF CoreInv, DownIsDead
<1>8. StartIsFull'
  <2>1. loop.pc \in Starting => ~Up
    BY DEF Up
  <2> QED
    BY <2>1 DEF CoreInv, StartIsFull
<1> QED
  BY <1>1, <1>2, <1>4, <1>5, <1>6, <1>7, <1>8 DEF CoreInv

\* Only a run that has ended is being recorded.
LEMMA NotRecorded ==
  ASSUME CoreInv, NEW r \in RunIds, runs[r].state # "ended"
  PROVE  \A x \in txns : x.run # r
<1>1. r # 0
  BY SchedulerAssumption DEF RunIds
<1> QED
  BY <1>1 DEF CoreInv, TxnInv, TxnRuns, Records

LEMMA ReportType ==
  ASSUME CoreInv, NEW r \in RunIds, NEW v \in ReportStates, reports' = [reports EXCEPT ![r] = v]
  PROVE  reports' \in [RunIds -> ReportStates]
  BY Types

LEMMA CoreTrigger ==
  ASSUME CoreInv, NEW t \in Tasks, Trigger(t)
  PROVE  CoreInv'
<1>1. PICK r \in RunIds : Begins(r, t, "working", TRUE) /\ reports' = [reports EXCEPT ![r] = "running"]
  BY Types, TriggerBegins
<1>2. reports' \in [RunIds -> ReportStates]
  BY <1>1, ReportType DEF ReportStates
<1>3. r \notin Busy /\ r \notin Busy' /\ \A x \in txns : x.run # r
  BY <1>1, NotRecorded DEF Begins, Busy
<1>4. UNCHANGED <<rows, txns, crossed, day, part, loop, permits, readers>>
  BY DEF Trigger
<1> QED
  BY <1>1, <1>2, <1>3, <1>4, Types, CoreMove DEF Begins, Up

LEMMA CoreLaunch ==
  ASSUME CoreInv, NEW t \in Tasks, Launch(t)
  PROVE  CoreInv'
<1>1. PICK r \in RunIds : Begins(r, t, "queued", FALSE)
  BY Types, LaunchBegins
<1>2. r \notin Busy /\ r \notin Busy' /\ \A x \in txns : x.run # r
  BY <1>1, NotRecorded DEF Begins, Busy
<1>3. loop' \in LoopType /\ loop.pc = "launching" /\ loop'.pc \in {"idle", "launching"}
  BY Types DEF Launch, LoopType, LoopPcs
<1>4. Up /\ Up' /\ loop'.pc \notin Starting
  BY <1>3 DEF Up, Starting
<1>5. UNCHANGED <<rows, txns, crossed, day, part, permits, reports, readers>>
  BY DEF Launch
<1> QED
  BY <1>1, <1>2, <1>3, <1>4, <1>5, Types, CoreMove DEF Begins

LEMMA CoreAcquire ==
  ASSUME CoreInv, NEW r \in RunIds, Acquire(r)
  PROVE  CoreInv'
<1>1. Turns(r, "working")
  BY Types, AcquireTurns
<1>2. /\ runs[r].state = "queued" /\ ~runs[r].manual /\ Up
      /\ Limit > 0 => permits > 0 /\ permits' = permits - 1
      /\ ~(Limit > 0) => permits' = permits
  BY DEF Acquire, CoreInv, OnlyScheduledQueue, DownIsDead, Live
<1>3. r \notin Busy /\ r \in Busy' /\ \A x \in txns : x.run # r
  BY <1>1, <1>2, NotRecorded DEF Turns, Busy
<1>4. reports' \in [RunIds -> ReportStates]
  BY ReportType DEF Acquire, ReportStates
<1>5. UNCHANGED <<rows, txns, crossed, day, part, loop, readers>>
  BY DEF Acquire
<1>6. permits' \in 0 .. Limit
  BY <1>2, Types
<1> QED
  BY <1>1, <1>2, <1>3, <1>4, <1>5, <1>6, Types, CoreMove DEF Turns, Up

LEMMA EndingStates == \A s \in ReportStates : \A e \in Endings(s) : e.report \in ReportStates
  BY DEF Endings, ReportStates

LEMMA CoreEnd ==
  ASSUME CoreInv, NEW r \in RunIds, End(r)
  PROVE  CoreInv'
<1>1. /\ Turns(r, "ended")
      /\ \E e \in Endings(reports[r]) : reports' = [reports EXCEPT ![r] = e.report]
  BY Types, EndTurns
<1>2. /\ runs[r].state = "working"
      /\ Limit > 0 /\ ~runs[r].manual => permits' = permits + 1
      /\ ~(Limit > 0 /\ ~runs[r].manual) => permits' = permits
      /\ UNCHANGED <<rows, txns, crossed, day, part, loop, readers>>
  BY DEF End
<1>3. /\ r \notin Busy'
      /\ r \in Busy <=> ~runs[r].manual
      /\ \A x \in txns : x.run # r
  BY <1>1, <1>2, NotRecorded DEF Turns, Busy
<1>4. reports' \in [RunIds -> ReportStates]
  <2>1. PICK e \in Endings(reports[r]) : reports' = [reports EXCEPT ![r] = e.report]
    BY <1>1
  <2>2. e.report \in ReportStates
    BY Types, EndingStates
  <2> QED
    BY <2>1, <2>2, ReportType
<1>5. ~runs[r].manual => Up
  BY <1>2 DEF CoreInv, DownIsDead, Live
<1>6. permits' \in 0 .. Limit
  <2>1. CASE Limit > 0 /\ ~runs[r].manual
    <3>1. Busy \subseteq RunIds /\ r \in Busy
      BY <1>3, <2>1 DEF Busy
    <3>2. Cardinality(Busy \ {r}) = Cardinality(Busy) - 1 /\ Cardinality(Busy \ {r}) \in Nat
      BY <3>1, FewRuns, FS_RemoveElement
    <3>3. Cardinality(Busy) \in Nat
      BY <3>1, FewRuns
    <3>4. permits + Cardinality(Busy) = Limit
      BY <1>5, <2>1 DEF CoreInv, Slots, Busy
    <3> QED
      BY <1>2, <2>1, <3>2, <3>3, <3>4, Types
  <2> QED
    BY <1>2, <2>1, Types
<1> QED
  BY <1>1, <1>2, <1>3, <1>4, <1>5, <1>6, Types, CoreMove DEF Turns, Up

LEMMA CoreRecordLoad ==
  ASSUME CoreInv, NEW r \in RunIds, RecordLoad(r)
  PROVE  CoreInv'
<1>1. /\ runs[r].state = "ended" /\ ~Open(Recorder(r))
      /\ UNCHANGED <<rows, crossed, day, part, loop, permits, reports, readers>>
  BY DEF RecordLoad
<1>2. /\ runs[r].task \in Tasks /\ Recorder(r) \in Writers /\ r \in 0 .. MaxRuns
  BY Types, SchedulerAssumption DEF RunType, Recorder, Writers, RunIds
<1>3. CASE Load(Recorder(r), runs[r].task, r) /\ UNCHANGED runs
  BY <1>1, <1>2, <1>3, CoreLoad
<1>4. CASE runs' = [runs EXCEPT ![r].state = "over"] /\ UNCHANGED txns
  <2>1. Turns(r, "over")
    BY <1>4, Types, RecordTurns
  <2>2. \A x \in txns : x.run # r
    <3>1. r # 0
      BY SchedulerAssumption DEF RunIds
    <3> QED
      BY <1>1, <3>1 DEF CoreInv, TxnInv, TxnRuns, Records, Open
  <2>3. r \notin Busy /\ r \notin Busy'
    BY <1>1, <2>1 DEF Turns, Busy
  <2> QED
    BY <1>1, <1>4, <2>1, <2>2, <2>3, Types, CoreMove DEF Turns, Up, Live
<1> QED
  BY <1>3, <1>4 DEF RecordLoad

\* What the commit of an outcome does, on an x that records r.
LEMMA RecordEffect ==
  ASSUME CoreInv, NEW r \in RunIds, RecordCommit(r)
  PROVE  \E x \in txns, new \in RowType :
           /\ x.run = r /\ Records(x) /\ txns' = txns \ {x} /\ (\A y \in txns' : y.run # r)
           /\ Judged(new, x.was, r) /\ CommitOf(x, new)
           /\ Turns(r, "over") /\ runs'[r].result = runs[r].result
           /\ UNCHANGED <<day, part, loop, permits, reports, readers>>
<1>1. PICK x \in txns : x.run = r /\ Commit(x, Outcome(x.was, r))
  BY DEF RecordCommit
<1>2. r # 0
  BY SchedulerAssumption DEF RunIds
<1>3. Records(x) /\ x \in TxnType /\ x.task \in Tasks /\ x.was \in RowType
  BY <1>1, <1>2, Types DEF CoreInv, TxnInv, TxnRuns, TxnType
<1>4. x.was.failures + 1 <= MaxRuns
  <2>1. r \notin Recorded(x.task) /\ Recorded(x.task) \subseteq RunIds
    BY <1>1, <1>3 DEF Records, Recorded
  <2>2. Cardinality(Recorded(x.task)) + 1 <= MaxRuns
    BY <2>1, Fewer
  <2>3. /\ x.was.failures \in Int /\ x.was.failures <= Cardinality(Recorded(x.task))
        /\ Cardinality(Recorded(x.task)) \in Nat /\ MaxRuns \in Nat
    BY <1>3, Counts, SchedulerAssumption
  <2> QED
    BY <2>2, <2>3
<1>5. Judged(Outcome(x.was, r), x.was, r)
  BY <1>3, <1>4, Types, OutcomeOf
<1>6. txns' = txns \ {x} /\ CommitOf(x, Outcome(x.was, r))
  <2>1. Outcome(x.was, r) \in RowType
    BY <1>5 DEF Judged
  <2> QED
    BY <1>1, <2>1, Types, CommitEffect DEF Commit
<1>7. \A y \in txns' : y.run # r
  <2> SUFFICES ASSUME NEW y \in txns', y.run = r PROVE FALSE
    OBVIOUS
  <2>1. Records(y) /\ y \in txns /\ y # x
    BY <1>2, <1>6 DEF CoreInv, TxnInv, TxnRuns
  <2>2. y.writer = x.writer
    BY <1>1, <1>3, <2>1 DEF Records
  <2> QED
    BY <2>1, <2>2 DEF CoreInv, TxnInv, OneEach
<1>8. /\ Turns(r, "over") /\ runs'[r].result = runs[r].result
      /\ UNCHANGED <<day, part, loop, permits, reports, readers>>
  BY Types, RecordTurns DEF RecordCommit
<1>9. Outcome(x.was, r) \in RowType
  BY <1>5 DEF Judged
<1> DEFINE written == Outcome(x.was, r)
<1> HIDE DEF written
<1>10. /\ x \in txns /\ written \in RowType
       /\ x.run = r /\ Records(x) /\ txns' = txns \ {x} /\ (\A y \in txns' : y.run # r)
       /\ Judged(written, x.was, r) /\ CommitOf(x, written)
  BY <1>1, <1>3, <1>5, <1>6, <1>7, <1>9 DEF written
<1> QED
  BY <1>8, <1>10

LEMMA CoreRecordCommit ==
  ASSUME CoreInv, NEW r \in RunIds, RecordCommit(r)
  PROVE  CoreInv'
<1>1. PICK x \in txns, new \in RowType :
        /\ x.run = r /\ Records(x) /\ txns' = txns \ {x} /\ (\A y \in txns' : y.run # r)
        /\ Judged(new, x.was, r) /\ CommitOf(x, new)
        /\ Turns(r, "over")
        /\ UNCHANGED <<day, part, loop, permits, reports, readers>>
  BY RecordEffect
<1>2. x.task \in Tasks /\ runs[r].task = x.task /\ runs[r].state = "ended"
  BY <1>1, Types DEF TxnType, Records
<1>3. Grows /\ Busy' = Busy
  BY <1>1, <1>2 DEF Turns, Grows, Recorded, Busy
<1>4. FailuresAreRuns'
  <2> SUFFICES ASSUME NEW t \in Tasks PROVE rows'[t].failures <= Cardinality(Recorded(t)')
    BY DEF FailuresAreRuns
  <2>1. /\ Cardinality(Recorded(t)) \in Nat /\ Cardinality(Recorded(t)') \in Nat
        /\ Cardinality(Recorded(t)) <= Cardinality(Recorded(t)')
        /\ rows[t].failures \in Int /\ rows[t].failures <= Cardinality(Recorded(t))
    BY <1>3, Counts, CountsGrow
  <2>2. CASE t # x.task
    <3>1. rows'[t] = rows[t]
      BY <1>1, <2>2 DEF CommitOf
    <3> QED
      BY <2>1, <3>1
  <2>3. CASE t = x.task
    <3>1. Recorded(t)' \ {r} = Recorded(t) \ {r} /\ r \notin Recorded(t) /\ r \in Recorded(t)'
          /\ Recorded(t) \subseteq RunIds
      BY <1>1, <1>2, <2>3 DEF Turns, Recorded
    <3>2. Cardinality(Recorded(t)') = Cardinality(Recorded(t)) + 1
      BY <3>1, OneApart
    <3>3. x.was.failures \in Int /\ x.was.failures <= Cardinality(Recorded(t))
      BY <2>3, Counts
    <3>4. new.failures \in Int /\ new.failures <= x.was.failures + 1
      BY <1>1, RowInts DEF Judged
    <3>5. rows'[t].failures = rows[t].failures \/ rows'[t].failures = new.failures
      BY <1>1, <2>3 DEF CommitOf
    <3> QED
      BY <2>1, <3>2, <3>3, <3>4, <3>5
  <2> QED
    BY <2>2, <2>3
<1>5. TxnInv'
  <2>1. \A y \in txns' : y.run # 0 => runs'[y.run] = runs[y.run]
    BY <1>1 DEF CoreInv, TxnInv, TxnRuns, Records, Turns
  <2> QED
    BY <1>1, <1>3, <2>1, TxnsStay
<1>6. TypeOK'
  BY <1>1 DEF CoreInv, TypeOK, Turns, RunType, CommitOf
<1>7. Slots'
  BY <1>1, <1>3 DEF CoreInv, Slots, Busy, Up
<1>8. OnlyScheduledQueue' /\ DownIsDead' /\ StartIsFull'
  BY <1>1 DEF CoreInv, OnlyScheduledQueue, DownIsDead, StartIsFull, Turns, Live, Up
<1> QED
  BY <1>4, <1>5, <1>6, <1>7, <1>8 DEF CoreInv

LEMMA CoreProcesses ==
  ASSUME CoreInv, Crash \/ ApiCrash
  PROVE  CoreInv'
<1>1. PICK m \in BOOLEAN : KillRuns(m) /\ ((m = FALSE /\ Crash) \/ (m = TRUE /\ ApiCrash))
  BY DEF Crash, ApiCrash
<1>2. /\ runs' \in [RunIds -> RunType]
      /\ \A r \in RunIds :
           /\ runs[r].state \in Live /\ runs[r].manual = m => runs'[r].state = "killed"
           /\ ~(runs[r].state \in Live /\ runs[r].manual = m) => runs'[r] = runs[r]
           /\ runs'[r].task = runs[r].task /\ runs'[r].manual = runs[r].manual
  BY <1>1, Types, KillEffect
<1>3. /\ UNCHANGED <<rows, crossed, day, part, permits, reports>>
      /\ txns' \subseteq txns /\ readers' \subseteq readers
  BY DEF Crash, ApiCrash
<1>4. \A r \in RunIds : runs[r].manual \in BOOLEAN
  BY Types DEF RunType
<1>5. Grows
  BY <1>2 DEF Grows, Recorded, Live
<1>6. FailuresAreRuns'
  BY <1>3, <1>5, Counts, SameFailures
<1>7. OnlyScheduledQueue'
  BY <1>2 DEF CoreInv, OnlyScheduledQueue
<1>8. TxnInv'
  <2>1. ASSUME NEW x \in txns', x.run # 0 PROVE runs'[x.run] = runs[x.run]
    <3>1. x \in txns /\ x.run \in RunIds /\ x.writer = Recorder(x.run)
      BY <1>3, <2>1 DEF CoreInv, TxnInv, TxnRuns, Records
    <3>2. runs[x.run].manual # m
      BY <1>1, <1>4, <3>1 DEF Crash, ApiCrash, Recorder
    <3> QED
      BY <1>2, <3>1, <3>2
  <2> QED
    BY <1>3, <1>5, <2>1, TxnsStay
<1>9. CASE m = FALSE
  <2>1. loop' = At("down", {})
    BY <1>1, <1>9 DEF Crash
  <2>2. loop' \in LoopType /\ ~Up' /\ loop'.pc \notin Starting
    BY <2>1 DEF LoopType, LoopPcs, At, Up, Starting
  <2>3. DownIsDead'
    BY <1>2, <1>4, <1>9 DEF DownIsDead, Live
  <2>4. TypeOK'
    BY <1>2, <1>3, <2>2 DEF CoreInv, TypeOK, RunType, LoopType
  <2>5. Slots' /\ StartIsFull'
    BY <2>2 DEF Slots, StartIsFull
  <2> QED
    BY <1>6, <1>7, <1>8, <2>3, <2>4, <2>5 DEF CoreInv
<1>10. CASE m = TRUE
  <2>1. UNCHANGED loop
    BY <1>1, <1>10 DEF ApiCrash
  <2>2. Busy' = Busy
    BY <1>2, <1>10 DEF Busy
  <2>3. DownIsDead' /\ StartIsFull'
    BY <1>2, <1>3, <2>1 DEF CoreInv, DownIsDead, StartIsFull, Live, Up
  <2>4. TypeOK'
    BY <1>2, <1>3, <2>1 DEF CoreInv, TypeOK, RunType
  <2>5. Slots'
    BY <1>3, <2>1, <2>2 DEF CoreInv, Slots, Busy, Up
  <2> QED
    BY <1>6, <1>7, <1>8, <2>3, <2>4, <2>5 DEF CoreInv
<1> QED
  BY <1>9, <1>10

LEMMA CoreStartup ==
  ASSUME CoreInv, Startup
  PROVE  CoreInv'
<1>1. /\ loop.pc = "down" /\ permits' = Limit
      /\ UNCHANGED <<rows, txns, crossed, day, part, runs, reports, readers>>
  BY DEF Startup
<1>2. loop' \in LoopType /\ loop'.pc = "rows"
  BY DEF Startup, At, LoopType, LoopPcs, Starting
<1>3. ~Up /\ ~Up'
  BY <1>1, <1>2 DEF Up, Starting
<1>4. Limit \in 0 .. Limit
  BY SchedulerAssumption
<1>5. TypeOK'
  BY <1>1, <1>2, <1>4 DEF CoreInv, TypeOK, LoopType
<1>6. TxnInv' /\ FailuresAreRuns'
  BY <1>1 DEF CoreInv, TxnInv, OneEach, TxnRuns, TxnCounts, Records, Recorder, Recorded, FailuresAreRuns
<1> QED
  BY <1>1, <1>3, <1>5, <1>6 DEF CoreInv, Slots, OnlyScheduledQueue, DownIsDead, StartIsFull

LEMMA CoreRecoverRows ==
  ASSUME CoreInv, RecoverRows
  PROVE  CoreInv'
<1>1. /\ loop.pc = "rows"
      /\ UNCHANGED <<txns, crossed, day, part, permits, runs, reports, readers>>
      /\ loop' = At("down", {}) \/ loop' = [At("reports", {}) EXCEPT !.reports = {r \in RunIds : reports[r] = "running"}]
  BY DEF RecoverRows
<1>2. loop' \in LoopType /\ loop'.pc \in {"down", "reports"}
  BY <1>1 DEF At, LoopType, LoopPcs, Starting
<1>3. ~Up /\ ~Up' /\ loop.pc \in Starting
  BY <1>1, <1>2 DEF Up, Starting
<1>4. rows' \in [Tasks -> RowType] /\ \A t \in Tasks : rows'[t].failures = rows[t].failures
  BY Types, RecoverRow
<1>5. \A t \in Tasks : rows'[t].failures <= Cardinality(Recorded(t))
  BY <1>4, Counts
<1> QED
  BY <1>1, <1>2, <1>3, <1>4, <1>5, CoreQuiet, Types

LEMMA CoreRecoverReports ==
  ASSUME CoreInv, RecoverReports
  PROVE  CoreInv'
<1>1. /\ loop.pc = "reports"
      /\ UNCHANGED <<rows, txns, crossed, day, part, permits, runs, readers>>
      /\ loop' = At("down", {}) \/ loop' = At("idle", {})
  BY DEF RecoverReports
<1>2. loop' \in LoopType /\ loop'.pc \notin Starting
  BY <1>1 DEF At, LoopType, LoopPcs, Starting
<1>3. ~Up /\ permits = Limit
  BY <1>1 DEF CoreInv, StartIsFull, Up, Starting
<1>4. Busy' = {}
  BY <1>1, <1>3 DEF CoreInv, DownIsDead, Busy, Live
<1>5. Slots'
  <2>1. Cardinality(Busy') = 0
    BY <1>4, FS_EmptySet
  <2> QED
    BY <1>1, <1>3, <2>1, SchedulerAssumption DEF Slots, Busy
<1>6. reports' \in [RunIds -> ReportStates]
  BY Types DEF RecoverReports, ReportStates
<1>7. TypeOK'
  BY <1>1, <1>2, <1>6 DEF CoreInv, TypeOK, LoopType
<1>8. TxnInv' /\ FailuresAreRuns'
  BY <1>1 DEF CoreInv, TxnInv, OneEach, TxnRuns, TxnCounts, Records, Recorder, Recorded, FailuresAreRuns
<1>9. DownIsDead' /\ StartIsFull' /\ OnlyScheduledQueue'
  BY <1>1, <1>2, <1>3 DEF CoreInv, DownIsDead, StartIsFull, OnlyScheduledQueue
<1> QED
  BY <1>5, <1>7, <1>8, <1>9 DEF CoreInv

LEMMA CoreTick ==
  ASSUME CoreInv, Tick \/ UNCHANGED vars
  PROVE  CoreInv'
<1>1. MaxDay \in Nat /\ day \in 1 .. MaxDay /\ part \in 0 .. 2
  BY SchedulerAssumption DEF CoreInv, TypeOK, Parts, Morning, Daytime, Evening
<1>2. day' \in 1 .. MaxDay /\ part' \in Parts
  BY <1>1 DEF Tick, Parts, Morning, Daytime, Evening, vars
<1>3. UNCHANGED <<rows, txns, crossed, loop, permits, runs, reports, readers>>
  BY DEF Tick, vars
<1>4. TypeOK'
  BY <1>2, <1>3 DEF CoreInv, TypeOK
<1>5. TxnInv' /\ FailuresAreRuns'
  BY <1>3 DEF CoreInv, TxnInv, OneEach, TxnRuns, TxnCounts, Records, Recorder, Recorded, FailuresAreRuns
<1> QED
  BY <1>3, <1>4, <1>5 DEF CoreInv, Slots, OnlyScheduledQueue, DownIsDead, StartIsFull, Up

LEMMA CoreStep == CoreInv /\ [Next]_vars => CoreInv'
  BY CoreUsers, CoreTrigger, CoreEditLoad, CoreEditCommit, CoreLoop, CoreLaunch, CoreAcquire,
     CoreEnd, CoreRecordLoad, CoreRecordCommit, CoreProcesses, CoreStartup, CoreRecoverRows,
     CoreRecoverReports, CoreTick
     DEF Next, UserStep, LoopStep, RunStep

LEMMA CoreAlways == Spec => []CoreInv
  BY CoreInit, CoreStep, PTL DEF Spec

(* No slot is lost or released twice, whatever the runs do, whoever crashes *)
(* and whatever users and manual tests do meanwhile, for any number of      *)
(* slots, runs and rows (scheduler/main.py:97-122).                         *)
THEOREM SlotsAddUp == Spec => [](TypeOK /\ Slots)
  BY CoreAlways, PTL DEF CoreInv

-----------------------------------------------------------------------------
(* A row that reads running has an owner.                                  *)

Held     == loop.pc = "idle" => loop.tasks = {}
HeldRows == \A t \in loop.tasks : rows[t].life # "new"
NewRows  == \A t \in Tasks : rows[t].life = "new" => rows[t].status = "none"

\* The scheduler does not record while it marks, so what it has read as not
\* running has not been marked since.
Alone    == loop.pc = "read" => ~Open("scheduler")
Unmarked ==
  \A x \in txns : x.writer = "scheduler" /\ rows[x.task].status = "running" => x.was.status = "running"

\* The recovery knows the running rows, and leaves none.
Recovery ==
  \A t \in Tasks : Present(t) /\ rows[t].status = "running" =>
    loop.pc # "reports" /\ (loop.pc = "rows" => t \in loop.tasks)

OwnInv == RunningIsOwned /\ Held /\ HeldRows /\ NewRows /\ Alone /\ Unmarked /\ Recovery

Owned(t) ==
  \/ t \in loop.tasks /\ loop.pc # "read"
  \/ \E r \in RunIds : runs[r].task = t /\ ~runs[r].manual /\ runs[r].state \in Live
  \/ Stranded(t)

LEMMA OwnInit == Init => OwnInv
<1> SUFFICES ASSUME Init PROVE OwnInv
  OBVIOUS
<1>1. \A t \in Tasks : rows[t].life = "new" /\ rows[t].status = "none"
  BY DEF Init
<1>2. txns = {} /\ loop.pc = "idle" /\ loop.tasks = {}
  BY DEF Init, At
<1> QED
  BY <1>1, <1>2 DEF OwnInv, RunningIsOwned, Held, HeldRows, NewRows, Alone, Unmarked, Recovery, Present, Open

\* A row that is there stays until it is deleted, and a deleted row is gone.
Ages(t) ==
  \/ rows'[t].life = rows[t].life
  \/ rows[t].life = "new" /\ rows'[t].life = "present"
  \/ rows[t].life = "present" /\ rows'[t].life = "deleted"

\* Steps that mark nothing.
Calm ==
  \A t \in Tasks :
    /\ Ages(t)
    /\ rows'[t].status = "running" => rows[t].status = "running"
    /\ rows'[t].status # rows[t].status => rows'[t].life # "new"

\* A transaction that opens has read the row as it is.
Reads ==
  \A x \in txns' : x.writer = "scheduler" => x \in txns \/ (loop'.pc # "read" /\ x.was = rows'[x.task])

LEMMA WasRunning ==
  ASSUME OwnInv, Calm, NEW t \in Tasks, rows'[t].life = "present", rows'[t].status = "running"
  PROVE  rows[t].life = "present" /\ rows[t].status = "running"
<1>1. rows[t].status = "running"
  BY DEF Calm
<1>2. rows[t].life # "new"
  BY <1>1 DEF OwnInv, NewRows
<1> QED
  BY <1>1, <1>2 DEF Calm, Ages

\* Rows keep their owner while the runs that live go on and the loop holds
\* what it held.
LEMMA OwnersStay ==
  ASSUME CoreInv, OwnInv, Calm, Reads,
         Up' => \A t \in Tasks : Owned(t) /\ rows'[t].life = "present" =>
                                   Owned(t)' \/ rows'[t].status # "running",
         Up' => Up,
         loop'.pc = "idle" => loop'.tasks = {},
         loop'.tasks \subseteq loop.tasks,
         loop'.pc \in {"rows", "reports", "read"} => loop' = loop
  PROVE  OwnInv'
<1>1. loop.tasks \subseteq Tasks
  BY Types DEF LoopType
<1>2. RunningIsOwned'
  <2> SUFFICES ASSUME NEW t \in Tasks, rows'[t].life = "present", rows'[t].status = "running", Up'
               PROVE  Owned(t)'
    BY DEF RunningIsOwned, Present, Owned
  <2>1. rows[t].life = "present" /\ rows[t].status = "running"
    BY WasRunning
  <2>2. Owned(t)
    BY <2>1 DEF OwnInv, RunningIsOwned, Present, Owned
  <2> QED
    BY <2>2
<1>3. HeldRows'
  BY <1>1 DEF OwnInv, HeldRows, Calm, Ages
<1>4. NewRows'
  BY DEF OwnInv, NewRows, Calm, Ages
<1>5. Alone'
  BY DEF OwnInv, Alone, Open, Reads
<1>6. Unmarked'
  <2> SUFFICES ASSUME NEW x \in txns', x.writer = "scheduler", rows'[x.task].status = "running",
                      x \in txns
               PROVE  x.was.status = "running"
    BY DEF Unmarked, Reads
  <2>1. x.task \in Tasks
    BY Types DEF TxnType
  <2> QED
    BY <2>1 DEF OwnInv, Unmarked, Calm
<1>7. Recovery'
  <2> SUFFICES ASSUME NEW t \in Tasks, rows'[t].life = "present", rows'[t].status = "running"
               PROVE  loop'.pc # "reports" /\ (loop'.pc = "rows" => t \in loop'.tasks)
    BY DEF Recovery, Present
  <2>1. rows[t].life = "present" /\ rows[t].status = "running"
    BY WasRunning
  <2> QED
    BY <2>1 DEF OwnInv, Recovery, Present
<1>8. Held'
  BY DEF Held
<1> QED
  BY <1>2, <1>3, <1>4, <1>5, <1>6, <1>7, <1>8 DEF OwnInv

LEMMA OwnUsers ==
  ASSUME CoreInv, OwnInv,
         \/ \E t \in Tasks : Create(t) \/ Delete(t)
         \/ \E r \in RunIds : Discard(r) \/ ReadReport(r) \/ Finalize(r)
  PROVE  OwnInv'
<1>1. UNCHANGED <<loop, runs, txns>>
  BY DEF Create, Delete, Discard, ReadReport, Finalize
<1>2. Calm
  <2>1. ASSUME NEW t \in Tasks, Create(t) \/ Delete(t) PROVE Calm
    BY <2>1, Types, LifeRow DEF Calm, Ages
  <2>2. ASSUME NEW r \in RunIds, Discard(r) \/ ReadReport(r) \/ Finalize(r) PROVE Calm
    BY <2>2 DEF Discard, ReadReport, Finalize, Calm, Ages
  <2> QED
    BY <2>1, <2>2
<1>3. \A t \in Tasks : Owned(t) => Owned(t)'
  BY <1>1, <1>2 DEF Owned, Stranded, Calm, Ages
<1>4. Up' = Up
  BY <1>1 DEF Up
<1> QED
  BY <1>1, <1>2, <1>3, <1>4, OwnersStay DEF OwnInv, Held, Reads

LEMMA OwnEdits ==
  ASSUME CoreInv, OwnInv, NEW w \in Requests, EditCommit(w) \/ \E t \in Tasks : EditLoad(w, t)
  PROVE  OwnInv'
<1>1. UNCHANGED <<loop, runs>>
  BY DEF EditCommit, EditLoad
<1>2. Calm /\ Reads
  <2>1. CASE EditCommit(w)
    <3>1. PICK x \in txns, new \in RowType : txns' = txns \ {x} /\ Edited(new, x.was) /\ CommitOf(x, new)
      BY <2>1, Types, EditEffect
    <3>2. \A t \in Tasks : rows'[t].life = rows[t].life /\ rows'[t].status = rows[t].status
      BY <3>1 DEF Edited, CommitOf
    <3> QED
      BY <3>1, <3>2 DEF Calm, Ages, Reads
  <2>2. ASSUME NEW t \in Tasks, EditLoad(w, t) PROVE Calm /\ Reads
    <3>1. w # "scheduler"
      BY SchedulerAssumption
    <3> QED
      BY <2>2, <3>1 DEF EditLoad, Load, Calm, Ages, Reads
  <2> QED
    BY <2>1, <2>2
<1>3. \A t \in Tasks : Owned(t) => Owned(t)'
  BY <1>1, <1>2 DEF Owned, Stranded, Calm, Ages
<1>4. Up' = Up
  BY <1>1 DEF Up
<1> QED
  BY <1>1, <1>2, <1>3, <1>4, OwnersStay DEF OwnInv, Held

LEMMA OwnPoll ==
  ASSUME CoreInv, OwnInv, Poll
  PROVE  OwnInv'
<1>1. /\ loop.tasks = {} /\ loop.pc = "idle" /\ ~Open("scheduler")
      /\ UNCHANGED <<rows, txns, runs>>
  BY DEF OwnInv, Held, Poll
<1>2. loop'.pc = "read" /\ loop'.tasks = Pending /\ loop'.lost = loop.lost
  BY Types DEF Poll, LoopType
<1>3. Pending \subseteq Tasks /\ \A t \in Pending : rows[t].life = "present"
  BY DEF Pending, Present
<1>4. RunningIsOwned'
  <2>1. Up
    BY <1>1 DEF Up, Starting
  <2> QED
    BY <1>1, <1>2, <2>1 DEF OwnInv, RunningIsOwned, Present, Stranded
<1> QED
  BY <1>1, <1>2, <1>3, <1>4 DEF OwnInv, Held, HeldRows, NewRows, Alone, Unmarked, Recovery, Open, Present

LEMMA OwnMark ==
  ASSUME CoreInv, OwnInv, Mark
  PROVE  OwnInv'
<1>1. /\ loop.pc = "read" /\ ~Open("scheduler") /\ UNCHANGED <<txns, runs>>
  BY DEF OwnInv, Alone, Mark
<1>2. loop.tasks \subseteq Tasks /\ loop.lost \subseteq Tasks /\ loop \in LoopType
  BY Types DEF LoopType
<1>3. CASE loop' = At("idle", loop.lost) /\ UNCHANGED rows
  <2>1. loop'.pc = "idle" /\ loop'.tasks = {} /\ loop'.lost = loop.lost /\ Up
    BY <1>1, <1>3 DEF At, Up, Starting
  <2>2. \A t \in Tasks : Owned(t) => Owned(t)'
    BY <1>1, <1>3, <2>1 DEF Owned, Stranded
  <2> QED
    BY <1>1, <1>3, <2>1, <2>2, OwnersStay DEF Calm, Ages, Reads
<1>4. CASE loop' = [loop EXCEPT !.pc = "marked", !.noted = {}, !.lost = @ \ loop.tasks]
  <2>1. loop'.pc = "marked" /\ loop'.tasks = loop.tasks /\ loop'.lost = loop.lost \ loop.tasks
    BY <1>2, <1>4 DEF LoopType
  <2>2. \A t \in Tasks :
          /\ t \notin loop.tasks => rows'[t] = rows[t]
          /\ rows'[t].life = rows[t].life
    BY Types, MarkRow
  <2>3. Up /\ Up'
    BY <1>1, <2>1 DEF Up, Starting
  <2>4. RunningIsOwned'
    <3> SUFFICES ASSUME NEW t \in Tasks, rows'[t].life = "present", rows'[t].status = "running",
                        t \notin loop.tasks
                 PROVE  Owned(t)'
      BY <2>1 DEF RunningIsOwned, Present, Owned
    <3>1. Owned(t)
      BY <2>2, <2>3 DEF OwnInv, RunningIsOwned, Present, Owned
    <3>2. Stranded(t) => Stranded(t)'
      BY <2>1, <2>2 DEF Stranded
    <3> QED
      BY <1>1, <3>1, <3>2 DEF Owned
  <2>5. NewRows'
    BY <2>2 DEF OwnInv, NewRows, HeldRows
  <2>6. HeldRows' /\ Held' /\ Alone' /\ Recovery'
    BY <1>2, <2>1, <2>2 DEF OwnInv, HeldRows, Held, Alone, Recovery
  <2>7. Unmarked'
    BY <1>1 DEF Unmarked, Open
  <2> QED
    BY <2>4, <2>5, <2>6, <2>7 DEF OwnInv
<1> QED
  BY <1>3, <1>4, Types, MarkRow

\* Either the loop goes on to launch the batch, or a row of it is gone.
LEMMA OwnSnapshot ==
  ASSUME CoreInv, OwnInv, Snapshot
  PROVE  OwnInv'
<1>1. loop \in LoopType /\ rows \in [Tasks -> RowType] /\ loop.tasks \subseteq Tasks
  BY Types DEF LoopType
<1>2. UNCHANGED <<rows, txns, runs>> /\ loop.pc = "marked" /\ Up
  BY DEF Snapshot, Up, Starting
<1>3. CASE \A t \in loop.tasks : Present(t)
  <2>1. loop'.pc = "launching" /\ loop'.tasks = loop.tasks /\ loop'.lost = loop.lost
    BY <1>1, <1>3 DEF Snapshot, LoopType
  <2>2. \A u \in Tasks : Owned(u) => Owned(u)'
    BY <1>2, <2>1 DEF Owned, Stranded
  <2> QED
    BY <1>2, <2>1, <2>2, OwnersStay DEF Ages, Calm, Reads
<1>4. ASSUME NEW v \in loop.tasks, ~Present(v)
      PROVE  OwnInv'
  <2>1. loop'.pc = "idle" /\ loop'.tasks = {} /\ loop'.lost = loop.lost \cup loop.tasks
    BY <1>4 DEF Snapshot, At
  <2>2. v \in Tasks /\ rows[v].life \in {"new", "present", "deleted"}
    BY <1>1 DEF RowType
  <2>3. rows[v].life = "deleted"
    BY <1>4, <2>2 DEF OwnInv, HeldRows, Present
  <2>4. \A u \in Tasks : Owned(u) => Owned(u)'
    BY <1>2, <2>1, <2>2, <2>3 DEF Owned, Stranded
  <2> QED
    BY <1>2, <2>1, <2>4, OwnersStay DEF Ages, Calm, Reads
<1> QED
  BY <1>3, <1>4

LEMMA OwnLaunch ==
  ASSUME CoreInv, OwnInv, NEW t \in Tasks, Launch(t)
  PROVE  OwnInv'
<1>1. PICK r \in RunIds : Begins(r, t, "queued", FALSE)
  BY Types, LaunchBegins
<1>2. /\ loop'.tasks = loop.tasks \ {t} /\ loop'.lost = loop.lost
      /\ loop'.pc = "idle" => loop'.tasks = {}
      /\ loop.pc = "launching" /\ loop'.pc \in {"idle", "launching"}
      /\ UNCHANGED <<rows, txns>>
  BY Types DEF Launch, LoopType
<1>3. Up
  BY <1>2 DEF Up, Starting
<1>4. \A u \in Tasks : Owned(u) => Owned(u)'
  <2> SUFFICES ASSUME NEW u \in Tasks, Owned(u) PROVE Owned(u)'
    OBVIOUS
  <2>1. CASE u = t
    BY <1>1, <2>1 DEF Begins, Owned, Live
  <2>2. CASE u # t /\ u \in loop.tasks
    BY <1>2, <2>2 DEF Owned
  <2>3. CASE \E q \in RunIds : runs[q].task = u /\ ~runs[q].manual /\ runs[q].state \in Live
    BY <1>1, <2>3 DEF Begins, Owned, Live
  <2>4. CASE Stranded(u)
    BY <1>2, <2>4 DEF Stranded, Owned
  <2> QED
    BY <2>1, <2>2, <2>3, <2>4 DEF Owned
<1> QED
  BY <1>2, <1>3, <1>4, OwnersStay DEF Ages, Calm, Reads

LEMMA OwnRuns ==
  ASSUME CoreInv, OwnInv,
         (\E t \in Tasks : Trigger(t)) \/ (\E r \in RunIds : Acquire(r) \/ End(r)) \/ ApiCrash
  PROVE  OwnInv'
<1>1. UNCHANGED <<rows, loop>> /\ txns' \subseteq txns
  BY DEF Trigger, Acquire, End, ApiCrash
<1>2. \A q \in RunIds : ~runs[q].manual /\ runs[q].state \in Live =>
        runs'[q].task = runs[q].task /\ ~runs'[q].manual /\ runs'[q].state \in Live
  <2>1. ASSUME NEW t \in Tasks, Trigger(t), NEW q \in RunIds, runs[q].state \in Live
        PROVE  runs'[q] = runs[q]
    BY <2>1, Types, TriggerBegins DEF Begins, Live
  <2>2. ASSUME NEW r \in RunIds, Acquire(r) \/ End(r), NEW q \in RunIds, ~runs[q].manual,
               runs[q].state \in Live
        PROVE  runs'[q].task = runs[q].task /\ ~runs'[q].manual /\ runs'[q].state \in Live
    BY <2>2, Types, AcquireTurns, EndTurns DEF Turns, Live
  <2>3. ASSUME ApiCrash, NEW q \in RunIds, ~runs[q].manual
        PROVE  runs'[q] = runs[q]
    BY <2>3, Types, KillEffect DEF ApiCrash
  <2> QED
    BY <2>1, <2>2, <2>3
<1>3. \A u \in Tasks : Owned(u) => Owned(u)'
  BY <1>1, <1>2 DEF Owned, Stranded
<1>4. Up' = Up
  BY <1>1 DEF Up
<1> QED
  BY <1>1, <1>3, <1>4, OwnersStay DEF OwnInv, Held, Ages, Calm, Reads

LEMMA OwnRecordLoad ==
  ASSUME CoreInv, OwnInv, NEW r \in RunIds, RecordLoad(r)
  PROVE  OwnInv'
<1>1. UNCHANGED <<rows, loop>> /\ runs[r].state = "ended"
  BY DEF RecordLoad
<1>2. Calm /\ Up' = Up
  BY <1>1 DEF Calm, Ages, Up
<1>3. CASE Load(Recorder(r), runs[r].task, r) /\ UNCHANGED runs
  <2>1. Reads
    BY <1>1, <1>3 DEF RecordLoad, Reads, Load, Recorder
  <2>2. \A u \in Tasks : Owned(u) => Owned(u)'
    BY <1>1, <1>3 DEF Owned, Stranded
  <2> QED
    BY <1>1, <1>2, <2>1, <2>2, OwnersStay DEF OwnInv, Held
<1>4. CASE ~Present(runs[r].task) /\ runs' = [runs EXCEPT ![r].state = "over"] /\ UNCHANGED txns
  <2>1. Turns(r, "over")
    BY <1>4, Types, RecordTurns
  <2>2. \A u \in Tasks : Owned(u) /\ rows'[u].life = "present" => Owned(u)'
    BY <1>1, <1>4, <2>1 DEF Owned, Stranded, Turns, Present
  <2> QED
    BY <1>1, <1>2, <1>4, <2>2, OwnersStay DEF OwnInv, Held, Reads
<1> QED
  BY <1>3, <1>4 DEF RecordLoad

LEMMA OwnRecordCommit ==
  ASSUME CoreInv, OwnInv, NEW r \in RunIds, RecordCommit(r)
  PROVE  OwnInv'
<1>1. PICK x \in txns, new \in RowType :
        /\ x.run = r /\ Records(x) /\ txns' = txns \ {x}
        /\ Judged(new, x.was, r) /\ CommitOf(x, new)
        /\ Turns(r, "over")
        /\ UNCHANGED loop
  BY RecordEffect
<1>2. x.task \in Tasks /\ runs[r].task = x.task /\ new.status \in {"success", "failed"}
  BY <1>1, Types DEF TxnType, Records, Judged
<1>3. Calm /\ Reads /\ Up' = Up
  <2>1. \A t \in Tasks : rows'[t].life = rows[t].life
    BY <1>1 DEF CommitOf
  <2>2. \A t \in Tasks : rows'[t].status # rows[t].status =>
          rows'[t].status # "running" /\ rows'[t].life # "new"
    BY <1>1, <1>2 DEF CommitOf, Present
  <2>3. Reads /\ Up' = Up
    BY <1>1 DEF Reads, Up
  <2> QED
    BY <2>1, <2>2, <2>3 DEF Calm, Ages
<1>4. ASSUME ~runs[r].manual, rows'[x.task].life = "present"
      PROVE  rows'[x.task].status # "running"
  <2>1. x.writer = "scheduler" /\ Present(x.task)
    BY <1>1, <1>2, <1>4 DEF Records, Recorder, CommitOf, Present
  <2>2. CASE new.status = x.was.status
    <3>1. rows[x.task].status # "running"
      BY <1>2, <2>1, <2>2 DEF OwnInv, Unmarked
    <3> QED
      BY <1>1, <2>2, <3>1 DEF CommitOf
  <2>3. CASE new.status # x.was.status
    BY <1>1, <1>2, <2>1, <2>3 DEF CommitOf
  <2> QED
    BY <2>2, <2>3
<1>5. \A u \in Tasks : Owned(u) /\ rows'[u].life = "present" => Owned(u)' \/ rows'[u].status # "running"
  <2> SUFFICES ASSUME NEW u \in Tasks, Owned(u), rows'[u].life = "present", rows'[u].status = "running"
               PROVE  Owned(u)'
    OBVIOUS
  <2>1. Stranded(u) => Stranded(u)'
    BY <1>1 DEF Stranded, CommitOf
  <2>2. ASSUME NEW q \in RunIds, runs[q].task = u, ~runs[q].manual, runs[q].state \in Live
        PROVE  Owned(u)'
    <3>1. q # r
      BY <1>2, <1>4, <2>2
    <3> QED
      BY <1>1, <2>2, <3>1 DEF Turns, Owned
  <2> QED
    BY <1>1, <2>1, <2>2 DEF Owned
<1> QED
  BY <1>1, <1>3, <1>5, OwnersStay DEF OwnInv, Held

LEMMA OwnCrash ==
  ASSUME CoreInv, OwnInv, Crash
  PROVE  OwnInv'
<1>1. /\ UNCHANGED rows /\ txns' \subseteq txns
      /\ loop'.pc = "down" /\ loop'.tasks = {}
  BY DEF Crash, At
<1>2. ~Up'
  BY <1>1 DEF Up
<1> QED
  BY <1>1, <1>2, OwnersStay DEF Calm, Ages, Reads

LEMMA OwnStartup ==
  ASSUME CoreInv, OwnInv, Startup
  PROVE  OwnInv'
<1>1. UNCHANGED <<rows, txns>>
  BY DEF Startup
<1>2. loop'.pc = "rows" /\ loop'.tasks = {t \in Tasks : Present(t) /\ rows[t].status = "running"}
  BY DEF Startup, At
<1>3. RunningIsOwned' /\ Held' /\ Alone'
  BY <1>2 DEF RunningIsOwned, Held, Alone, Up, Starting
<1>4. HeldRows' /\ NewRows' /\ Unmarked' /\ Recovery'
  BY <1>1, <1>2 DEF OwnInv, HeldRows, NewRows, Unmarked, Recovery, Present
<1> QED
  BY <1>3, <1>4 DEF OwnInv

LEMMA OwnRecoverRows ==
  ASSUME CoreInv, OwnInv, RecoverRows
  PROVE  OwnInv'
<1>1. loop.pc = "rows" /\ UNCHANGED txns
  BY DEF RecoverRows
<1>2. loop'.pc \in {"down", "reports"} /\ loop'.tasks = {}
  <2>1. CASE loop' = At("down", {})
    BY <2>1 DEF At
  <2>2. CASE loop' = [At("reports", {}) EXCEPT !.reports = {r \in RunIds : reports[r] = "running"}]
    BY <2>2 DEF At
  <2> QED
    BY <2>1, <2>2 DEF RecoverRows
<1>3. \A t \in Tasks :
        /\ rows'[t].life = rows[t].life
        /\ \/ rows'[t] = rows[t] /\ (t \notin loop.tasks \/ loop'.pc = "down")
           \/ rows'[t].status # "running" /\ Present(t)
  BY Types, RecoverRow
<1>4. RunningIsOwned' /\ Held' /\ Alone' /\ HeldRows'
  BY <1>2 DEF RunningIsOwned, Held, Alone, HeldRows, Up, Starting
<1>5. NewRows'
  BY <1>3 DEF OwnInv, NewRows, Present
<1>6. Unmarked'
  <2>1. \A x \in txns : x.task \in Tasks
    BY Types DEF TxnType
  <2> QED
    BY <1>1, <1>3, <2>1 DEF OwnInv, Unmarked
<1>7. Recovery'
  BY <1>1, <1>2, <1>3 DEF OwnInv, Recovery, Present
<1> QED
  BY <1>4, <1>5, <1>6, <1>7 DEF OwnInv

LEMMA OwnRecoverReports ==
  ASSUME CoreInv, OwnInv, RecoverReports
  PROVE  OwnInv'
<1>1. loop.pc = "reports" /\ UNCHANGED <<rows, txns>>
  BY DEF RecoverReports
<1>2. loop'.pc \in {"down", "idle"} /\ loop'.tasks = {}
  BY DEF RecoverReports, At
<1>3. \A t \in Tasks : Present(t) => rows[t].status # "running"
  BY <1>1 DEF OwnInv, Recovery
<1> QED
  BY <1>1, <1>2, <1>3 DEF OwnInv, RunningIsOwned, Held, Alone, HeldRows, NewRows, Unmarked, Recovery, Present

LEMMA OwnTick ==
  ASSUME CoreInv, OwnInv, Tick \/ UNCHANGED vars
  PROVE  OwnInv'
<1>1. UNCHANGED <<rows, txns, loop, runs>>
  BY DEF Tick, vars
<1> QED
  BY <1>1 DEF OwnInv, RunningIsOwned, Held, Alone, HeldRows, NewRows, Unmarked, Recovery, Present,
     Stranded, Open, Up

LEMMA OwnStep == CoreInv /\ OwnInv /\ [Next]_vars => OwnInv'
  BY OwnUsers, OwnEdits, OwnPoll, OwnMark, OwnSnapshot, OwnLaunch, OwnRuns, OwnRecordLoad,
     OwnRecordCommit, OwnCrash, OwnStartup, OwnRecoverRows, OwnRecoverReports, OwnTick
     DEF Next, UserStep, LoopStep, RunStep

(* Every row that reads running has an owner that will end it, whatever     *)
(* fails, whoever edits and whichever process dies, unless the loop has     *)
(* forgotten its batch because a row of it was deleted, for any number of   *)
(* rows, request threads and runs (scheduler/main.py:288-307, 315-345).     *)
THEOREM SlotsCorrect == Spec => []SlotsInv
<1>1. CoreInv /\ OwnInv => SlotsInv
  BY DEF CoreInv, OwnInv, SlotsInv
<1> QED
  BY <1>1, OwnInit, OwnStep, CoreAlways, PTL DEF Spec

-----------------------------------------------------------------------------
(* Three failures.                                                         *)

\* What an open transaction has read is struck like the row, unless a commit
\* has crossed another.
StrikesInv ==
  /\ \A t \in Tasks : Struck(rows[t]) \/ t \in crossed
  /\ \A x \in txns : Struck(x.was) \/ x.task \in crossed

\* The commit of a row that keeps the rule.
LEMMA StruckCommit ==
  ASSUME StrikesInv, NEW x \in txns, x.task \in Tasks, NEW new,
         txns' \subseteq txns, CommitOf(x, new), Struck(x.was) => Struck(new)
  PROVE  StrikesInv'
<1>1. ASSUME NEW t \in Tasks, t \notin crossed'
      PROVE  Struck(rows'[t])
  <2>1. Struck(rows[t]) /\ t \notin crossed
    BY <1>1 DEF StrikesInv, CommitOf
  <2>2. CASE t # x.task
    BY <2>1, <2>2 DEF CommitOf
  <2>3. CASE t = x.task
    <3>1. Struck(new)
      BY <2>1, <2>3 DEF StrikesInv
    <3>2. rows'[t] = rows[t] \/ (rows'[t].active = new.active /\ rows'[t].failures = new.failures)
      BY <1>1, <2>3 DEF CommitOf
    <3> QED
      BY <2>1, <3>1, <3>2, Zenon DEF Struck
  <2> QED
    BY <2>2, <2>3
<1>2. \A y \in txns' : Struck(y.was) \/ y.task \in crossed'
  BY DEF StrikesInv, CommitOf
<1> QED
  BY <1>1, <1>2 DEF StrikesInv

LEMMA StrikesStep == CoreInv /\ StrikesInv /\ [Next]_vars => StrikesInv'
<1> SUFFICES ASSUME CoreInv, StrikesInv, [Next]_vars PROVE StrikesInv'
  OBVIOUS
<1>1. ASSUME NEW w \in Requests, EditCommit(w)
      PROVE  StrikesInv'
  <2>1. PICK x \in txns, new \in RowType : txns' = txns \ {x} /\ Edited(new, x.was) /\ CommitOf(x, new)
    BY <1>1, Types, EditEffect
  <2>2. x.task \in Tasks
    BY Types DEF TxnType
  <2> QED
    BY <2>1, <2>2, StruckCommit DEF Edited
<1>2. ASSUME NEW r \in RunIds, RecordCommit(r)
      PROVE  StrikesInv'
  <2>1. PICK x \in txns, new \in RowType : txns' = txns \ {x} /\ Judged(new, x.was, r) /\ CommitOf(x, new)
    BY <1>2, RecordEffect
  <2>2. x.task \in Tasks
    BY Types DEF TxnType
  <2> QED
    BY <2>1, <2>2, StruckCommit DEF Judged
<1>3. ASSUME \A t \in Tasks : rows'[t].failures = rows[t].failures /\ rows'[t].active = rows[t].active,
             txns' \subseteq txns, UNCHANGED crossed
      PROVE  StrikesInv'
  <2>1. \A t \in Tasks : Struck(rows[t]) => Struck(rows'[t])
    BY <1>3, Zenon DEF Struck
  <2> QED
    BY <1>3, <2>1 DEF StrikesInv
<1>4. ASSUME NEW w, NEW t \in Tasks, NEW r, Load(w, t, r), UNCHANGED <<rows, crossed>>
      PROVE  StrikesInv'
  <2> DEFINE x == [writer |-> w, task |-> t, run |-> r, was |-> rows[t]]
  <2>1. txns' = txns \cup {x} /\ x.was = rows[t] /\ x.task = t
    BY <1>4 DEF Load
  <2> HIDE DEF x
  <2> QED
    BY <1>4, <2>1 DEF StrikesInv
<1>5. ASSUME \/ \E t \in Tasks : Create(t) \/ Delete(t)
             \/ Mark \/ RecoverRows
      PROVE  StrikesInv'
  <2>1. \A t \in Tasks : rows'[t].failures = rows[t].failures /\ rows'[t].active = rows[t].active
    BY <1>5, Types, LifeRow, MarkRow, RecoverRow
  <2>2. UNCHANGED <<txns, crossed>>
    BY <1>5 DEF Create, Delete, Mark, RecoverRows
  <2> QED
    BY <1>3, <2>1, <2>2
<1>6. ASSUME NEW r \in RunIds, RecordLoad(r)
      PROVE  StrikesInv'
  <2>1. runs[r].task \in Tasks /\ UNCHANGED <<rows, crossed>>
    BY <1>6, Types DEF RecordLoad, RunType
  <2>2. Load(Recorder(r), runs[r].task, r) \/ UNCHANGED txns
    BY <1>6 DEF RecordLoad
  <2> QED
    BY <1>3, <1>4, <2>1, <2>2
<1>7. ASSUME NEW w \in Requests, NEW t \in Tasks, EditLoad(w, t)
      PROVE  StrikesInv'
  BY <1>4, <1>7 DEF EditLoad
<1>8. CASE UNCHANGED <<rows, crossed>> /\ txns' \subseteq txns
  BY <1>3, <1>8
<1>9. \/ UNCHANGED <<rows, crossed>> /\ txns' \subseteq txns
      \/ \E t \in Tasks : Create(t) \/ Delete(t)
      \/ Mark \/ RecoverRows
      \/ \E w \in Requests : EditCommit(w) \/ \E t \in Tasks : EditLoad(w, t)
      \/ \E r \in RunIds : RecordLoad(r) \/ RecordCommit(r)
  BY DEF Next, UserStep, LoopStep, RunStep, Trigger, Discard, ReadReport, Finalize, Poll, Snapshot,
     Launch, Acquire, End, Crash, ApiCrash, Startup, RecoverReports, Tick, vars
<1> QED
  BY <1>1, <1>2, <1>5, <1>6, <1>7, <1>8, <1>9

(* "Auto-deactivate after 3 consecutive failures": a row with three         *)
(* failures is inactive, whoever toggles it, tests it or restarts a process *)
(* meanwhile, unless a commit to it has crossed another; for any number of  *)
(* rows, request threads and runs (scheduled_service.py:341).               *)
THEOREM StrikesCorrect == Spec => []ThreeStrikes
<1>1. Init => StrikesInv
  <2>1. Init => txns = {} /\ \A t \in Tasks : rows[t].failures = 0
    BY DEF Init
  <2> QED
    BY <2>1 DEF StrikesInv, Struck
<1>2. StrikesInv => ThreeStrikes
  BY DEF StrikesInv, Struck, ThreeStrikes
<1> QED
  BY <1>1, <1>2, StrikesStep, CoreAlways, PTL DEF Spec

-----------------------------------------------------------------------------
(* A success has its run and its report.                                   *)

\* What a run that did not fail leaves behind.
Delivered(r) ==
  runs[r].result = "unset" \/ "unsaved" \in Faults \/ reports[r] \in {"completed", "orphaned", "deleted"}

Fulfilled(r) == runs[r].state \in {"ended", "over"} /\ runs[r].result # "failed" => Delivered(r)

\* The run a row links is one of its own, is over and did not fail.
Linked(t, r) == runs[r].state = "over" /\ runs[r].task = t /\ runs[r].result # "failed"

\* A run that is being recorded was not linked yet when its row was read.
Unlinked == \A x \in txns : x.run # 0 => x.was.report # x.run

LinksInv ==
  /\ \A r \in RunIds : Fulfilled(r)
  /\ \A t \in Tasks : rows[t].status = "success" => rows[t].report # 0
  /\ \A t \in Tasks, r \in RunIds : rows[t].report = r => Linked(t, r)
  /\ Unlinked
  /\ loop.pc = "rows" => \A t \in loop.noted : rows[t].report # 0

\* Links stay good when they are kept and the runs they name are settled.
LEMMA LinksStay ==
  ASSUME LinksInv,
         \A t \in Tasks : /\ rows'[t].report = rows[t].report
                          /\ rows'[t].status = "success" => rows[t].status = "success" \/ rows[t].report # 0,
         \A r \in RunIds : runs[r].state = "over" => runs'[r] = runs[r],
         \A r \in RunIds : Fulfilled(r)',
         txns' \subseteq txns,
         loop'.pc = "rows" => loop' = loop, loop.noted \subseteq Tasks
  PROVE  LinksInv'
<1>1. ASSUME NEW t \in Tasks, NEW r \in RunIds, rows'[t].report = r
      PROVE  Linked(t, r)'
  BY <1>1 DEF LinksInv, Linked
<1>2. Unlinked'
  BY DEF LinksInv, Unlinked
<1>3. \A t \in Tasks : rows'[t].status = "success" => rows'[t].report # 0
  BY DEF LinksInv
<1>4. loop'.pc = "rows" => \A t \in loop'.noted : rows'[t].report # 0
  BY DEF LinksInv
<1> QED
  BY <1>1, <1>2, <1>3, <1>4 DEF LinksInv

\* Steps of one run that is not over, which leave the rows alone.
LEMMA LinksMove ==
  ASSUME CoreInv, LinksInv, NEW r \in RunIds, runs[r].state # "over",
         \A q \in RunIds : q # r => runs'[q] = runs[q] /\ reports'[q] = reports[q],
         Fulfilled(r)',
         UNCHANGED <<rows, txns>>, loop'.pc = "rows" => loop' = loop
  PROVE  LinksInv'
<1>1. \A q \in RunIds : Fulfilled(q)'
  BY DEF LinksInv, Fulfilled, Delivered
<1> QED
  BY <1>1, LinksStay, Types DEF LoopType

\* Steps that leave the runs and the rows alone; a report only goes.
LEMMA LinksQuiet ==
  ASSUME CoreInv, LinksInv, UNCHANGED runs,
         \A t \in Tasks : /\ rows'[t].report = rows[t].report
                          /\ rows'[t].status = "success" => rows[t].status = "success" \/ rows[t].report # 0,
         \A r \in RunIds : reports'[r] = reports[r] \/ reports'[r] \in {"orphaned", "deleted"},
         txns' \subseteq txns, loop'.pc = "rows" => loop' = loop
  PROVE  LinksInv'
<1>1. \A r \in RunIds : Fulfilled(r)'
  BY DEF LinksInv, Fulfilled, Delivered
<1> QED
  BY <1>1, LinksStay, Types DEF LoopType

LEMMA LinksUsers ==
  ASSUME CoreInv, LinksInv,
         \/ \E t \in Tasks : Create(t) \/ Delete(t)
         \/ \E r \in RunIds : Discard(r) \/ ReadReport(r) \/ Finalize(r)
         \/ \E w \in Requests : EditCommit(w)
  PROVE  LinksInv'
<1>1. ASSUME NEW t \in Tasks, Create(t) \/ Delete(t) PROVE LinksInv'
  <2>1. UNCHANGED <<runs, reports, txns, loop>>
    BY <1>1 DEF Create, Delete
  <2>2. \A u \in Tasks : rows'[u].report = rows[u].report /\ rows'[u].status = rows[u].status
    BY <1>1, Types, LifeRow
  <2> QED
    BY <2>1, <2>2, LinksQuiet
<1>2. ASSUME NEW r \in RunIds, Discard(r) \/ ReadReport(r) \/ Finalize(r) PROVE LinksInv'
  <2>1. UNCHANGED <<runs, rows, txns, loop>>
    BY <1>2 DEF Discard, ReadReport, Finalize
  <2>2. \A q \in RunIds : reports'[q] = reports[q] \/ reports'[q] \in {"orphaned", "deleted"}
    BY <1>2, Types DEF Discard, ReadReport, Finalize
  <2> QED
    BY <2>1, <2>2, LinksQuiet
<1>3. ASSUME NEW w \in Requests, EditCommit(w) PROVE LinksInv'
  <2>1. PICK x \in txns, new \in RowType : txns' = txns \ {x} /\ Edited(new, x.was) /\ CommitOf(x, new)
    BY <1>3, Types, EditEffect
  <2>2. \A t \in Tasks : rows'[t].report = rows[t].report /\ rows'[t].status = rows[t].status
    BY <2>1 DEF Edited, CommitOf
  <2>3. UNCHANGED <<runs, reports, loop>>
    BY <1>3 DEF EditCommit
  <2> QED
    BY <2>1, <2>2, <2>3, LinksQuiet
<1> QED
  BY <1>1, <1>2, <1>3

LEMMA LinksLoop ==
  ASSUME CoreInv, LinksInv, Poll \/ Mark \/ Snapshot \/ Tick \/ UNCHANGED vars
  PROVE  LinksInv'
<1>1. UNCHANGED <<runs, reports, txns>>
  BY DEF Poll, Mark, Snapshot, Tick, vars
<1>2. \A t \in Tasks : rows'[t].report = rows[t].report /\
                        (rows'[t].status = "success" => rows[t].status = "success")
  <2>1. CASE Mark
    BY <2>1, Types, MarkRow
  <2> QED
    BY <2>1 DEF Poll, Snapshot, Tick, vars
<1>3. loop'.pc = "rows" => loop' = loop
  <2>1. CASE Mark
    <3>1. loop' = At("idle", loop.lost) => loop'.pc = "idle"
      BY DEF At
    <3>2. loop' = [loop EXCEPT !.pc = "marked", !.noted = {}, !.lost = @ \ loop.tasks] => loop'.pc = "marked"
      BY Types DEF LoopType
    <3> QED
      BY <2>1, <3>1, <3>2, Types, MarkRow
  <2>2. CASE Poll
    BY <2>2, Types DEF Poll, LoopType
  <2>3. CASE Snapshot
    <3>1. At("idle", loop.lost \cup loop.tasks).pc = "idle"
      BY DEF At
    <3>2. [loop EXCEPT !.pc = "launching"].pc = "launching"
      BY Types DEF LoopType
    <3> QED
      BY <2>3, <3>1, <3>2 DEF Snapshot
  <2> QED
    BY <2>1, <2>2, <2>3 DEF Tick, vars
<1> QED
  BY <1>1, <1>2, <1>3, LinksQuiet

LEMMA LinksRuns ==
  ASSUME CoreInv, LinksInv,
         \/ \E t \in Tasks : Trigger(t) \/ Launch(t)
         \/ \E r \in RunIds : Acquire(r) \/ End(r)
  PROVE  LinksInv'
<1>1. ASSUME NEW t \in Tasks, Trigger(t)
      PROVE  LinksInv'
  <2>1. PICK r \in RunIds : Begins(r, t, "working", TRUE) /\ reports' = [reports EXCEPT ![r] = "running"]
    BY <1>1, Types, TriggerBegins
  <2>2. UNCHANGED <<rows, txns, loop>> /\ \A q \in RunIds : q # r => reports'[q] = reports[q]
    BY <1>1, <2>1, Types DEF Trigger
  <2> QED
    BY <2>1, <2>2, LinksMove DEF Begins, Fulfilled
<1>2. ASSUME NEW t \in Tasks, Launch(t)
      PROVE  LinksInv'
  <2>1. PICK r \in RunIds : Begins(r, t, "queued", FALSE)
    BY <1>2, Types, LaunchBegins
  <2>2. UNCHANGED <<rows, txns, reports>> /\ loop'.pc # "rows"
    BY <1>2, Types DEF Launch, LoopType
  <2> QED
    BY <2>1, <2>2, LinksMove DEF Begins, Fulfilled
<1>3. ASSUME NEW r \in RunIds, Acquire(r)
      PROVE  LinksInv'
  <2>1. Turns(r, "working")
    BY <1>3, Types, AcquireTurns
  <2>2. /\ UNCHANGED <<rows, txns, loop>> /\ runs[r].state = "queued"
        /\ \A q \in RunIds : q # r => reports'[q] = reports[q]
    BY <1>3, Types DEF Acquire
  <2> QED
    BY <2>1, <2>2, LinksMove DEF Turns, Fulfilled
<1>4. ASSUME NEW r \in RunIds, End(r)
      PROVE  LinksInv'
  <2>1. Turns(r, "ended") /\ runs[r].state = "working" /\ UNCHANGED <<rows, txns, loop>>
    BY <1>4, Types, EndTurns DEF End
  <2>2. PICK e \in Endings(reports[r]) : runs'[r].result = e.result /\ reports' = [reports EXCEPT ![r] = e.report]
    BY <1>4, Types, EndTurns
  <2>3. reports'[r] = e.report /\ \A q \in RunIds : q # r => reports'[q] = reports[q]
    BY <2>2, Types
  <2>4. e.result # "failed" => \/ e.result = "unset" \/ "unsaved" \in Faults
                               \/ e.report \in {"completed", "deleted"}
    BY DEF Endings
  <2>5. Fulfilled(r)'
    BY <2>2, <2>3, <2>4 DEF Fulfilled, Delivered
  <2> QED
    BY <2>1, <2>3, <2>5, LinksMove DEF Turns
<1> QED
  BY <1>1, <1>2, <1>3, <1>4

\* A transaction that opens for a run has read a row that does not link it.
LEMMA LinksLoads ==
  ASSUME CoreInv, LinksInv,
         \/ \E w \in Requests, t \in Tasks : EditLoad(w, t)
         \/ \E r \in RunIds : RecordLoad(r)
  PROVE  LinksInv'
<1>1. ASSUME NEW w, NEW t \in Tasks, NEW r \in 0 .. MaxRuns, Load(w, t, r),
             r # 0 => r \in RunIds /\ runs[r].state # "over",
             UNCHANGED <<rows, runs, reports, loop>>
      PROVE  LinksInv'
  <2> DEFINE x == [writer |-> w, task |-> t, run |-> r, was |-> rows[t]]
  <2>1. txns' = txns \cup {x} /\ x.was = rows[t] /\ x.run = r
    BY <1>1 DEF Load
  <2>2. r # 0 => rows[t].report # r
    BY <1>1 DEF LinksInv, Linked
  <2> HIDE DEF x
  <2>3. Unlinked'
    BY <2>1, <2>2 DEF LinksInv, Unlinked
  <2> QED
    BY <1>1, <2>3 DEF LinksInv, Fulfilled, Delivered, Linked
<1>2. ASSUME NEW w \in Requests, NEW t \in Tasks, EditLoad(w, t) PROVE LinksInv'
  <2>1. 0 \in 0 .. MaxRuns
    BY SchedulerAssumption
  <2> QED
    BY <1>1, <1>2, <2>1 DEF EditLoad
<1>3. ASSUME NEW r \in RunIds, RecordLoad(r) PROVE LinksInv'
  <2>1. /\ runs[r].task \in Tasks /\ r \in 0 .. MaxRuns /\ runs[r].state = "ended"
        /\ UNCHANGED <<rows, reports, loop>>
    BY <1>3, Types, SchedulerAssumption DEF RecordLoad, RunType, RunIds
  <2>2. CASE Load(Recorder(r), runs[r].task, r) /\ UNCHANGED runs
    BY <1>1, <2>1, <2>2
  <2>3. CASE runs' = [runs EXCEPT ![r].state = "over"] /\ UNCHANGED txns
    <3>1. Turns(r, "over") /\ runs'[r].result = runs[r].result
      BY <2>3, Types, RecordTurns
    <3>2. Fulfilled(r)'
      BY <2>1, <3>1 DEF LinksInv, Fulfilled, Delivered, Turns
    <3> QED
      BY <2>1, <2>3, <3>1, <3>2, LinksMove DEF Turns
  <2> QED
    BY <1>3, <2>2, <2>3 DEF RecordLoad
<1> QED
  BY <1>2, <1>3

\* The outcome of a run is written into its row.
LEMMA LinksRecord ==
  ASSUME CoreInv, LinksInv, NEW r \in RunIds, RecordCommit(r)
  PROVE  LinksInv'
<1>1. PICK x \in txns, new \in RowType :
        /\ x.run = r /\ Records(x) /\ txns' = txns \ {x}
        /\ Judged(new, x.was, r) /\ CommitOf(x, new)
        /\ Turns(r, "over") /\ runs'[r].result = runs[r].result
        /\ UNCHANGED <<loop, reports>>
  BY RecordEffect
<1>2. /\ x.task \in Tasks /\ runs[r].task = x.task /\ runs[r].state = "ended"
      /\ r # 0 /\ x.was.report # r
  BY <1>1, Types, SchedulerAssumption DEF TxnType, Records, LinksInv, Unlinked, RunIds
<1>3. \A q \in RunIds : Fulfilled(q)'
  BY <1>1, <1>2 DEF LinksInv, Fulfilled, Delivered, Turns
<1>4. \A u \in Tasks : rows'[u].report = rows[u].report \/
                        (u = x.task /\ rows'[u].report = r /\ runs[r].result # "failed")
  BY <1>1 DEF CommitOf, Judged
<1>5. ASSUME NEW u \in Tasks, NEW q \in RunIds, rows'[u].report = q
      PROVE  Linked(u, q)'
  <2>1. CASE rows[u].report = q
    <3>1. Linked(u, q) /\ q # r
      BY <1>2, <2>1 DEF LinksInv, Linked
    <3> QED
      BY <1>1, <3>1 DEF Turns, Linked
  <2>2. CASE rows[u].report # q
    BY <1>1, <1>2, <1>4, <1>5, <2>2 DEF Turns, Linked
  <2> QED
    BY <2>1, <2>2
<1>6. ASSUME NEW u \in Tasks, rows'[u].status = "success" PROVE rows'[u].report # 0
  <2>1. CASE rows[u].status = "success"
    BY <1>2, <1>4, <2>1 DEF LinksInv
  <2>2. CASE rows[u].status # "success"
    <3>1. u = x.task /\ new.status = "success" /\ Present(u)
      BY <1>1, <1>6, <2>2 DEF CommitOf
    <3>2. new.report = r
      BY <1>1, <3>1 DEF Judged
    <3> QED
      BY <1>1, <1>2, <3>1, <3>2 DEF CommitOf
  <2> QED
    BY <2>1, <2>2
<1>7. Unlinked'
  BY <1>1 DEF LinksInv, Unlinked
<1>8. loop'.pc = "rows" => \A t \in loop'.noted : rows'[t].report # 0
  BY <1>1, <1>2, <1>4, Types DEF LinksInv, LoopType
<1> QED
  BY <1>3, <1>5, <1>6, <1>7, <1>8 DEF LinksInv

LEMMA LinksProcesses ==
  ASSUME CoreInv, LinksInv, Crash \/ ApiCrash \/ Startup \/ RecoverRows \/ RecoverReports
  PROVE  LinksInv'
<1>1. CASE Crash \/ ApiCrash
  <2>1. PICK m \in BOOLEAN : KillRuns(m)
    BY <1>1 DEF Crash, ApiCrash
  <2>2. UNCHANGED <<rows, reports>> /\ txns' \subseteq txns /\ (loop'.pc = "rows" => loop' = loop)
    <3>1. Crash => loop'.pc = "down"
      BY DEF Crash, At
    <3> QED
      BY <1>1, <3>1 DEF Crash, ApiCrash
  <2>3. \A r \in RunIds : runs'[r] = runs[r] \/ (runs[r].state \in Live /\ runs'[r].state = "killed")
    BY <2>1, Types, KillEffect
  <2>4. \A r \in RunIds : Fulfilled(r)'
    BY <2>2, <2>3 DEF LinksInv, Fulfilled, Delivered
  <2>5. \A r \in RunIds : runs[r].state = "over" => runs'[r] = runs[r]
    BY <2>3 DEF Live
  <2> QED
    BY <2>2, <2>4, <2>5, LinksStay, Types DEF LoopType
<1>2. CASE Startup
  <2>1. UNCHANGED <<rows, txns, runs, reports>>
    BY <1>2 DEF Startup
  <2>2. \A t \in loop'.noted : rows[t].report # 0
    BY <1>2 DEF Startup, At, HasReport
  <2> QED
    BY <2>1, <2>2 DEF LinksInv, Fulfilled, Delivered, Linked, Unlinked
<1>3. CASE RecoverRows
  <2>1. UNCHANGED <<txns, runs, reports>> /\ loop.pc = "rows"
    BY <1>3 DEF RecoverRows
  <2>2. loop'.pc # "rows"
    <3>1. At("down", {}).pc # "rows"
      BY DEF At
    <3>2. [At("reports", {}) EXCEPT !.reports = {r \in RunIds : reports[r] = "running"}].pc # "rows"
      BY DEF At
    <3> QED
      BY <1>3, <3>1, <3>2 DEF RecoverRows
  <2>3. \A t \in Tasks :
          /\ rows'[t].report = rows[t].report
          /\ rows'[t].status = "success" => rows[t].status = "success" \/ rows[t].report # 0
    BY <1>3, <2>1, Types, RecoverRow DEF LinksInv
  <2> QED
    BY <2>1, <2>2, <2>3, LinksQuiet
<1>4. CASE RecoverReports
  <2>1. UNCHANGED <<rows, txns, runs>> /\ loop'.pc # "rows"
    BY <1>4 DEF RecoverReports, At
  <2>2. \A r \in RunIds : reports'[r] = reports[r] \/ reports'[r] = "orphaned"
    BY <1>4 DEF RecoverReports
  <2> QED
    BY <2>1, <2>2, LinksQuiet
<1> QED
  BY <1>1, <1>2, <1>3, <1>4

LEMMA LinksStep == CoreInv /\ LinksInv /\ [Next]_vars => LinksInv'
  BY LinksUsers, LinksLoop, LinksRuns, LinksLoads, LinksRecord, LinksProcesses
     DEF Next, UserStep, LoopStep, RunStep

(* A row that reads success links a run of its own that did not fail, and   *)
(* that run has left a completed report, unless its configuration raised,   *)
(* the report's write failed, a user deleted it or a reader or the recovery *)
(* failed it since; whoever wrote the row - a scheduled run, a manual test, *)
(* the recovery - and whatever was deleted, edited or restarted between the *)
(* two halves of the write (scheduler/main.py:212-228, 315-345).            *)
THEOREM ReportsCorrect == Spec => []SuccessHasReport
<1>1. Init => LinksInv
  <2>1. Init => \A t \in Tasks : rows[t].status = "none" /\ rows[t].report = 0
    BY DEF Init
  <2>2. Init => txns = {} /\ loop.pc = "idle" /\ \A r \in RunIds : runs[r].state = "none"
    BY DEF Init, At
  <2>3. 0 \notin RunIds
    BY DEF RunIds
  <2> QED
    BY <2>1, <2>2, <2>3 DEF LinksInv, Fulfilled, Unlinked
<1>2. CoreInv /\ LinksInv => SuccessHasReport
  <2> SUFFICES ASSUME CoreInv, LinksInv, NEW t \in Tasks, rows[t].status = "success"
               PROVE  LET r == rows[t].report
                      IN  r # 0 /\ runs[r].task = t /\ runs[r].result # "failed" /\ Delivered(r)
    BY DEF SuccessHasReport, Delivered
  <2>1. rows[t].report \in 0 .. MaxRuns /\ MaxRuns \in Nat
    BY Types, SchedulerAssumption DEF RowType
  <2>2. rows[t].report \in RunIds
    BY <2>1 DEF LinksInv, RunIds
  <2>3. Linked(t, rows[t].report) /\ Fulfilled(rows[t].report)
    BY <2>2 DEF LinksInv
  <2> QED
    BY <2>2, <2>3 DEF LinksInv, Linked, Fulfilled
<1> QED
  BY <1>1, <1>2, LinksStep, CoreAlways, PTL DEF Spec
=============================================================================
