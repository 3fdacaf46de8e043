---------------------------- MODULE JobRunProofs ----------------------------
(***************************************************************************)
(* Proofs about JobRun: the jobs of api/main.py keep the store's invariants *)
(* and their own, and no job that has completed is overwritten.  The store  *)
(* half of every action is one of four kinds; the lemmas of JobStoreProofs  *)
(* cover each.                                                              *)
(***************************************************************************)
EXTENDS JobRun, JobStoreProofs

USE DEF Looping

RunType == [pc : RunPc, chat : BOOLEAN, dry : BOOLEAN, scheduled : BOOLEAN,
            timedOut : BOOLEAN, dropped : BOOLEAN]

OwnTypeOK ==
  /\ run \in [Jobs -> RunType]
  /\ report \in [Jobs -> Reports]
  /\ reading \in [Jobs -> BOOLEAN]

(* The steps of whole processes, job by job: what was asked for is never    *)
(* forgotten, and each touches the jobs of its own process.                 *)
SameRequest(j) ==
  /\ run'[j].scheduled = run[j].scheduled /\ run'[j].chat = run[j].chat
  /\ run'[j].dry = run[j].dry /\ run'[j].timedOut = run[j].timedOut

Dies(j) ==
  /\ run'[j].pc = (IF run[j].pc = "new" THEN "new" ELSE "done")
  /\ status'[j] = "absent" /\ queueOf'[j] = 0

Survives(j) == run'[j] = run[j] /\ status'[j] = status[j] /\ queueOf'[j] = queueOf[j]

LEMMA DeadType ==
  ASSUME run \in [Jobs -> RunType], NEW j \in Jobs
  PROVE  /\ Dead(j) \in RunType
         /\ Dead(j).pc = (IF run[j].pc = "new" THEN "new" ELSE "done")
         /\ Dead(j).scheduled = run[j].scheduled /\ Dead(j).chat = run[j].chat
         /\ Dead(j).dry = run[j].dry /\ Dead(j).timedOut = run[j].timedOut
<1>1. run[j] \in RunType /\ "done" \in RunPc
  BY DEF RunPc
<1> QED
  BY <1>1 DEF Dead, RunType

LEMMA DropFacts ==
  ASSUME run \in [Jobs -> RunType], TypeOK, NEW k \in Jobs, Drop(k)
  PROVE  /\ run' \in [Jobs -> RunType] /\ SameRequest(k) /\ run'[k].pc = run[k].pc
         /\ run[k].scheduled /\ (run[k].pc = "done" \/ run[k].timedOut)
         /\ status'[k] = "absent" /\ queueOf'[k] = 0
         /\ \A j \in Jobs \ {k} : Survives(j)
         /\ UNCHANGED <<buffers, emitted, streams, seen, ending, report, reading>>
<1>1. /\ run' = [run EXCEPT ![k].dropped = TRUE]
      /\ run[k].scheduled /\ (run[k].pc = "done" \/ run[k].timedOut)
      /\ status' = [status EXCEPT ![k] = "absent"]
      /\ queueOf' = [queueOf EXCEPT ![k] = 0]
      /\ UNCHANGED <<buffers, emitted, streams, seen, ending, report, reading>>
  BY DEF Drop, DeleteJob, streamVars
<1>2. /\ run'[k] = [run[k] EXCEPT !.dropped = TRUE]
      /\ \A j \in Jobs \ {k} : run'[j] = run[j]
      /\ run[k] \in RunType
  BY <1>1
<1>3. run'[k].pc = run[k].pc /\ SameRequest(k) /\ run'[k] \in RunType
  BY <1>2 DEF RunType, SameRequest
<1>4. run' \in [Jobs -> RunType]
  BY <1>1, <1>2, <1>3
<1>5. /\ status'[k] = "absent" /\ queueOf'[k] = 0
      /\ \A j \in Jobs \ {k} : status'[j] = status[j] /\ queueOf'[j] = queueOf[j]
  BY <1>1 DEF TypeOK
<1> QED
  BY <1>1, <1>2, <1>3, <1>4, <1>5 DEF Survives

LEMMA SchedulerFacts ==
  ASSUME run \in [Jobs -> RunType], SchedulerStarts
  PROVE  /\ run' \in [Jobs -> RunType] /\ \A j \in Jobs : SameRequest(j)
         /\ \A j \in Jobs : IF run[j].scheduled THEN Dies(j) ELSE Survives(j)
         /\ UNCHANGED <<created, buffers, emitted, streams, seen, ending, reading>>
         /\ report' = [j \in Jobs |-> IF report[j] \in Active THEN "failed" ELSE report[j]]
<1>1. /\ run' = [j \in Jobs |-> IF run[j].scheduled
                                THEN [Dead(j) EXCEPT !.dropped = run[j].pc # "new"]
                                ELSE run[j]]
      /\ status' = [j \in Jobs |-> IF run[j].scheduled THEN "absent" ELSE status[j]]
      /\ queueOf' = [j \in Jobs |-> IF run[j].scheduled THEN 0 ELSE queueOf[j]]
      /\ UNCHANGED <<created, buffers, emitted, streams, seen, ending, reading>>
      /\ report' = [j \in Jobs |-> IF report[j] \in Active THEN "failed" ELSE report[j]]
  BY DEF SchedulerStarts, streamVars
<1>2. ASSUME NEW j \in Jobs
      PROVE  run'[j] \in RunType /\ SameRequest(j) /\ IF run[j].scheduled THEN Dies(j) ELSE Survives(j)
  <2>1. CASE run[j].scheduled
    <3>1. run'[j] = [Dead(j) EXCEPT !.dropped = run[j].pc # "new"]
      BY <1>1, <2>1
    <3>2. /\ run'[j] \in RunType /\ run'[j].pc = Dead(j).pc
          /\ run'[j].scheduled = Dead(j).scheduled /\ run'[j].chat = Dead(j).chat
          /\ run'[j].dry = Dead(j).dry /\ run'[j].timedOut = Dead(j).timedOut
      <4>1. Dead(j) \in RunType
        BY DeadType
      <4>2. (run[j].pc # "new") \in BOOLEAN
        OBVIOUS
      <4> HIDE DEF RunType
      <4> DEFINE d == run[j].pc # "new"
      <4>3. run'[j] = [Dead(j) EXCEPT !.dropped = d] /\ d \in BOOLEAN
        BY <3>1, <4>2
      <4> HIDE DEF d
      <4> QED
        BY <4>1, <4>3 DEF RunType
    <3> QED
      BY <1>1, <2>1, <3>2, DeadType DEF SameRequest, Dies
  <2>2. CASE ~run[j].scheduled
    BY <1>1, <2>2 DEF SameRequest, Survives
  <2> QED
    BY <2>1, <2>2
<1>3. run' \in [Jobs -> RunType]
  BY <1>1, <1>2
<1> QED
  BY <1>1, <1>2, <1>3

LEMMA RestartFacts ==
  ASSUME run \in [Jobs -> RunType], TypeOK, Restart
  PROVE  /\ run' \in [Jobs -> RunType] /\ \A j \in Jobs : SameRequest(j)
         /\ \A j \in Jobs : IF run[j].scheduled THEN Survives(j) ELSE Dies(j)
         /\ UNCHANGED <<buffers, emitted, seen, report>>
         /\ \A j \in Jobs : reading'[j] = FALSE
         /\ \A s \in Streams :
              /\ streams'[s].job = streams[s].job
              /\ run[streams[s].job].pc = "new" => streams'[s] = streams[s]
              /\ run[streams[s].job].pc # "new" => streams'[s].pc = "gone"
              /\ ending'[s] = IF streams[s].pc \in Looping THEN "cut" ELSE ending[s]
<1>1. /\ run' = [j \in Jobs |-> IF run[j].scheduled THEN run[j] ELSE Dead(j)]
      /\ status' = [j \in Jobs |-> IF run[j].scheduled THEN status[j] ELSE "absent"]
      /\ queueOf' = [j \in Jobs |-> IF run[j].scheduled THEN queueOf[j] ELSE 0]
      /\ reading' = [j \in Jobs |-> FALSE]
      /\ UNCHANGED <<buffers, emitted, seen, report>>
  BY DEF Restart
<1>2. ASSUME NEW j \in Jobs
      PROVE  run'[j] \in RunType /\ SameRequest(j) /\ IF run[j].scheduled THEN Survives(j) ELSE Dies(j)
  BY <1>1, DeadType DEF SameRequest, Survives, Dies
<1>3. run' \in [Jobs -> RunType]
  BY <1>1, <1>2
<1>4. \A s \in Streams :
        /\ streams'[s].job = streams[s].job
        /\ run[streams[s].job].pc = "new" => streams'[s] = streams[s]
        /\ run[streams[s].job].pc # "new" => streams'[s].pc = "gone"
        /\ ending'[s] = IF streams[s].pc \in Looping THEN "cut" ELSE ending[s]
  BY DEF Restart, TypeOK
<1> QED
  BY <1>1, <1>2, <1>3, <1>4

LEMMA KindSequences ==
  /\ <<"progress">> \in Seq(Kinds)
  /\ <<"job.failed">> \in Seq(Kinds)
  /\ <<"job.completed">> \in Seq(Kinds)
  /\ <<"progress", "job.completed">> \in Seq(Kinds)
  BY DEF Kinds

(* The store half of the steps of job j that touch the store. *)
LEMMA JobTouchesStore ==
  ASSUME TypeOK, DeliveryInv, NEW j \in Jobs,
         \/ CreateJob(j)
         \/ \E st \in Statuses : SetJob(j, st)
         \/ UNCHANGED storeVars,
         \/ \E kinds \in Seq(Kinds) : Emit(j, kinds)
         \/ UNCHANGED queueVars,
         UNCHANGED streamVars
  PROVE  TypeOK' /\ DeliveryInv'
<1>1. status' \in [Jobs -> Statuses] /\ created' \subseteq Jobs
  BY DEF TypeOK, Statuses, CreateJob, SetJob, storeVars
<1>2. CASE \E kinds \in Seq(Kinds) : Emit(j, kinds)
  BY <1>1, <1>2, EmitStep
<1>3. CASE UNCHANGED queueVars
  BY <1>1, <1>3, SetJobStep
<1> QED
  BY <1>2, <1>3

LEMMA StoreUntouched ==
  ASSUME TypeOK, DeliveryInv, UNCHANGED vars
  PROVE  TypeOK' /\ DeliveryInv'
  BY NextPreserves

LEMMA RouteSteps ==
  ASSUME TypeOK, DeliveryInv, NEW j \in Jobs,
         Analyze(j) \/ Chat(j) \/ ChatAccepted(j) \/ ChatRejected(j) \/ Launch(j) \/ Timeout(j)
         \/ ReadReport(j) \/ FinalizeOrphan(j)
  PROVE  TypeOK' /\ DeliveryInv'
<1>1. CASE Analyze(j)
  BY <1>1, JobTouchesStore, KindSequences DEF Analyze
<1>2. CASE Chat(j)
  BY <1>2, StoreUntouched DEF Chat, vars
<1>3. CASE ChatAccepted(j)
  BY <1>3, JobTouchesStore, KindSequences DEF ChatAccepted
<1>4. CASE ChatRejected(j)
  BY <1>4, JobTouchesStore, KindSequences DEF ChatRejected
<1>5. CASE Timeout(j)
  BY <1>5, JobTouchesStore, KindSequences DEF Timeout, Statuses
<1>6. CASE ReadReport(j)
  BY <1>6, StoreUntouched DEF ReadReport, vars
<1>7. CASE FinalizeOrphan(j)
  BY <1>7, StoreUntouched DEF FinalizeOrphan, vars
<1>8. CASE Launch(j)
  BY <1>8, StoreUntouched DEF Launch, vars
<1> QED
  BY <1>1, <1>2, <1>3, <1>4, <1>5, <1>6, <1>7, <1>8

LEMMA InnerSteps ==
  ASSUME TypeOK, DeliveryInv, NEW j \in Jobs, InnerStep(j)
  PROVE  TypeOK' /\ DeliveryInv'
<1>1. CASE OpenReport(j)
  BY <1>1, StoreUntouched DEF OpenReport, vars
<1>2. CASE ConfigRaises(j)
  BY <1>2, StoreUntouched DEF ConfigRaises, vars
<1>3. CASE Begin(j)
  <2>1. CASE run[j].dry
    BY <1>3, <2>1, JobTouchesStore, KindSequences DEF Begin, Statuses
  <2>2. CASE ~run[j].dry
    BY <1>3, <2>2, JobTouchesStore, KindSequences DEF Begin, Statuses
  <2> QED
    BY <2>1, <2>2
<1>4. CASE Progress(j)
  BY <1>4, JobTouchesStore, KindSequences DEF Progress
<1>5. CASE AnalysisEnds(j)
  BY <1>5, StoreUntouched DEF AnalysisEnds, vars
<1>6. CASE PostProcess(j)
  BY <1>6, StoreUntouched DEF PostProcess, vars
<1>7. CASE SaveReport(j)
  BY <1>7, StoreUntouched DEF SaveReport, vars
<1>8. CASE Finish(j)
  BY <1>8, JobTouchesStore, KindSequences DEF Finish, Statuses
<1>9. CASE Raise(j)
  BY <1>9, JobTouchesStore DEF Raise, Statuses
<1>10. CASE RecordFailure(j)
  BY <1>10, StoreUntouched DEF RecordFailure, vars
<1>11. CASE FinishFailed(j)
  BY <1>11, JobTouchesStore, KindSequences DEF FinishFailed
<1> QED
  BY <1>1, <1>2, <1>3, <1>4, <1>5, <1>6, <1>7, <1>8, <1>9, <1>10, <1>11 DEF InnerStep

LEMMA RestartStep ==
  ASSUME TypeOK, DeliveryInv, Restart
  PROVE  TypeOK' /\ DeliveryInv'
<1>1. /\ status' \in [Jobs -> Statuses] /\ created' \subseteq Jobs
      /\ queueOf' \in [Jobs -> 0 .. Len(buffers)]
      /\ UNCHANGED <<buffers, emitted, seen>>
  BY DEF Restart, TypeOK, Statuses
<1>2. streams \in [Streams -> StreamType] /\ "gone" \in StreamPc
  BY DEF TypeOK, StreamType, StreamPc
<1>3. ASSUME NEW s \in Streams
      PROVE  \/ streams'[s] = streams[s]
             \/ streams'[s] = [streams[s] EXCEPT !.pc = "gone"]
  BY DEF Restart
<1>4. streams' \in [Streams -> StreamType]
  <2>1. streams' = [s \in Streams |-> streams'[s]]
    BY DEF Restart
  <2>2. \A s \in Streams : [streams[s] EXCEPT !.pc = "gone"] \in StreamType
    BY <1>2 DEF StreamType
  <2> QED
    BY <1>2, <1>3, <2>1, <2>2
<1>5. \A s \in Streams :
        /\ streams'[s].pc \in Looping =>
             streams[s].pc \in Looping /\ streams'[s].queue = streams[s].queue
        /\ streams'[s].pc = "idle" => streams[s].pc = "idle"
  BY <1>2, <1>3 DEF StreamType
<1>6. ending' \in [Streams -> Endings]
  BY DEF Restart, TypeOK, Endings
<1> QED
  BY <1>1, <1>4, <1>5, <1>6, LocalStep

(* Steps that only make the store forget jobs. *)
LEMMA ForgetStep ==
  ASSUME TypeOK, DeliveryInv, UNCHANGED <<buffers, emitted, streams, seen, ending>>,
         status' \in [Jobs -> Statuses], created' \subseteq Jobs,
         queueOf' \in [Jobs -> 0 .. Len(buffers)]
  PROVE  TypeOK' /\ DeliveryInv'
<1>1. streams \in [Streams -> StreamType] /\ ending \in [Streams -> Endings]
  BY DEF TypeOK, StreamType
<1> QED
  BY <1>1, LocalStep

LEMMA DropStep ==
  ASSUME TypeOK, DeliveryInv, NEW j \in Jobs, Drop(j)
  PROVE  TypeOK' /\ DeliveryInv'
<1>1. /\ status' = [status EXCEPT ![j] = "absent"] /\ created' = created \ {j}
      /\ queueOf' = [queueOf EXCEPT ![j] = 0]
      /\ UNCHANGED <<buffers, emitted, streams, seen, ending>>
  BY DEF Drop, DeleteJob, streamVars
<1>2. /\ status' \in [Jobs -> Statuses] /\ created' \subseteq Jobs
      /\ queueOf' \in [Jobs -> 0 .. Len(buffers)]
  <2>1. 0 \in 0 .. Len(buffers) /\ "absent" \in Statuses
    BY DEF TypeOK, Statuses
  <2> QED
    BY <1>1, <2>1 DEF TypeOK
<1> QED
  BY <1>1, <1>2, ForgetStep

LEMMA SchedulerStep ==
  ASSUME TypeOK, DeliveryInv, SchedulerStarts
  PROVE  TypeOK' /\ DeliveryInv'
<1>1. /\ status' = [j \in Jobs |-> IF run[j].scheduled THEN "absent" ELSE status[j]]
      /\ queueOf' = [j \in Jobs |-> IF run[j].scheduled THEN 0 ELSE queueOf[j]]
      /\ UNCHANGED <<created, buffers, emitted, streams, seen, ending>>
  BY DEF SchedulerStarts, streamVars
<1>2. /\ status' \in [Jobs -> Statuses] /\ created' \subseteq Jobs
      /\ queueOf' \in [Jobs -> 0 .. Len(buffers)]
  <2>1. 0 \in 0 .. Len(buffers) /\ "absent" \in Statuses
    BY DEF TypeOK, Statuses
  <2> QED
    BY <1>1, <2>1 DEF TypeOK
<1> QED
  BY <1>1, <1>2, ForgetStep

LEMMA StoreKept ==
  ASSUME TypeOK, DeliveryInv, [RunNext]_allVars
  PROVE  TypeOK' /\ DeliveryInv'
<1>1. ASSUME NEW s \in Streams, ClientStep(s)
      PROVE  TypeOK' /\ DeliveryInv'
  BY <1>1, StreamStepPreserves DEF ClientStep, ClientSubscribes, StreamStep
<1>2. ASSUME NEW j \in Jobs, Drop(j)
      PROVE  TypeOK' /\ DeliveryInv'
  BY <1>2, DropStep
<1>3. CASE RunTick
  BY <1>3, TickStep DEF RunTick
<1>4. CASE UNCHANGED allVars
  BY <1>4, StoreUntouched DEF allVars, vars
<1> QED
  BY <1>1, <1>2, <1>3, <1>4, RouteSteps, InnerSteps, RestartStep, SchedulerStep DEF RunNext

-----------------------------------------------------------------------------
(* The types of the state the jobs add. *)

LEMMA GotoType ==
  ASSUME run \in [Jobs -> RunType], NEW j \in Jobs, NEW from, NEW to \in RunPc, Goto(j, from, to)
  PROVE  run' \in [Jobs -> RunType]
<1>1. [run[j] EXCEPT !.pc = to] \in RunType
  BY DEF RunType
<1> QED
  BY <1>1 DEF Goto

LEMMA MarkType ==
  ASSUME report \in [Jobs -> Reports], NEW j \in Jobs, MarkReportFailed(j)
  PROVE  report' \in [Jobs -> Reports]
  BY DEF MarkReportFailed, Reports

LEMMA OwnTypeKept ==
  ASSUME TypeOK, OwnTypeOK, [RunNext]_allVars
  PROVE  OwnTypeOK'
<1>1. /\ run \in [Jobs -> RunType] /\ report \in [Jobs -> Reports]
      /\ reading \in [Jobs -> BOOLEAN]
      /\ {"completed", "failed", "pending", "running"} \subseteq Reports
      /\ {"extract", "start", "begin", "work", "post", "save", "finish",
          "failing", "failed", "done"} \subseteq RunPc
  BY DEF OwnTypeOK, Reports, Active, RunPc
<1>2. ASSUME NEW j \in Jobs,
             \/ Analyze(j) \/ Chat(j) \/ ChatAccepted(j) \/ ChatRejected(j) \/ Launch(j)
             \/ AnalysisEnds(j) \/ PostProcess(j) \/ Finish(j) \/ FinishFailed(j)
      PROVE  OwnTypeOK'
  <2>1. UNCHANGED <<report, reading>>
    BY <1>2 DEF Analyze, Chat, ChatAccepted, ChatRejected, Launch, AnalysisEnds,
                PostProcess, Finish, FinishFailed
  <2>2. run' \in [Jobs -> RunType]
    BY <1>1, <1>2, GotoType DEF Analyze, Chat, ChatAccepted, ChatRejected, Launch, AnalysisEnds,
                PostProcess, Finish, FinishFailed
  <2> QED
    BY <1>1, <2>1, <2>2 DEF OwnTypeOK
<1>3. ASSUME NEW j \in Jobs, OpenReport(j) \/ ConfigRaises(j) \/ SaveReport(j)
      PROVE  OwnTypeOK'
  <2>1. run' \in [Jobs -> RunType] /\ reading' = reading
    BY <1>1, <1>3, GotoType DEF OpenReport, ConfigRaises, SaveReport
  <2>2. report' \in [Jobs -> Reports]
    BY <1>1, <1>3 DEF OpenReport, ConfigRaises, SaveReport
  <2> QED
    BY <1>1, <2>1, <2>2 DEF OwnTypeOK
<1>4. ASSUME NEW j \in Jobs, Begin(j)
      PROVE  OwnTypeOK'
  <2>1. UNCHANGED <<report, reading>> /\ (Goto(j, "begin", "done") \/ Goto(j, "begin", "work"))
    BY <1>4 DEF Begin
  <2>2. run' \in [Jobs -> RunType]
    BY <1>1, <2>1, GotoType
  <2> QED
    BY <1>1, <2>1, <2>2 DEF OwnTypeOK
<1>5. ASSUME NEW j \in Jobs, Raise(j)
      PROVE  OwnTypeOK'
  <2>1. PICK from \in {"work", "post"} : Goto(j, from, "failing")
    BY <1>5 DEF Raise
  <2>2. run' \in [Jobs -> RunType]
    BY <1>1, <2>1, GotoType
  <2> QED
    BY <1>1, <1>5, <2>2 DEF OwnTypeOK, Raise
<1>6. ASSUME NEW j \in Jobs, RecordFailure(j)
      PROVE  OwnTypeOK'
  <2>1. run' \in [Jobs -> RunType] /\ reading' = reading
    BY <1>1, <1>6, GotoType DEF RecordFailure, vars
  <2>2. report' \in [Jobs -> Reports]
    BY <1>1, <1>6, MarkType DEF RecordFailure
  <2> QED
    BY <1>1, <2>1, <2>2 DEF OwnTypeOK
<1>7. ASSUME NEW j \in Jobs, Timeout(j)
      PROVE  OwnTypeOK'
  <2>1. [run[j] EXCEPT !.timedOut = TRUE] \in RunType
    BY <1>1 DEF RunType
  <2>2. run' \in [Jobs -> RunType] /\ reading' = reading
    BY <1>1, <1>7, <2>1 DEF Timeout
  <2>3. report' \in [Jobs -> Reports]
    BY <1>1, <1>7, MarkType DEF Timeout
  <2> QED
    BY <1>1, <2>2, <2>3 DEF OwnTypeOK
<1>8. ASSUME NEW j \in Jobs, ReadReport(j) \/ FinalizeOrphan(j)
      PROVE  OwnTypeOK'
  <2>1. run' = run /\ reading' \in [Jobs -> BOOLEAN]
    BY <1>1, <1>8 DEF ReadReport, FinalizeOrphan
  <2>2. report' \in [Jobs -> Reports]
    BY <1>1, <1>8 DEF ReadReport, FinalizeOrphan
  <2> QED
    BY <1>1, <2>1, <2>2 DEF OwnTypeOK
<1>9. CASE SchedulerStarts
  <2>1. report' \in [Jobs -> Reports]
    BY <1>1, <1>9, SchedulerFacts
  <2> QED
    BY <1>1, <1>9, <2>1, SchedulerFacts DEF OwnTypeOK
<1>10. CASE Restart
  <2>1. reading' \in [Jobs -> BOOLEAN]
    BY <1>10 DEF Restart
  <2> QED
    BY <1>1, <1>10, <2>1, RestartFacts DEF OwnTypeOK
<1>11. ASSUME UNCHANGED runVars
       PROVE  OwnTypeOK'
  BY <1>1, <1>11 DEF runVars, OwnTypeOK
<1>12. ASSUME NEW j \in Jobs, Drop(j)
       PROVE  OwnTypeOK'
  BY <1>1, <1>12, DropFacts DEF OwnTypeOK
<1> QED
  BY <1>12, <1>2, <1>3, <1>4, <1>5, <1>6, <1>7, <1>8, <1>9, <1>10, <1>11
     DEF RunNext, InnerStep, Progress, ClientStep, RunTick, allVars, runVars

LEMMA RunInitInvariants == RunInit => TypeOK /\ DeliveryInv /\ OwnTypeOK
<1> SUFFICES ASSUME RunInit PROVE TypeOK /\ DeliveryInv /\ OwnTypeOK
  OBVIOUS
<1>1. TypeOK /\ DeliveryInv
  BY InitInvariants DEF RunInit
<1>2. run \in [Jobs -> RunType]
  <2>1. [pc : {"new"}, chat : BOOLEAN, dry : BOOLEAN, scheduled : BOOLEAN,
        timedOut : {FALSE}, dropped : {FALSE}] \subseteq RunType
    BY DEF RunType, RunPc
  <2> QED
    BY <2>1 DEF RunInit
<1>3. OwnTypeOK
  BY <1>2 DEF RunInit, OwnTypeOK, Reports
<1> QED
  BY <1>1, <1>3

(* The state of the store and of the jobs keeps its types, for every        *)
(* combination of faults.                                                   *)
THEOREM RunTypeCorrect == RunSpec => []RunTypeOK
<1>1. RunInit => TypeOK /\ DeliveryInv /\ OwnTypeOK
  BY RunInitInvariants
<1>2. TypeOK /\ DeliveryInv /\ OwnTypeOK /\ [RunNext]_allVars
        => TypeOK' /\ DeliveryInv' /\ OwnTypeOK'
  BY StoreKept, OwnTypeKept
<1>3. TypeOK /\ OwnTypeOK => RunTypeOK
  BY DEF OwnTypeOK, RunTypeOK, RunType
<1> QED
  BY <1>1, <1>2, <1>3, PTL DEF RunSpec

-----------------------------------------------------------------------------
(* A completed job stays completed. *)

CompletedIsDone == \A j \in Jobs : status[j] = "completed" => run[j].pc = "done"

(* The steps of a job in the state "done" do not touch its status, but for  *)
(* deletion; no other step of a job touches the status of another.          *)
LEMMA CompletedStep ==
  ASSUME TypeOK, OwnTypeOK, CompletedIsDone, [RunNext]_allVars
  PROVE  /\ CompletedIsDone'
         /\ \A j \in Jobs : status[j] = "completed" => status'[j] \in {"completed", "absent"}
<1>1. /\ status \in [Jobs -> Statuses]
      /\ run \in [Jobs -> RunType]
  BY DEF TypeOK, OwnTypeOK, RunType
<1> DEFINE Goal == /\ CompletedIsDone'
                   /\ \A j \in Jobs : status[j] = "completed" => status'[j] \in {"completed", "absent"}
<1>2. ASSUME NEW j \in Jobs, NEW from, NEW to \in RunPc, Goto(j, from, to), from # "done",
             \/ UNCHANGED status
             \/ \E st \in Statuses \ {"completed"} : status' = [status EXCEPT ![j] = st]
             \/ to = "done" /\ status' = [status EXCEPT ![j] = "completed"]
      PROVE  Goal
  <2>1. run[j].pc # "done" /\ status[j] # "completed"
    BY <1>2 DEF Goto, CompletedIsDone
  <2>2. run'[j].pc = to /\ \A k \in Jobs \ {j} : run'[k] = run[k]
    BY <1>1, <1>2 DEF Goto
  <2>3. /\ \A k \in Jobs \ {j} : status'[k] = status[k]
        /\ status'[j] = "completed" => to = "done"
    BY <1>1, <1>2, <2>1
  <2> QED
    BY <2>1, <2>2, <2>3 DEF CompletedIsDone
<1>3. ASSUME UNCHANGED run,
             \A k \in Jobs : status'[k] \in {status[k], "absent"}
      PROVE  Goal
  BY <1>3 DEF CompletedIsDone
<1>4. ASSUME NEW j \in Jobs,
             \/ Analyze(j) \/ Chat(j) \/ ChatAccepted(j) \/ ChatRejected(j) \/ Launch(j)
      PROVE  Goal
  <2> HIDE DEF Goal
  <2>1. {"extract", "start", "done"} \subseteq RunPc /\ "pending" \in Statuses \ {"completed"}
    BY DEF RunPc, Statuses
  <2> QED
    BY <1>2, <1>4, <2>1 DEF Analyze, Chat, ChatAccepted, ChatRejected, Launch, CreateJob, storeVars, vars
<1>5. ASSUME NEW j \in Jobs,
             \/ OpenReport(j) \/ ConfigRaises(j) \/ AnalysisEnds(j) \/ PostProcess(j)
             \/ SaveReport(j) \/ RecordFailure(j) \/ FinishFailed(j)
      PROVE  Goal
  <2> HIDE DEF Goal
  <2>1. {"begin", "done", "post", "save", "finish", "failed"} \subseteq RunPc
    BY DEF RunPc
  <2> QED
    BY <1>2, <1>5, <2>1 DEF OpenReport, ConfigRaises, AnalysisEnds, PostProcess, SaveReport,
                            RecordFailure, FinishFailed, storeVars, vars
<1>6. ASSUME NEW j \in Jobs, Begin(j) \/ Finish(j) \/ Raise(j)
      PROVE  Goal
  <2> HIDE DEF Goal
  <2>1. {"done", "work", "failing"} \subseteq RunPc /\ {"running", "failed"} \subseteq Statuses \ {"completed"}
    BY DEF RunPc, Statuses
  <2>2. CASE Begin(j)
    BY <1>2, <2>1, <2>2 DEF Begin, SetJob
  <2>3. CASE Finish(j)
    BY <1>2, <2>1, <2>3 DEF Finish, SetJob
  <2>4. CASE Raise(j)
    BY <1>2, <2>1, <2>4 DEF Raise, SetJob
  <2> QED
    BY <1>6, <2>2, <2>3, <2>4
<1>7. ASSUME NEW j \in Jobs, Timeout(j)
      PROVE  Goal
  <2>1. /\ run[j].pc # "done" /\ run' = [run EXCEPT ![j].timedOut = TRUE]
        /\ status' = [status EXCEPT ![j] = "failed"]
    BY <1>7 DEF Timeout, Racing, SetJob
  <2>2. \A k \in Jobs : run'[k].pc = run[k].pc
    BY <1>1, <2>1
  <2>3. status[j] # "completed" /\ status'[j] = "failed" /\ \A k \in Jobs \ {j} : status'[k] = status[k]
    BY <1>1, <2>1 DEF CompletedIsDone
  <2> QED
    BY <2>2, <2>3 DEF CompletedIsDone
<1>8. ASSUME Restart \/ SchedulerStarts
      PROVE  Goal
  <2>1. \A j \in Jobs : Dies(j) \/ Survives(j)
    BY <1>1, <1>8, RestartFacts, SchedulerFacts
  <2> QED
    BY <2>1 DEF Dies, Survives, CompletedIsDone
<1>9. ASSUME NEW s \in Streams, ClientStep(s)
      PROVE  Goal
  <2>1. UNCHANGED run
    BY <1>9 DEF ClientStep, runVars
  <2>2. CASE Cleanup(s)
    <3>1. status' = [status EXCEPT ![streams[s].job] = "absent"]
      BY <2>2 DEF Cleanup, DeleteJob
    <3>2. \A k \in Jobs : status'[k] \in {status[k], "absent"}
      BY <1>1, <3>1
    <3> QED
      BY <1>3, <2>1, <3>2
  <2>3. CASE ~Cleanup(s)
    <3>1. UNCHANGED status
      BY <1>9, <2>3 DEF ClientStep, ClientSubscribes, Subscribe, Yield, PollTimeout, Disconnect
    <3> QED
      BY <1>3, <2>1, <3>1
  <2> QED
    BY <2>2, <2>3
<1>10. ASSUME NEW j \in Jobs, Progress(j) \/ ReadReport(j) \/ FinalizeOrphan(j)
       PROVE  Goal
  <2>1. UNCHANGED <<run, status>>
    BY <1>10 DEF Progress, ReadReport, FinalizeOrphan, runVars, storeVars, vars
  <2> QED
    BY <1>3, <2>1
<1>11. ASSUME RunTick \/ UNCHANGED allVars
       PROVE  Goal
  <2>1. UNCHANGED <<run, status>>
    BY <1>11 DEF RunTick, Tick, runVars, vars, allVars
  <2> QED
    BY <1>3, <2>1
<1>14. ASSUME NEW k \in Jobs, Drop(k)
       PROVE  Goal
  <2>1. status'[k] = "absent" /\ \A j \in Jobs \ {k} : Survives(j)
    BY <1>1, <1>14, DropFacts
  <2> QED
    BY <2>1 DEF Survives, CompletedIsDone
<1> HIDE DEF Goal
<1>12. ASSUME NEW j \in Jobs, InnerStep(j)
       PROVE  Goal
  BY <1>5, <1>6, <1>10, <1>12 DEF InnerStep
<1>13. Goal
  BY <1>4, <1>7, <1>8, <1>9, <1>10, <1>11, <1>12, <1>14 DEF RunNext
<1> QED
  BY <1>13 DEF Goal

(* Neither the timeout, nor the except branch, nor a coroutine that was     *)
(* abandoned by its timeout overwrites the status of a completed job        *)
(* (main.py:1501-1531, 2219-2267), for any number of jobs and faults.       *)
THEOREM CompletionIsFinal == RunSpec => CompletedIsFinal
<1>1. RunInit => TypeOK /\ DeliveryInv /\ OwnTypeOK /\ CompletedIsDone
  BY RunInitInvariants DEF RunInit, Init, CompletedIsDone
<1>2. TypeOK /\ DeliveryInv /\ OwnTypeOK /\ CompletedIsDone /\ [RunNext]_allVars
        => TypeOK' /\ DeliveryInv' /\ OwnTypeOK' /\ CompletedIsDone'
  BY StoreKept, OwnTypeKept, CompletedStep
<1>3. TypeOK /\ OwnTypeOK /\ CompletedIsDone /\ [RunNext]_allVars
        => [\A j \in Jobs : status[j] = "completed" => status'[j] \in {"completed", "absent"}]_allVars
  BY CompletedStep
<1> QED
  BY <1>1, <1>2, <1>3, PTL DEF RunSpec, CompletedIsFinal

-----------------------------------------------------------------------------
(* The jobs drive the store as an event log. *)

LEMMA RunImplements ==
  ASSUME TypeOK, DeliveryInv, [RunNext]_allVars
  PROVE  [Log!Next]_(Log!logVars)
<1>1. ASSUME NEW j \in Jobs, NEW kinds \in Seq(Kinds), kinds # <<>>, Emit(j, kinds), UNCHANGED seen
      PROVE  Log!Next
  BY <1>1, EmitImplements DEF Log!Next
<1>2. /\ <<"progress">> # <<>> /\ <<"job.failed">> # <<>> /\ <<"job.completed">> # <<>>
      /\ <<"progress", "job.completed">> # <<>>
  OBVIOUS
<1>3. ASSUME NEW j \in Jobs,
             \/ Analyze(j) \/ ChatAccepted(j) \/ ChatRejected(j) \/ Begin(j) \/ Progress(j)
             \/ Finish(j) \/ FinishFailed(j) \/ Timeout(j)
      PROVE  Log!Next
  <2>1. UNCHANGED seen
    BY <1>3 DEF Analyze, ChatAccepted, ChatRejected, Begin, Progress, Finish, FinishFailed,
                Timeout, streamVars
  <2>2. PICK kinds \in {<<"progress">>, <<"job.failed">>, <<"job.completed">>,
                        <<"progress", "job.completed">>} : Emit(j, kinds)
    BY <1>3 DEF Analyze, ChatAccepted, ChatRejected, Begin, Progress, Finish, FinishFailed, Timeout
  <2> QED
    BY <1>1, <1>2, <2>1, <2>2, KindSequences
<1>4. ASSUME NEW j \in Jobs,
             \/ Chat(j) \/ OpenReport(j) \/ ConfigRaises(j) \/ AnalysisEnds(j) \/ PostProcess(j)
             \/ SaveReport(j) \/ Raise(j) \/ RecordFailure(j) \/ ReadReport(j) \/ FinalizeOrphan(j)
             \/ Launch(j) \/ Drop(j)
      PROVE  UNCHANGED Log!logVars
  BY <1>4 DEF Chat, OpenReport, ConfigRaises, AnalysisEnds, PostProcess, SaveReport, Raise,
              RecordFailure, ReadReport, FinalizeOrphan, Launch, Drop, DeleteJob, vars, queueVars,
              streamVars, Log!logVars
<1>5. ASSUME NEW s \in Streams, ClientStep(s)
      PROVE  Log!Next \/ UNCHANGED Log!logVars
  <2>1. CASE Yield(s)
    BY <2>1, YieldImplements DEF Log!Next
  <2>2. CASE ~Yield(s)
    BY <1>5, <2>2 DEF ClientStep, ClientSubscribes, Subscribe, PollTimeout, Disconnect, Cleanup,
                      DeleteJob, Log!logVars
  <2> QED
    BY <2>1, <2>2
<1>6. ASSUME SchedulerStarts \/ Restart \/ RunTick \/ UNCHANGED allVars
      PROVE  UNCHANGED Log!logVars
  BY <1>6 DEF SchedulerStarts, Restart, RunTick, Tick, streamVars, vars, allVars, Log!logVars
<1> QED
  BY <1>3, <1>4, <1>5, <1>6 DEF RunNext, InnerStep

(* Whatever fails, restarts included, no client sees an event of a job      *)
(* twice or out of order (main.py:2552-2574 over job_store.py:122-152).     *)
THEOREM RunRefinement == RunSpec => EventLogImplemented
<1>1. RunInit => TypeOK /\ DeliveryInv
  BY RunInitInvariants
<1>2. TypeOK /\ DeliveryInv /\ [RunNext]_allVars => TypeOK' /\ DeliveryInv'
  BY StoreKept
<1>3. RunInit => Log!Init
  BY DEF RunInit, Init, Log!Init
<1>4. TypeOK /\ DeliveryInv /\ [RunNext]_allVars => [Log!Next]_(Log!logVars)
  BY RunImplements
<1> QED
  BY <1>1, <1>2, <1>3, <1>4, PTL DEF RunSpec, EventLogImplemented, Log!Spec

-----------------------------------------------------------------------------
(* What a job that is on time knows of its events, its streams and its      *)
(* store entry.  A job past its timeout is excused: its abandoned coroutine *)
(* still moves, after the streams have been told and while the entry may be *)
(* deleted.  So is a job one of whose clients has left: its entry goes one  *)
(* grace period later, whatever the job is doing.  And so are the jobs of    *)
(* the scheduler: the API sees neither their entries nor their events.      *)

Early   == {"new", "extract"}
Closing == {"failing", "failed", "done"}
Over    == Terminal \cup {"absent"}

\* Before the run is accepted there is no entry and no report; before the
\* request there are no events and no streams either.
EarlyInv ==
  /\ \A j \in Jobs : run[j].pc \in Early =>
       report[j] = "none" /\ reading[j] = FALSE /\ status[j] = "absent"
  /\ \A e : Held(e) => run[e.job].pc # "new"
  /\ \A s \in Streams :
       /\ streams[s].pc # "idle" => run[streams[s].job].pc # "new"
       /\ streams[s].pc \in ({"idle"} \cup Looping) => streams[s].grace = Grace

\* A stream that has not ended has no ending.
OpenInv == \A s \in Streams : streams[s].pc \in ({"idle"} \cup Looping) => ending[s] = "open"

\* The scheduler's jobs come from no request and have no stream.
ScheduledInv ==
  /\ \A j \in Jobs : run[j].scheduled =>
       ~run[j].chat /\ run[j].pc # "extract" /\ status[j] # "pending"
  /\ \A s \in Streams : run[streams[s].job].scheduled =>
       streams[s].pc \in {"idle", "gone"} /\ ending[s] = "open" /\ seen[s] = {}

\* A terminal event exists only when the run is over.
VerdictIsLast(j) ==
  \A e : Held(e) /\ e.job = j /\ e.kind \in TerminalKinds => run[j].pc = "done" /\ status[j] \in Over

\* What the status and the end of a stream tell of the coroutine.
ClosedInTime(j) ==
  /\ status[j] \in Terminal => run[j].pc \in Closing
  /\ status[j] = "absent" => run[j].pc \in Early \cup Closing
  /\ run[j].pc \in {"failing", "failed"} => status[j] \in Over
  /\ \A s \in Streams : streams[s].job = j /\ streams[s].pc = "ended" =>
       run[j].pc \in Closing /\ status[j] \in Over

\* Until the job is deleted its streams wait where its events are put.
Undeleted(j) == status[j] # "absent" \/ run[j].pc \in Early
SharedQueue(j) ==
  Undeleted(j) =>
    /\ \A s \in Streams : streams[s].job = j /\ streams[s].pc \in Looping => streams[s].queue = queueOf[j]
    /\ \A q, e : Queued(q, e) /\ e.job = j => q = queueOf[j]

\* The status never runs ahead of the event.
CompletionHeld(j) ==
  status[j] = "completed" => \E e : Held(e) /\ e.job = j /\ e.kind = "job.completed"

OnTime(j) == VerdictIsLast(j) /\ ClosedInTime(j) /\ SharedQueue(j) /\ CompletionHeld(j)
OnTimeInv == \A j \in Jobs : run[j].scheduled \/ Excused(j) \/ OnTime(j)

-----------------------------------------------------------------------------
(* The steps of a job, abstracted: what they put into the queue, and how    *)
(* the coroutine and the status move together.                              *)

Touches(j, kinds) ==
  /\ \/ Emit(j, kinds)
     \/ kinds = <<>> /\ UNCHANGED queueVars
  /\ UNCHANGED streamVars

LEMMA Touched ==
  ASSUME TypeOK, DeliveryInv, NEW j \in Jobs, NEW kinds \in Seq(Kinds), Touches(j, kinds)
  PROVE  /\ \A q, e : Queued(q, e)' =>
              \/ Queued(q, e)
              \/ q = queueOf'[j] /\ \E i \in 1 .. Len(kinds) : IsNews(e, j, kinds, i)
         /\ \A e : Held(e) => Held(e)'
         /\ \A e : Held(e)' => (Held(e) \/ \E i \in 1 .. Len(kinds) : IsNews(e, j, kinds, i))
         /\ \A i \in 1 .. Len(kinds) : \E e : Held(e)' /\ IsNews(e, j, kinds, i)
         /\ \A k \in Jobs \ {j} : queueOf'[k] = queueOf[k]
         /\ queueOf[j] # 0 => queueOf'[j] = queueOf[j]
         /\ UNCHANGED <<streams, seen, ending>>
<1>1. UNCHANGED <<streams, seen, ending>>
  BY DEF Touches, streamVars
<1>2. CASE Emit(j, kinds)
  <2>1. /\ \A q, e : Queued(q, e) => Queued(q, e)'
        /\ \A q, e : Queued(q, e)' => \/ Queued(q, e)
                                      \/ q = Queue(j) /\ \E i \in 1 .. Len(kinds) : IsNews(e, j, kinds, i)
        /\ \A i \in 1 .. Len(kinds) : \E q, e : Queued(q, e)' /\ IsNews(e, j, kinds, i)
    BY <1>1, <1>2, HeldEmit DEF DeliveryInv
  <2>2. \A q, e : (Queued(q, e) => q \in DOMAIN buffers) /\ (Queued(q, e)' => q \in DOMAIN buffers')
    BY DEF Queued
  <2>3. \A e : Held(e) => Held(e)'
    BY <1>1, <2>1, <2>2 DEF Held
  <2>4. \A e : Held(e)' => (Held(e) \/ \E i \in 1 .. Len(kinds) : IsNews(e, j, kinds, i))
    BY <1>1, <2>1, <2>2 DEF Held
  <2>5. \A i \in 1 .. Len(kinds) : \E e : Held(e)' /\ IsNews(e, j, kinds, i)
    BY <2>1, <2>2 DEF Held
  <2>6. /\ queueOf' = [queueOf EXCEPT ![j] = Queue(j)] /\ queueOf \in [Jobs -> 0 .. Len(buffers)]
        /\ queueOf[j] # 0 => Queue(j) = queueOf[j]
    BY <1>2 DEF Emit, TypeOK, Queue
  <2>7. queueOf'[j] = Queue(j) /\ \A k \in Jobs \ {j} : queueOf'[k] = queueOf[k]
    BY <2>6
  <2> QED
    BY <1>1, <2>1, <2>3, <2>4, <2>5, <2>6, <2>7
<1>3. CASE kinds = <<>> /\ UNCHANGED queueVars
  <2>1. UNCHANGED <<buffers, seen, queueOf>> /\ 1 .. Len(kinds) = {}
    BY <1>1, <1>3 DEF queueVars
  <2> QED
    BY <1>1, <2>1, HeldSame
<1> QED
  BY <1>2, <1>3 DEF Touches

Has(kinds, S) == \E i \in 1 .. Len(kinds) : kinds[i] \in S

Moves(j, kinds) ==
  /\ \A k \in Jobs \ {j} : run'[k] = run[k] /\ status'[k] = status[k]
  /\ run'[j].timedOut = run[j].timedOut /\ run'[j].dry = run[j].dry
  /\ run[j].pc # "done" /\ run'[j].pc # "new"
  /\ run'[j].pc \in Early => run[j].pc \in Early
  /\ Has(kinds, TerminalKinds) => run'[j].pc = "done" /\ status'[j] \in Over
  /\ status'[j] \in Terminal => run'[j].pc \in Closing
  /\ run[j].pc \in Closing => run'[j].pc \in Closing /\ status'[j] = status[j]
  /\ status'[j] = "absent" => status[j] = "absent" /\ run'[j].pc \in Early \cup Closing
  /\ run'[j].pc \in {"failing", "failed"} => status'[j] \in Over
  /\ status'[j] # "absent" => Undeleted(j)
  /\ status'[j] = "completed" => status[j] = "completed" \/ Has(kinds, {"job.completed"})
  /\ Has(kinds, {"job.completed"}) => run[j].dry \/ run[j].pc = "finish"

\* The other jobs are not concerned, and nobody forgets a timeout.
Aside(j) ==
  /\ \A k \in Jobs \ {j} : run'[k] = run[k] /\ status'[k] = status[k]
  /\ run[j].timedOut => run'[j].timedOut
  /\ run'[j].scheduled = run[j].scheduled /\ run'[j].chat = run[j].chat

LEMMA HasFacts ==
  /\ \A S : ~Has(<<>>, S)
  /\ ~Has(<<"progress">>, TerminalKinds)
  /\ ~Has(<<"progress">>, {"job.completed"})
  /\ ~Has(<<"job.failed">>, {"job.completed"})
  /\ Has(<<"job.completed">>, {"job.completed"})
  /\ Has(<<"progress", "job.completed">>, {"job.completed"})
  BY DEF Has, TerminalKinds

LEMMA GotoFacts ==
  ASSUME OwnTypeOK, NEW j \in Jobs, NEW from, NEW to, Goto(j, from, to)
  PROVE  /\ run[j].pc = from /\ run'[j].pc = to
         /\ run'[j].timedOut = run[j].timedOut /\ run'[j].dry = run[j].dry
         /\ run'[j].scheduled = run[j].scheduled /\ run'[j].chat = run[j].chat
         /\ \A k \in Jobs \ {j} : run'[k] = run[k]
  BY DEF Goto, OwnTypeOK, RunType

LEMMA StatusFacts ==
  ASSUME TypeOK, NEW j \in Jobs
  PROVE  /\ CreateJob(j) => status'[j] = "pending" /\ \A k \in Jobs \ {j} : status'[k] = status[k]
         /\ \A st : SetJob(j, st) => status'[j] = st /\ \A k \in Jobs \ {j} : status'[k] = status[k]
         /\ UNCHANGED storeVars => \A k \in Jobs : status'[k] = status[k]
         /\ UNCHANGED vars => \A k \in Jobs : status'[k] = status[k]
  BY DEF CreateJob, SetJob, TypeOK, storeVars, vars

LEMMA TouchFacts ==
  ASSUME NEW j \in Jobs
  PROVE  /\ UNCHANGED vars => Touches(j, <<>>)
         /\ UNCHANGED <<queueVars, streamVars>> => Touches(j, <<>>)
         /\ \A kinds : Emit(j, kinds) /\ UNCHANGED streamVars => Touches(j, kinds)
         /\ <<>> \in Seq(Kinds)
  BY DEF Touches, vars, queueVars, streamVars

LEMMA JobMoves ==
  ASSUME TypeOK, OwnTypeOK, EarlyInv, NEW j \in Jobs, OnTime(j),
         Analyze(j) \/ Chat(j) \/ ChatAccepted(j) \/ ChatRejected(j) \/ InnerStep(j)
  PROVE  \E kinds \in Seq(Kinds) : Touches(j, kinds) /\ Moves(j, kinds)
<1> USE HasFacts, KindSequences
<1>1. /\ run[j].pc \in Early => status[j] = "absent"
      /\ status[j] = "absent" => run[j].pc \in Early \cup Closing
      /\ status[j] \in Terminal => run[j].pc \in Closing
      /\ run[j].pc \in {"failing", "failed"} => status[j] \in Over
      /\ run[j].pc \in Early => Undeleted(j)
      /\ status[j] # "absent" => Undeleted(j)
  BY DEF EarlyInv, OnTime, ClosedInTime, Undeleted
<1>2. CASE Analyze(j)
  <2>1. Touches(j, <<"progress">>)
    BY <1>2, TouchFacts DEF Analyze
  <2>2. Moves(j, <<"progress">>)
    BY <1>1, <1>2, GotoFacts, StatusFacts DEF Analyze, Moves, Early, Closing, Over, Terminal
  <2> QED
    BY <2>1, <2>2
<1>3. CASE Chat(j)
  <2>1. Touches(j, <<>>)
    BY <1>3, TouchFacts DEF Chat
  <2>2. Moves(j, <<>>)
    BY <1>1, <1>3, GotoFacts, StatusFacts DEF Chat, Moves, Early, Closing, Over, Terminal
  <2> QED
    BY <2>1, <2>2, TouchFacts
<1>4. CASE ChatAccepted(j)
  <2>1. Touches(j, <<"progress">>)
    BY <1>4, TouchFacts DEF ChatAccepted
  <2>2. Moves(j, <<"progress">>)
    BY <1>1, <1>4, GotoFacts, StatusFacts DEF ChatAccepted, Moves, Early, Closing, Over, Terminal
  <2> QED
    BY <2>1, <2>2
<1>5. CASE ChatRejected(j)
  <2>1. Touches(j, <<"job.failed">>)
    BY <1>5, TouchFacts DEF ChatRejected
  <2>2. Moves(j, <<"job.failed">>)
    BY <1>1, <1>5, GotoFacts, StatusFacts DEF ChatRejected, Moves, Early, Closing, Over, Terminal
  <2> QED
    BY <2>1, <2>2
<1>6. CASE \/ OpenReport(j) \/ ConfigRaises(j) \/ AnalysisEnds(j) \/ PostProcess(j)
           \/ SaveReport(j) \/ RecordFailure(j)
  <2>1. Touches(j, <<>>) /\ \A k \in Jobs : status'[k] = status[k]
    BY <1>6, TouchFacts, StatusFacts DEF OpenReport, ConfigRaises, AnalysisEnds, PostProcess, SaveReport,
                                         RecordFailure
  <2>2. Goto(j, "start", "begin") \/ Goto(j, "start", "done") \/ Goto(j, "work", "post")
        \/ Goto(j, "post", "save") \/ Goto(j, "save", "finish") \/ Goto(j, "failing", "failed")
    BY <1>6 DEF OpenReport, ConfigRaises, AnalysisEnds, PostProcess, SaveReport, RecordFailure
  <2>3. Moves(j, <<>>)
    BY <1>1, <2>1, <2>2, GotoFacts DEF Moves, Early, Closing, Over, Terminal
  <2> QED
    BY <2>1, <2>3, TouchFacts
<1>7. CASE Begin(j)
  <2>1. CASE run[j].dry
    <3>1. Touches(j, <<"progress", "job.completed">>)
      BY <1>7, <2>1, TouchFacts DEF Begin
    <3>2. Goto(j, "begin", "done") /\ SetJob(j, "completed")
      BY <1>7, <2>1 DEF Begin
    <3>3. /\ run[j].pc = "begin" /\ run'[j].pc = "done" /\ status'[j] = "completed"
          /\ run'[j].timedOut = run[j].timedOut /\ run'[j].dry = run[j].dry
          /\ \A k \in Jobs \ {j} : run'[k] = run[k] /\ status'[k] = status[k]
      BY <3>2, GotoFacts, StatusFacts
    <3>4. Undeleted(j)
      BY <1>1, <3>3 DEF Early, Closing
    <3>5. Moves(j, <<"progress", "job.completed">>)
      BY <2>1, <3>3, <3>4 DEF Moves, Early, Closing, Over, Terminal
    <3> QED
      BY <3>1, <3>5
  <2>2. CASE ~run[j].dry
    <3>1. Touches(j, <<"progress">>)
      BY <1>7, <2>2, TouchFacts DEF Begin
    <3>2. Moves(j, <<"progress">>)
      BY <1>1, <1>7, <2>2, GotoFacts, StatusFacts DEF Begin, Moves, Early, Closing, Over, Terminal
    <3> QED
      BY <3>1, <3>2
  <2> QED
    BY <2>1, <2>2
<1>8. CASE Progress(j)
  <2>1. Touches(j, <<"progress">>)
    BY <1>8, TouchFacts DEF Progress
  <2>2. Moves(j, <<"progress">>)
    BY <1>1, <1>8, StatusFacts DEF Progress, runVars, Moves, Early, Closing, Over, Terminal
  <2> QED
    BY <2>1, <2>2
<1>9. CASE Finish(j)
  <2>1. Touches(j, <<"job.completed">>)
    BY <1>9, TouchFacts DEF Finish
  <2>2. Moves(j, <<"job.completed">>)
    BY <1>1, <1>9, GotoFacts, StatusFacts DEF Finish, Moves, Early, Closing, Over, Terminal
  <2> QED
    BY <2>1, <2>2
<1>10. CASE Raise(j)
  <2>1. Touches(j, <<>>)
    BY <1>10, TouchFacts DEF Raise
  <2>2. PICK from \in {"work", "post"} : Goto(j, from, "failing")
    BY <1>10 DEF Raise
  <2>3. Moves(j, <<>>)
    BY <1>1, <1>10, <2>2, GotoFacts, StatusFacts DEF Raise, Moves, Early, Closing, Over, Terminal
  <2> QED
    BY <2>1, <2>3, TouchFacts
<1>11. CASE FinishFailed(j)
  <2>1. Touches(j, <<"job.failed">>)
    BY <1>11, TouchFacts DEF FinishFailed
  <2>2. Moves(j, <<"job.failed">>)
    BY <1>1, <1>11, GotoFacts, StatusFacts DEF FinishFailed, Moves, Early, Closing, Over, Terminal
  <2> QED
    BY <2>1, <2>2
<1> QED
  BY <1>2, <1>3, <1>4, <1>5, <1>6, <1>7, <1>8, <1>9, <1>10, <1>11 DEF InnerStep

LEMMA JobTouches ==
  ASSUME TypeOK, OwnTypeOK, NEW j \in Jobs,
         \/ Analyze(j) \/ Chat(j) \/ ChatAccepted(j) \/ ChatRejected(j) \/ Launch(j)
         \/ InnerStep(j) \/ Timeout(j)
  PROVE  \E kinds \in Seq(Kinds) : Touches(j, kinds) /\ Aside(j)
<1> USE KindSequences
<1>1. ASSUME NEW from, NEW to, Goto(j, from, to),
             \/ UNCHANGED vars
             \/ UNCHANGED storeVars
             \/ CreateJob(j)
             \/ \E st : SetJob(j, st)
      PROVE  Aside(j)
  BY <1>1, GotoFacts, StatusFacts DEF Aside
<1>2. CASE Timeout(j)
  <2>1. run' = [run EXCEPT ![j].timedOut = TRUE] /\ SetJob(j, "failed")
    BY <1>2 DEF Timeout
  <2>2. Aside(j)
    BY <2>1, StatusFacts DEF Aside, OwnTypeOK, RunType
  <2>3. Touches(j, <<"job.failed">>)
    BY <1>2, TouchFacts DEF Timeout
  <2> QED
    BY <2>2, <2>3
<1>3. CASE Analyze(j) \/ ChatAccepted(j)
  <2>1. Aside(j)
    BY <1>1, <1>3 DEF Analyze, ChatAccepted
  <2>2. Touches(j, <<"progress">>)
    BY <1>3, TouchFacts DEF Analyze, ChatAccepted
  <2> QED
    BY <2>1, <2>2
<1>4. CASE ChatRejected(j) \/ FinishFailed(j)
  <2>1. Aside(j)
    BY <1>1, <1>4 DEF ChatRejected, FinishFailed
  <2>2. Touches(j, <<"job.failed">>)
    BY <1>4, TouchFacts DEF ChatRejected, FinishFailed
  <2> QED
    BY <2>1, <2>2
<1>5. CASE \/ Chat(j) \/ Launch(j) \/ OpenReport(j) \/ ConfigRaises(j) \/ AnalysisEnds(j)
           \/ PostProcess(j) \/ SaveReport(j) \/ RecordFailure(j)
  <2>1. Aside(j)
    BY <1>1, <1>5 DEF Chat, Launch, OpenReport, ConfigRaises, AnalysisEnds, PostProcess, SaveReport,
                      RecordFailure
  <2>2. Touches(j, <<>>)
    BY <1>5, TouchFacts DEF Chat, Launch, OpenReport, ConfigRaises, AnalysisEnds, PostProcess, SaveReport,
                            RecordFailure
  <2> QED
    BY <2>1, <2>2, TouchFacts
<1>6. CASE Raise(j)
  <2>1. Aside(j)
    BY <1>1, <1>6 DEF Raise
  <2>2. Touches(j, <<>>)
    BY <1>6, TouchFacts DEF Raise
  <2> QED
    BY <2>1, <2>2, TouchFacts
<1>7. CASE Begin(j)
  <2>1. Aside(j)
    BY <1>1, <1>7 DEF Begin
  <2>2. Touches(j, <<"progress", "job.completed">>) \/ Touches(j, <<"progress">>)
    BY <1>7, TouchFacts DEF Begin
  <2> QED
    BY <2>1, <2>2
<1>8. CASE Progress(j)
  <2>1. Aside(j)
    BY <1>8, StatusFacts DEF Progress, runVars, Aside
  <2>2. Touches(j, <<"progress">>)
    BY <1>8, TouchFacts DEF Progress
  <2> QED
    BY <2>1, <2>2
<1>9. CASE Finish(j)
  <2>1. Aside(j)
    BY <1>1, <1>9 DEF Finish
  <2>2. Touches(j, <<"job.completed">>)
    BY <1>9, TouchFacts DEF Finish
  <2> QED
    BY <2>1, <2>2
<1> QED
  BY <1>2, <1>3, <1>4, <1>5, <1>6, <1>7, <1>8, <1>9 DEF InnerStep

-----------------------------------------------------------------------------
(* How OnTime survives a step. *)

\* A step that neither moves job j nor puts events into its queue; streams
\* of j may end when the job is over.
LEMMA Bystander ==
  ASSUME NEW j \in Jobs, OnTime(j), run'[j] = run[j], status'[j] = status[j], queueOf'[j] = queueOf[j],
         \A q, e : Queued(q, e)' /\ e.job = j => Queued(q, e),
         \A e : e.job = j => (Held(e)' <=> Held(e)),
         \A s \in Streams : streams'[s].job = streams[s].job,
         \A s \in Streams : streams[s].job = j =>
           /\ streams'[s].pc \in Looping => streams[s].pc \in Looping /\ streams'[s].queue = streams[s].queue
           /\ streams'[s].pc = "ended" => \/ streams[s].pc = "ended"
                                          \/ run[j].pc \in Closing /\ status[j] \in Over
  PROVE  OnTime(j)'
<1>1. VerdictIsLast(j)'
  BY DEF OnTime, VerdictIsLast
<1>2. ClosedInTime(j)'
  BY DEF OnTime, ClosedInTime
<1>3. SharedQueue(j)'
  BY DEF OnTime, SharedQueue, Undeleted
<1>4. CompletionHeld(j)'
  BY DEF OnTime, CompletionHeld
<1> QED
  BY <1>1, <1>2, <1>3, <1>4 DEF OnTime

\* A step of job j itself.
LEMMA MoveKeeps ==
  ASSUME TypeOK, DeliveryInv, NEW j \in Jobs, OnTime(j),
         NEW kinds \in Seq(Kinds), Touches(j, kinds), Moves(j, kinds)
  PROVE  OnTime(j)'
<1>1. VerdictIsLast(j)'
  BY Touched DEF OnTime, VerdictIsLast, Moves, Has, IsNews
<1>2. ClosedInTime(j)'
  BY Touched DEF OnTime, ClosedInTime, Moves, Over, Terminal
<1>3. SharedQueue(j)'
  <2> SUFFICES ASSUME Undeleted(j)'
               PROVE  /\ \A s \in Streams : streams'[s].job = j /\ streams'[s].pc \in Looping =>
                                             streams'[s].queue = queueOf'[j]
                      /\ \A q, e : Queued(q, e)' /\ e.job = j => q = queueOf'[j]
    BY DEF SharedQueue
  <2>1. Undeleted(j)
    BY DEF Moves, Undeleted, Early
  <2>2. /\ \A s \in Streams : streams[s].job = j /\ streams[s].pc \in Looping => streams[s].queue = queueOf[j]
        /\ \A q, e : Queued(q, e) /\ e.job = j => q = queueOf[j]
    BY <2>1 DEF OnTime, SharedQueue
  <2>3. \A s \in Streams : streams[s].job = j /\ streams[s].pc \in Looping => queueOf[j] # 0
    BY <2>2, QueueFacts
  <2>4. \A q, e : Queued(q, e) /\ e.job = j => queueOf[j] # 0
    BY <2>2, QueueFacts
  <2>5. \A s \in Streams : streams'[s].job = j /\ streams'[s].pc \in Looping => streams'[s].queue = queueOf'[j]
    BY <2>2, <2>3, Touched
  <2>6. \A q, e : Queued(q, e)' /\ e.job = j => q = queueOf'[j]
    BY <2>2, <2>4, Touched
  <2> QED
    BY <2>5, <2>6
<1>4. CompletionHeld(j)'
  BY Touched DEF OnTime, CompletionHeld, Moves, Has, IsNews
<1> QED
  BY <1>1, <1>2, <1>3, <1>4 DEF OnTime

\* A new stream waits where the events of its job are.
LEMMA SubscribeKeeps ==
  ASSUME TypeOK, DeliveryInv, NEW j \in Jobs, OnTime(j), NEW s \in Streams, Subscribe(s), UNCHANGED run
  PROVE  OnTime(j)'
<1>1. PICK k \in Jobs : k = streams[s].job
  BY QueueFacts
<1>2. /\ streams \in [Streams -> StreamType] /\ status' = status
      /\ streams' = [streams EXCEPT ![s].pc = "waiting", ![s].queue = Queue(k)]
      /\ queueOf' = [queueOf EXCEPT ![k] = Queue(k)]
      /\ queueOf \in [Jobs -> 0 .. Len(buffers)]
  BY <1>1 DEF Subscribe, TypeOK, StreamType
<1>3. /\ \A t \in Streams : streams'[t].job = streams[t].job
      /\ \A t \in Streams \ {s} : streams'[t] = streams[t]
      /\ streams'[s].pc \in Looping /\ streams'[s].queue = Queue(k)
      /\ queueOf'[k] = Queue(k) /\ \A i \in Jobs \ {k} : queueOf'[i] = queueOf[i]
      /\ queueOf[k] # 0 => Queue(k) = queueOf[k]
  BY <1>2 DEF StreamType, Queue
<1>4. (\A q, e : Queued(q, e)' <=> Queued(q, e)) /\ (\A e : Held(e)' <=> Held(e))
  BY HeldSubscribe
<1>5. CASE j # k
  BY <1>1, <1>2, <1>3, <1>4, <1>5, Bystander
<1>6. CASE j = k
  <2>1. VerdictIsLast(j)'
    BY <1>2, <1>4 DEF OnTime, VerdictIsLast
  <2>2. ClosedInTime(j)'
    BY <1>2, <1>3 DEF OnTime, ClosedInTime
  <2>3. SharedQueue(j)'
    <3> SUFFICES ASSUME Undeleted(j)
                 PROVE  /\ \A t \in Streams : streams'[t].job = j /\ streams'[t].pc \in Looping =>
                                               streams'[t].queue = queueOf'[j]
                        /\ \A q, e : Queued(q, e)' /\ e.job = j => q = queueOf'[j]
      BY <1>2 DEF SharedQueue, Undeleted
    <3>1. /\ \A t \in Streams : streams[t].job = j /\ streams[t].pc \in Looping =>
                                  streams[t].queue = queueOf[j] /\ queueOf[j] # 0
          /\ \A q, e : Queued(q, e) /\ e.job = j => q = queueOf[j] /\ queueOf[j] # 0
      BY QueueFacts DEF OnTime, SharedQueue
    <3> QED
      BY <1>3, <1>4, <1>6, <3>1
  <2>4. CompletionHeld(j)'
    BY <1>2, <1>4 DEF OnTime, CompletionHeld
  <2> QED
    BY <2>1, <2>2, <2>3, <2>4 DEF OnTime
<1> QED
  BY <1>5, <1>6

\* What the end of a stream, or the next turn of its loop, changes.
LEMMA LoopFacts ==
  ASSUME TypeOK, NEW s \in Streams, streams[s].pc \in Looping,
         \/ streams' = [streams EXCEPT ![s].pc = "ended"]
         \/ streams' = [streams EXCEPT ![s].pc = "waiting"]
         \/ UNCHANGED streams
  PROVE  /\ \A t \in Streams : streams'[t].job = streams[t].job
         /\ \A t \in Streams : streams'[t].queue = streams[t].queue
         /\ \A t \in Streams : streams'[t].grace = streams[t].grace
         /\ \A t \in Streams \ {s} : streams'[t].pc = streams[t].pc
         /\ streams'[s].pc \in {"ended"} \cup Looping
<1>1. streams \in [Streams -> StreamType]
  BY DEF TypeOK, StreamType
<1>2. CASE streams' = [streams EXCEPT ![s].pc = "ended"]
  BY <1>1, <1>2 DEF StreamType
<1>3. CASE streams' = [streams EXCEPT ![s].pc = "waiting"]
  BY <1>1, <1>3 DEF StreamType
<1>4. CASE UNCHANGED streams
  BY <1>4
<1> QED
  BY <1>2, <1>3, <1>4

\* A terminal event ends a stream of its own job.
LEMMA YieldKeeps ==
  ASSUME TypeOK, DeliveryInv, Private, NEW j \in Jobs, OnTime(j), NEW s \in Streams, Yield(s), UNCHANGED run
  PROVE  OnTime(j)'
<1>1. /\ status' = status /\ queueOf' = queueOf /\ streams[s].pc \in Looping
  BY DEF Yield
<1>2. PICK x : x = Head(buffers[streams[s].queue])
  OBVIOUS
<1>3. \/ streams' = [streams EXCEPT ![s].pc = "ended"] /\ x.kind \in TerminalKinds
      \/ UNCHANGED streams
  BY <1>2 DEF Yield, End
<1>4. Queued(streams[s].queue, x)
  BY <1>2, YieldEvents DEF Queued
<1>5. x.job = streams[s].job /\ Held(x)
  BY <1>1, <1>4 DEF Private, RightQueue, Held, Queued
<1>6. (\A q, e : Queued(q, e)' => Queued(q, e)) /\ (\A e : Held(e)' <=> Held(e))
  BY HeldYield
<1>7. streams[s].job = j /\ x.kind \in TerminalKinds => run[j].pc \in Closing /\ status[j] \in Over
  BY <1>5 DEF OnTime, VerdictIsLast, Closing
<1>8. /\ \A t \in Streams : streams'[t].job = streams[t].job /\ streams'[t].queue = streams[t].queue
      /\ \A t \in Streams \ {s} : streams'[t].pc = streams[t].pc
      /\ streams'[s].pc \in {"ended"} \cup Looping
  BY <1>1, <1>3, LoopFacts
<1>9. streams'[s].pc = "ended" => x.kind \in TerminalKinds
  <2>1. CASE UNCHANGED streams
    BY <1>1, <2>1
  <2> QED
    BY <1>3, <2>1
<1> QED
  BY <1>1, <1>6, <1>7, <1>8, <1>9, Bystander

\* So does a poll that reads a terminal status.
LEMMA PollKeeps ==
  ASSUME TypeOK, NEW j \in Jobs, OnTime(j), NEW s \in Streams, PollTimeout(s), UNCHANGED run
  PROVE  OnTime(j)'
<1>1. UNCHANGED <<status, queueOf, buffers, seen>> /\ streams[s].pc = "expired"
  BY DEF PollTimeout
<1>2. \/ /\ streams' = [streams EXCEPT ![s].pc = "ended"]
         /\ status[streams[s].job] \in Terminal
      \/ streams' = [streams EXCEPT ![s].pc = "waiting"]
  BY DEF PollTimeout, End
<1>3. /\ \A t \in Streams : streams'[t].job = streams[t].job /\ streams'[t].queue = streams[t].queue
      /\ \A t \in Streams \ {s} : streams'[t].pc = streams[t].pc
      /\ streams'[s].pc \in {"ended"} \cup Looping
  BY <1>1, <1>2, LoopFacts
<1>4. streams'[s].pc = "ended" => status[streams[s].job] \in Terminal
  <2>1. CASE streams' = [streams EXCEPT ![s].pc = "waiting"]
    <3>1. streams \in [Streams -> StreamType]
      BY DEF TypeOK, StreamType
    <3> QED
      BY <2>1, <3>1 DEF StreamType
  <2> QED
    BY <1>2, <2>1
<1>5. streams[s].job = j /\ streams'[s].pc = "ended" => run[j].pc \in Closing /\ status[j] \in Over
  BY <1>4 DEF OnTime, ClosedInTime, Over
<1> QED
  BY <1>1, <1>3, <1>5, HeldSame, Bystander

\* A job is deleted after the end of one of its streams, so it is over.
LEMMA CleanupKeeps ==
  ASSUME TypeOK, NEW j \in Jobs, OnTime(j), NEW s \in Streams, Cleanup(s), UNCHANGED run
  PROVE  OnTime(j)'
<1>1. PICK k \in Jobs : k = streams[s].job
  BY DEF TypeOK
<1>2. /\ streams[s].pc = "ended" /\ UNCHANGED <<buffers, seen>>
      /\ streams' = [streams EXCEPT ![s].pc = "gone"]
      /\ status' = [status EXCEPT ![k] = "absent"] /\ queueOf' = [queueOf EXCEPT ![k] = 0]
      /\ streams \in [Streams -> StreamType] /\ status \in [Jobs -> Statuses]
      /\ queueOf \in [Jobs -> 0 .. Len(buffers)]
  BY <1>1 DEF Cleanup, DeleteJob, TypeOK, StreamType
<1>3. /\ \A t \in Streams : streams'[t].job = streams[t].job /\ streams'[t].queue = streams[t].queue
      /\ \A t \in Streams \ {s} : streams'[t].pc = streams[t].pc
      /\ streams'[s].pc = "gone"
  BY <1>2 DEF StreamType
<1>4. CASE j # k
  BY <1>2, <1>3, <1>4, HeldSame, Bystander
<1>5. CASE j = k
  <2>1. run'[j].pc \in Closing /\ status'[j] = "absent"
    BY <1>1, <1>2, <1>5 DEF OnTime, ClosedInTime
  <2>2. VerdictIsLast(j)'
    BY <1>2, <2>1, HeldSame DEF OnTime, VerdictIsLast, Over
  <2>3. ClosedInTime(j)'
    BY <2>1 DEF ClosedInTime, Over, Terminal
  <2>4. SharedQueue(j)' /\ CompletionHeld(j)'
    BY <2>1 DEF SharedQueue, Undeleted, CompletionHeld, Early, Closing
  <2> QED
    BY <2>2, <2>3, <2>4 DEF OnTime
<1> QED
  BY <1>4, <1>5

\* After a restart a job is over, or was never asked for.
LEMMA RestartKeeps ==
  ASSUME TypeOK, OwnTypeOK, DeliveryInv, EarlyInv, NEW j \in Jobs, ~run[j].scheduled, OnTime(j), Restart
  PROVE  OnTime(j)'
<1>1. /\ status'[j] = "absent"
      /\ UNCHANGED <<buffers, seen>>
  BY RestartFacts DEF OwnTypeOK, Dies
<1>2. run'[j].pc = IF run[j].pc = "new" THEN "new" ELSE "done"
  BY RestartFacts DEF OwnTypeOK, Dies
<1>3. \A s \in Streams : /\ streams'[s].job = streams[s].job
                         /\ run[streams[s].job].pc = "new" => streams'[s] = streams[s]
                         /\ run[streams[s].job].pc # "new" => streams'[s].pc = "gone"
  BY RestartFacts DEF OwnTypeOK
<1>4. \A s \in Streams : run[streams[s].job].pc = "new" => streams[s].pc = "idle"
  BY DEF EarlyInv
<1>5. \A e : Held(e) => run[e.job].pc # "new"
  BY DEF EarlyInv
<1>6. VerdictIsLast(j)'
  BY <1>1, <1>2, <1>5, HeldSame DEF VerdictIsLast, Over
<1>7. ClosedInTime(j)'
  BY <1>1, <1>2, <1>3, <1>4 DEF ClosedInTime, Early, Closing, Over, Terminal
<1>8. SharedQueue(j)'
  <2>1. CASE run[j].pc = "new"
    <3>1. \A s \in Streams : streams'[s].job = j => streams'[s].pc = "idle"
      BY <1>3, <1>4, <2>1
    <3>2. \A q, e : Queued(q, e)' => Held(e)
      BY <1>1, HeldSame DEF Held, Queued
    <3> QED
      BY <1>5, <2>1, <3>1, <3>2 DEF SharedQueue
  <2>2. CASE run[j].pc # "new"
    BY <1>1, <1>2, <2>2 DEF SharedQueue, Undeleted, Early
  <2> QED
    BY <2>1, <2>2
<1>9. CompletionHeld(j)'
  BY <1>1 DEF CompletionHeld
<1> QED
  BY <1>6, <1>7, <1>8, <1>9 DEF OnTime

-----------------------------------------------------------------------------
(* The invariants about jobs on time, step by step. *)

JobAction(j) ==
  \/ Analyze(j) \/ Chat(j) \/ ChatAccepted(j) \/ ChatRejected(j) \/ Launch(j)
  \/ InnerStep(j) \/ Timeout(j)

LEMMA MarkFacts ==
  ASSUME OwnTypeOK, NEW j \in Jobs, MarkReportFailed(j)
  PROVE  \A k \in Jobs \ {j} : report'[k] = report[k]
  BY DEF MarkReportFailed, OwnTypeOK

LEMMA ReportFacts ==
  ASSUME OwnTypeOK, NEW j \in Jobs, JobAction(j)
  PROVE  reading' = reading /\ \A k \in Jobs \ {j} : report'[k] = report[k]
<1>1. CASE Timeout(j) \/ RecordFailure(j)
  BY <1>1, MarkFacts DEF Timeout, RecordFailure
<1>2. CASE OpenReport(j) \/ ConfigRaises(j) \/ SaveReport(j)
  BY <1>2 DEF OpenReport, ConfigRaises, SaveReport, OwnTypeOK
<1>3. CASE ~(Timeout(j) \/ RecordFailure(j) \/ OpenReport(j) \/ ConfigRaises(j) \/ SaveReport(j))
  BY <1>3 DEF JobAction, InnerStep, Analyze, Chat, ChatAccepted, ChatRejected, Launch, Begin, Progress, AnalysisEnds,
              PostProcess, Finish, Raise, FinishFailed, runVars
<1> QED
  BY <1>1, <1>2, <1>3

LEMMA JobEarly ==
  ASSUME TypeOK, OwnTypeOK, EarlyInv, NEW j \in Jobs, JobAction(j)
  PROVE  /\ run'[j].pc # "new"
         /\ run'[j].pc \in Early => report'[j] = "none" /\ reading'[j] = FALSE /\ status'[j] = "absent"
<1>1. run[j].pc \in Early => report[j] = "none" /\ reading[j] = FALSE /\ status[j] = "absent"
  BY DEF EarlyInv
<1>2. CASE Chat(j)
  BY <1>1, <1>2, GotoFacts, StatusFacts DEF Chat, Early
<1>3. CASE Progress(j)
  BY <1>1, <1>3, StatusFacts DEF Progress, runVars, Early
<1>4. CASE Timeout(j)
  <2>1. run' = [run EXCEPT ![j].timedOut = TRUE] /\ run[j].pc \in Racing
    BY <1>4 DEF Timeout
  <2>2. run'[j].pc = run[j].pc
    BY <2>1 DEF OwnTypeOK, RunType
  <2> QED
    BY <2>1, <2>2 DEF Racing, Early
<1>5. ASSUME NEW from, NEW to \in {"start", "begin", "work", "post", "save", "finish", "failing", "failed", "done"},
             Goto(j, from, to)
      PROVE  run'[j].pc \notin Early
  BY <1>5, GotoFacts DEF Early
<1>6. CASE ~(Chat(j) \/ Progress(j) \/ Timeout(j))
  <2>1. run'[j].pc \notin Early
    BY <1>5, <1>6 DEF JobAction, InnerStep, Analyze, ChatAccepted, ChatRejected, Launch, OpenReport, ConfigRaises,
                      Begin, AnalysisEnds, PostProcess, SaveReport, Finish, Raise, RecordFailure, FinishFailed
  <2> QED
    BY <2>1 DEF Early
<1> QED
  BY <1>2, <1>3, <1>4, <1>6

\* Streams of requests that were never made stay where they are.
LEMMA EarlyStream ==
  ASSUME TypeOK, OwnTypeOK, DeliveryInv, Private, EarlyInv, NEW s \in Streams, ClientStep(s)
  PROVE  EarlyInv'
<1>1. UNCHANGED <<run, report, reading>>
  BY DEF ClientStep, runVars
<1>2. /\ streams \in [Streams -> StreamType] /\ status \in [Jobs -> Statuses]
      /\ \A t \in Streams : streams[t].job \in Jobs
  BY DEF TypeOK, StreamType
<1>3. \A j \in Jobs : status[j] = "absent" => status'[j] = "absent"
  <2>1. CASE Cleanup(s)
    BY <1>2, <2>1 DEF Cleanup, DeleteJob
  <2>2. CASE ~Cleanup(s)
    BY <2>2 DEF ClientStep, ClientSubscribes, Subscribe, Yield, PollTimeout, Disconnect
  <2> QED
    BY <2>1, <2>2
<1>4. \A e : Held(e)' => Held(e)
  <2>1. CASE ClientSubscribes(s)
    BY <2>1, HeldSubscribe DEF ClientSubscribes
  <2>2. CASE Yield(s)
    BY <2>2, HeldYield
  <2>3. CASE PollTimeout(s) \/ Disconnect(s) \/ Cleanup(s)
    BY <2>3, HeldSame DEF PollTimeout, Disconnect, Cleanup, DeleteJob
  <2> QED
    BY <2>1, <2>2, <2>3 DEF ClientStep
<1>5. run[streams[s].job].pc # "new"
  <2>1. CASE ClientSubscribes(s)
    <3>1. status[streams[s].job] # "absent" \/ run[streams[s].job].pc # "new"
      BY <2>1 DEF ClientSubscribes, KnownToApi
    <3> QED
      BY <1>2, <3>1 DEF EarlyInv, Early
  <2>2. CASE ~ClientSubscribes(s)
    <3>1. streams[s].pc # "idle"
      BY <2>2 DEF ClientStep, Yield, PollTimeout, Disconnect, Cleanup
    <3> QED
      BY <3>1 DEF EarlyInv
  <2> QED
    BY <2>1, <2>2
<1>6. /\ \A t \in Streams : streams'[t].job = streams[t].job /\ streams'[t].grace = streams[t].grace
      /\ \A t \in Streams \ {s} : streams'[t].pc = streams[t].pc
      /\ streams'[s].pc \in ({"idle"} \cup Looping) => streams[s].pc \in ({"idle"} \cup Looping)
  <2>1. CASE ClientSubscribes(s)
    <3>1. streams[s].pc = "idle" /\ streams' = [streams EXCEPT ![s].pc = "waiting", ![s].queue = Queue(streams[s].job)]
      BY <2>1 DEF ClientSubscribes, Subscribe
    <3> QED
      BY <1>2, <3>1 DEF StreamType
  <2>2. CASE Yield(s) \/ PollTimeout(s) \/ Disconnect(s)
    <3>1. /\ streams[s].pc \in Looping
          /\ \/ streams' = [streams EXCEPT ![s].pc = "ended"]
             \/ streams' = [streams EXCEPT ![s].pc = "waiting"]
             \/ UNCHANGED streams
      BY <2>2 DEF Yield, PollTimeout, Disconnect, End
    <3> QED
      BY <3>1, LoopFacts
  <2>3. CASE Cleanup(s)
    <3>1. streams' = [streams EXCEPT ![s].pc = "gone"]
      BY <2>3 DEF Cleanup
    <3> QED
      BY <1>2, <3>1 DEF StreamType
  <2> QED
    BY <2>1, <2>2, <2>3 DEF ClientStep
<1> QED
  BY <1>1, <1>3, <1>4, <1>5, <1>6 DEF EarlyInv

LEMMA EarlyKept ==
  ASSUME TypeOK, OwnTypeOK, DeliveryInv, Private, EarlyInv, [RunNext]_allVars
  PROVE  EarlyInv'
<1>1. ASSUME NEW j \in Jobs, JobAction(j)
      PROVE  EarlyInv'
  <2>1. PICK kinds \in Seq(Kinds) : Touches(j, kinds) /\ Aside(j)
    BY <1>1, JobTouches DEF JobAction
  <2>2. /\ \A e : Held(e)' => (Held(e) \/ e.job = j)
        /\ UNCHANGED streams
    BY <2>1, Touched DEF IsNews
  <2>3. /\ run'[j].pc # "new"
        /\ run'[j].pc \in Early => report'[j] = "none" /\ reading'[j] = FALSE /\ status'[j] = "absent"
    BY <1>1, JobEarly
  <2>4. \A k \in Jobs \ {j} : /\ run'[k] = run[k] /\ status'[k] = status[k]
                             /\ report'[k] = report[k] /\ reading'[k] = reading[k]
    BY <1>1, <2>1, ReportFacts DEF Aside
  <2>5. /\ \A e : Held(e) => e.job \in Jobs
        /\ \A s \in Streams : streams[s].job \in Jobs
    BY HeldType, QueueFacts DEF Event
  <2> QED
    BY <2>2, <2>3, <2>4, <2>5 DEF EarlyInv
<1>2. ASSUME NEW j \in Jobs, ReadReport(j) \/ FinalizeOrphan(j)
      PROVE  EarlyInv'
  <2>1. UNCHANGED <<run, status, streams, buffers, seen>>
    BY <1>2 DEF ReadReport, FinalizeOrphan, vars
  <2>2. \A k \in Jobs : run[k].pc \in Early => report'[k] = report[k] /\ reading'[k] = reading[k]
    <3>1. run[j].pc \notin Early
      BY <1>2 DEF EarlyInv, ReadReport, FinalizeOrphan, Active
    <3>2. \A k \in Jobs \ {j} : report'[k] = report[k] /\ reading'[k] = reading[k]
      BY <1>2 DEF ReadReport, FinalizeOrphan, OwnTypeOK
    <3> QED
      BY <3>1, <3>2
  <2> QED
    BY <2>1, <2>2, HeldSame DEF EarlyInv
<1>3. CASE SchedulerStarts
  <2>1. /\ UNCHANGED <<streams, buffers, seen, reading>>
        /\ \A k \in Jobs : Dies(k) \/ Survives(k)
        /\ \A k \in Jobs : report[k] = "none" => report'[k] = "none"
    BY <1>3, SchedulerFacts DEF OwnTypeOK, Active
  <2>2. \A k \in Jobs : /\ run'[k].pc = "new" <=> run[k].pc = "new"
                        /\ run'[k].pc \in Early => run[k].pc \in Early /\ status'[k] \in {"absent", status[k]}
    BY <2>1 DEF Dies, Survives, Early
  <2>3. \A k \in Jobs : run'[k].pc \in Early =>
          report'[k] = "none" /\ reading'[k] = FALSE /\ status'[k] = "absent"
    BY <2>1, <2>2 DEF EarlyInv
  <2>4. (\A e : Held(e) => e.job \in Jobs) /\ (\A s \in Streams : streams[s].job \in Jobs)
    BY HeldType, QueueFacts DEF Event
  <2> QED
    BY <2>1, <2>2, <2>3, <2>4, HeldSame DEF EarlyInv
<1>4. CASE Restart
  <2>1. UNCHANGED <<buffers, seen, report>> /\ \A j \in Jobs : reading'[j] = FALSE
    BY <1>4, RestartFacts DEF OwnTypeOK
  <2>2. \A j \in Jobs : /\ run'[j].pc = "new" <=> run[j].pc = "new"
                        /\ run'[j].pc \in Early => run[j].pc \in Early /\ status'[j] \in {"absent", status[j]}
    BY <1>4, RestartFacts DEF OwnTypeOK, Dies, Survives, Early
  <2>3. \A s \in Streams : /\ streams'[s].job = streams[s].job /\ streams[s].job \in Jobs
                           /\ run[streams[s].job].pc = "new" => streams'[s] = streams[s]
                           /\ run[streams[s].job].pc # "new" => streams'[s].pc = "gone"
    BY <1>4, RestartFacts, QueueFacts DEF OwnTypeOK
  <2>4. \A e : Held(e) => e.job \in Jobs
    BY HeldType DEF Event
  <2>5. \A j \in Jobs : run'[j].pc \in Early =>
          report'[j] = "none" /\ reading'[j] = FALSE /\ status'[j] = "absent"
    BY <2>1, <2>2 DEF EarlyInv
  <2>6. \A e : Held(e)' => run'[e.job].pc # "new"
    BY <2>1, <2>2, <2>4, HeldSame DEF EarlyInv
  <2>7. \A s \in Streams : /\ streams'[s].pc # "idle" => run'[streams'[s].job].pc # "new"
                           /\ streams'[s].pc \in ({"idle"} \cup Looping) => streams'[s].grace = Grace
    BY <2>2, <2>3 DEF EarlyInv
  <2> QED
    BY <2>1, <2>5, <2>6, <2>7 DEF EarlyInv
<1>5. CASE RunTick
  <2>1. UNCHANGED <<run, report, reading, status, buffers, seen>> /\ Tick
    BY <1>5 DEF RunTick, Tick, runVars
  <2>2. \A s \in Streams : /\ \/ streams'[s].pc = streams[s].pc
                              \/ streams[s].pc = "waiting" /\ streams'[s].pc = "expired"
                           /\ streams'[s].job = streams[s].job
                           /\ streams[s].pc # "ended" => streams'[s].grace = streams[s].grace
    BY <2>1, TickStreams
  <2> QED
    BY <2>1, <2>2, HeldSame DEF EarlyInv
<1>6. CASE UNCHANGED allVars
  BY <1>6, HeldSame DEF allVars, EarlyInv
<1>7. ASSUME NEW k \in Jobs, Drop(k)
      PROVE  EarlyInv'
  <2>1. /\ UNCHANGED <<streams, buffers, seen, report, reading>>
        /\ \A j \in Jobs : run'[j].pc = run[j].pc /\ status'[j] \in {"absent", status[j]}
    BY <1>7, DropFacts DEF OwnTypeOK, Survives
  <2>2. (\A e : Held(e) => e.job \in Jobs) /\ (\A s \in Streams : streams[s].job \in Jobs)
    BY HeldType, QueueFacts DEF Event
  <2> QED
    BY <2>1, <2>2, HeldSame DEF EarlyInv
<1> QED
  BY <1>1, <1>2, <1>3, <1>4, <1>5, <1>6, <1>7, EarlyStream DEF RunNext, JobAction

LEMMA PrivateKept ==
  ASSUME TypeOK, OwnTypeOK, DeliveryInv, Private, [RunNext]_allVars
  PROVE  Private'
<1>1. ASSUME NEW j \in Jobs, JobAction(j)
      PROVE  Private'
  <2>1. PICK kinds \in Seq(Kinds) : Touches(j, kinds)
    BY <1>1, JobTouches DEF JobAction
  <2> QED
    BY <2>1, PrivateEmit, PrivateSame DEF Touches
<1>2. ASSUME \/ \E j \in Jobs : ReadReport(j) \/ FinalizeOrphan(j)
             \/ UNCHANGED allVars
      PROVE  Private'
  <2>1. UNCHANGED <<queueVars, streamVars>>
    BY <1>2 DEF ReadReport, FinalizeOrphan, allVars, vars, queueVars, streamVars
  <2> QED
    BY <2>1, PrivateSame
<1>3. CASE Restart
  <2>1. UNCHANGED <<buffers, seen>> /\ \A j \in Jobs : queueOf'[j] \in {queueOf[j], 0}
    BY <1>3, RestartFacts DEF OwnTypeOK, Dies, Survives
  <2>2. \A s \in Streams : /\ streams'[s].job = streams[s].job
                           /\ streams'[s].pc \in Looping => streams'[s] = streams[s]
    BY <1>3, RestartFacts DEF OwnTypeOK
  <2> QED
    BY <2>1, <2>2, HeldSame, PrivateLocal
<1>5. ASSUME SchedulerStarts \/ \E k \in Jobs : Drop(k)
      PROVE  Private'
  <2>1. UNCHANGED <<buffers, seen, streams>> /\ \A j \in Jobs : queueOf'[j] \in {queueOf[j], 0}
    BY <1>5, SchedulerFacts, DropFacts DEF OwnTypeOK, Dies, Survives
  <2> QED
    BY <2>1, HeldSame, PrivateLocal
<1>4. ASSUME NEW s \in Streams, ClientStep(s)
      PROVE  Private'
  BY <1>4, PrivateStream DEF ClientStep, ClientSubscribes, StreamStep
<1> QED
  BY <1>1, <1>2, <1>3, <1>4, <1>5, PrivateTick DEF RunNext, JobAction, RunTick

\* Only a request of the API is streamed.
LEMMA ApiStreams ==
  ASSUME TypeOK, ScheduledInv, NEW s \in Streams, ClientStep(s)
  PROVE  ~run[streams[s].job].scheduled
<1>1. PICK j \in Jobs : j = streams[s].job
  BY DEF TypeOK
<1>2. CASE ClientSubscribes(s)
  BY <1>1, <1>2 DEF ClientSubscribes, KnownToApi, ScheduledInv
<1>3. CASE ~ClientSubscribes(s)
  <2>1. streams[s].pc \notin {"idle", "gone"}
    BY <1>3 DEF ClientStep, Yield, PollTimeout, Disconnect, Cleanup
  <2> QED
    BY <2>1 DEF ScheduledInv
<1> QED
  BY <1>2, <1>3

LEMMA ClientAside ==
  ASSUME TypeOK, NEW s \in Streams, ClientStep(s)
  PROVE  /\ \A t \in Streams \ {s} : /\ streams'[t] = streams[t] /\ ending'[t] = ending[t]
                                     /\ seen'[t] = seen[t]
         /\ streams'[s].job = streams[s].job
         /\ UNCHANGED <<run, report, reading>>
         /\ \A j \in Jobs : status'[j] \in {"absent", status[j]}
<1>1. /\ streams \in [Streams -> StreamType] /\ seen \in [Streams -> SUBSET Event]
      /\ ending \in [Streams -> Endings] /\ status \in [Jobs -> Statuses]
      /\ UNCHANGED <<run, report, reading>>
  BY DEF TypeOK, StreamType, ClientStep, runVars
<1>2. CASE ClientSubscribes(s)
  <2>1. /\ streams' = [streams EXCEPT ![s].pc = "waiting", ![s].queue = Queue(streams[s].job)]
        /\ UNCHANGED <<status, seen, ending>>
    BY <1>2 DEF ClientSubscribes, Subscribe
  <2> QED
    BY <1>1, <2>1 DEF StreamType
<1>3. CASE Yield(s) \/ PollTimeout(s) \/ Disconnect(s)
  <2>1. /\ \/ streams' = [streams EXCEPT ![s].pc = "ended"]
           \/ streams' = [streams EXCEPT ![s].pc = "waiting"]
           \/ UNCHANGED streams
        /\ \/ \E why : ending' = [ending EXCEPT ![s] = why]
           \/ UNCHANGED ending
        /\ \/ \E S : seen' = [seen EXCEPT ![s] = S]
           \/ UNCHANGED seen
        /\ UNCHANGED status
    BY <1>3 DEF Yield, PollTimeout, Disconnect, End
  <2>2. \A t \in Streams \ {s} : ending'[t] = ending[t] /\ seen'[t] = seen[t]
    BY <1>1, <2>1
  <2>3. streams'[s].job = streams[s].job /\ \A t \in Streams \ {s} : streams'[t] = streams[t]
    BY <1>1, <2>1 DEF StreamType
  <2> QED
    BY <1>1, <2>1, <2>2, <2>3
<1>4. CASE Cleanup(s)
  <2>1. /\ streams' = [streams EXCEPT ![s].pc = "gone"] /\ UNCHANGED <<seen, ending>>
        /\ status' = [status EXCEPT ![streams[s].job] = "absent"]
    BY <1>4 DEF Cleanup, DeleteJob
  <2> QED
    BY <1>1, <2>1 DEF StreamType
<1> QED
  BY <1>2, <1>3, <1>4 DEF ClientStep

LEMMA JobScheduled ==
  ASSUME TypeOK, OwnTypeOK, ScheduledInv, NEW j \in Jobs, JobAction(j), run[j].scheduled
  PROVE  run'[j].pc # "extract" /\ status'[j] # "pending"
<1>1. ~run[j].chat /\ run[j].pc # "extract" /\ status[j] # "pending"
  BY DEF ScheduledInv
<1>2. ~(Analyze(j) \/ Chat(j) \/ ChatAccepted(j) \/ ChatRejected(j))
  BY <1>1 DEF Analyze, Chat, ChatAccepted, ChatRejected, Goto
<1>3. CASE Timeout(j)
  <2>1. run' = [run EXCEPT ![j].timedOut = TRUE] /\ SetJob(j, "failed")
    BY <1>3 DEF Timeout
  <2>2. run'[j].pc = run[j].pc
    BY <2>1 DEF OwnTypeOK, RunType
  <2> QED
    BY <1>1, <2>1, <2>2, StatusFacts
<1>4. CASE Progress(j)
  BY <1>1, <1>4, StatusFacts DEF Progress, runVars
<1>5. CASE Launch(j)
  BY <1>1, <1>5, GotoFacts, StatusFacts DEF Launch
<1>6. CASE Begin(j) \/ Finish(j) \/ Raise(j)
  BY <1>6, GotoFacts, StatusFacts DEF Begin, Finish, Raise
<1>7. CASE \/ OpenReport(j) \/ ConfigRaises(j) \/ AnalysisEnds(j) \/ PostProcess(j)
           \/ SaveReport(j) \/ RecordFailure(j) \/ FinishFailed(j)
  BY <1>1, <1>7, GotoFacts, StatusFacts DEF OpenReport, ConfigRaises, AnalysisEnds, PostProcess, SaveReport,
                                            RecordFailure, FinishFailed
<1> QED
  BY <1>2, <1>3, <1>4, <1>5, <1>6, <1>7 DEF JobAction, InnerStep

LEMMA ScheduledKept ==
  ASSUME TypeOK, OwnTypeOK, DeliveryInv, ScheduledInv, [RunNext]_allVars
  PROVE  ScheduledInv'
<1>0. \A s \in Streams : streams[s].job \in Jobs
  BY QueueFacts
<1>1. ASSUME NEW j \in Jobs, JobAction(j)
      PROVE  ScheduledInv'
  <2>1. PICK kinds \in Seq(Kinds) : Touches(j, kinds) /\ Aside(j)
    BY <1>1, JobTouches DEF JobAction
  <2>2. /\ \A k \in Jobs : run'[k].scheduled = run[k].scheduled /\ run'[k].chat = run[k].chat
        /\ \A k \in Jobs \ {j} : run'[k] = run[k] /\ status'[k] = status[k]
        /\ UNCHANGED <<streams, seen, ending>>
    BY <2>1 DEF Aside, Touches, streamVars
  <2> QED
    BY <1>0, <1>1, <2>2, JobScheduled DEF ScheduledInv
<1>2. ASSUME NEW s \in Streams, ClientStep(s)
      PROVE  ScheduledInv'
  BY <1>2, ApiStreams, ClientAside DEF ScheduledInv
<1>3. ASSUME \/ \E j \in Jobs : ReadReport(j) \/ FinalizeOrphan(j)
             \/ UNCHANGED allVars
      PROVE  ScheduledInv'
  <2>1. UNCHANGED <<run, status, streams, seen, ending>>
    BY <1>3 DEF ReadReport, FinalizeOrphan, vars, allVars
  <2> QED
    BY <2>1 DEF ScheduledInv
<1>4. ASSUME SchedulerStarts \/ \E k \in Jobs : Drop(k)
      PROVE  ScheduledInv'
  <2>1. /\ UNCHANGED <<streams, seen, ending>>
        /\ \A j \in Jobs : /\ SameRequest(j)
                           /\ run'[j].pc \in {run[j].pc, "done"}
                           /\ status'[j] \in {status[j], "absent"}
    <3>1. CASE SchedulerStarts
      BY <3>1, SchedulerFacts DEF OwnTypeOK, Dies, Survives
    <3>2. ASSUME NEW k \in Jobs, Drop(k)
          PROVE  /\ UNCHANGED <<streams, seen, ending>>
                 /\ \A j \in Jobs : /\ SameRequest(j)
                                    /\ run'[j].pc \in {run[j].pc, "done"}
                                    /\ status'[j] \in {status[j], "absent"}
      BY <3>2, DropFacts DEF OwnTypeOK, Survives, SameRequest
    <3> QED
      BY <1>4, <3>1, <3>2
  <2> QED
    BY <1>0, <2>1 DEF ScheduledInv, SameRequest
<1>5. CASE Restart
  <2>1. \A j \in Jobs : /\ SameRequest(j)
                        /\ run'[j].pc \in {run[j].pc, "done"}
                        /\ status'[j] \in {status[j], "absent"}
    BY <1>5, RestartFacts DEF OwnTypeOK, Dies, Survives
  <2>2. \A s \in Streams : /\ seen'[s] = seen[s] /\ streams'[s].job = streams[s].job
                           /\ streams'[s].pc \in {streams[s].pc, "gone"}
                           /\ streams[s].pc \notin Looping => ending'[s] = ending[s]
    BY <1>5, RestartFacts DEF OwnTypeOK
  <2> QED
    BY <1>0, <2>1, <2>2 DEF ScheduledInv, SameRequest
<1>6. CASE RunTick
  <2>1. Tick /\ UNCHANGED <<run, status, seen, ending>>
    BY <1>6 DEF RunTick, Tick, runVars
  <2> QED
    BY <2>1, TickStreams DEF ScheduledInv
<1> QED
  BY <1>1, <1>2, <1>3, <1>4, <1>5, <1>6 DEF RunNext, JobAction

LEMMA OtherJobKeeps ==
  ASSUME TypeOK, DeliveryInv, NEW k \in Jobs, NEW kinds \in Seq(Kinds), Touches(k, kinds), Aside(k),
         NEW j \in Jobs \ {k}, OnTime(j)
  PROVE  OnTime(j)'
<1>1. run'[j] = run[j] /\ status'[j] = status[j]
  BY DEF Aside
<1>2. /\ \A q, e : Queued(q, e)' /\ e.job = j => Queued(q, e)
      /\ \A e : e.job = j => (Held(e)' <=> Held(e))
      /\ queueOf'[j] = queueOf[j] /\ UNCHANGED streams
  BY Touched DEF IsNews
<1> QED
  BY <1>1, <1>2, Bystander

LEMMA OnTimeSame ==
  ASSUME NEW j \in Jobs, OnTime(j), UNCHANGED <<run, status, queueOf, buffers, seen>>,
         \A s \in Streams : /\ \/ streams'[s].pc = streams[s].pc
                               \/ streams[s].pc = "waiting" /\ streams'[s].pc = "expired"
                            /\ streams'[s].job = streams[s].job
                            /\ streams'[s].queue = streams[s].queue
  PROVE  OnTime(j)'
  BY HeldSame, Bystander

\* Timeouts, yields and the jobs of streams are never taken back, and only
\* a poll ends a stream because a job reads completed.
EndedByPoll(s) ==
  /\ PollTimeout(s) /\ status[streams[s].job] = "completed"
  /\ ending'[s] = "completed" => buffers[streams[s].queue] = <<>>

LEMMA HistoryFacts ==
  ASSUME TypeOK, OwnTypeOK, DeliveryInv, [RunNext]_allVars
  PROVE  /\ \A j \in Jobs : /\ run[j].timedOut => run'[j].timedOut
                           /\ run'[j].scheduled = run[j].scheduled
         /\ \A s \in Streams : seen[s] \subseteq seen'[s] /\ streams'[s].job = streams[s].job
         /\ \A s \in Streams : ending'[s] \in {"completed", "overtaken"} =>
              ending'[s] = ending[s] \/ EndedByPoll(s)
<1> DEFINE Goal == /\ \A j \in Jobs : /\ run[j].timedOut => run'[j].timedOut
                                      /\ run'[j].scheduled = run[j].scheduled
                   /\ \A s \in Streams : seen[s] \subseteq seen'[s] /\ streams'[s].job = streams[s].job
                   /\ \A s \in Streams : ending'[s] \in {"completed", "overtaken"} =>
                        ending'[s] = ending[s] \/ EndedByPoll(s)
<1>1. ASSUME NEW j \in Jobs, JobAction(j)
      PROVE  Goal
  <2>1. PICK kinds \in Seq(Kinds) : Touches(j, kinds) /\ Aside(j)
    BY <1>1, JobTouches DEF JobAction
  <2> QED
    BY <2>1 DEF Touches, streamVars, Aside
<1>2. ASSUME NEW s \in Streams, ClientStep(s)
      PROVE  Goal
  <2>1. /\ seen \in [Streams -> SUBSET Event] /\ ending \in [Streams -> Endings]
        /\ UNCHANGED run
    BY <1>2 DEF TypeOK, ClientStep, runVars
  <2>2. \A t \in Streams : streams'[t].job = streams[t].job
    BY <1>2, ClientAside
  <2>3. \A t \in Streams \ {s} : ending'[t] = ending[t] /\ seen'[t] = seen[t]
    BY <1>2, ClientAside
  <2>4. seen[s] \subseteq seen'[s]
    BY <1>2, <2>1 DEF ClientStep, ClientSubscribes, Subscribe, Yield, PollTimeout, Disconnect, Cleanup
  <2>5. ending'[s] \in {"completed", "overtaken"} => ending'[s] = ending[s] \/ EndedByPoll(s)
    <3>1. CASE ClientSubscribes(s) \/ Cleanup(s)
      BY <3>1 DEF ClientSubscribes, Subscribe, Cleanup
    <3>2. CASE Yield(s) \/ Disconnect(s)
      <4>1. UNCHANGED ending \/ \E why \in {"event", "disconnect"} : ending' = [ending EXCEPT ![s] = why]
        BY <3>2 DEF Yield, Disconnect, End
      <4> QED
        BY <2>1, <4>1
    <3>3. CASE PollTimeout(s)
      <4>1. CASE status[streams[s].job] \in Terminal
        <5>1. ending' = [ending EXCEPT ![s] =
                IF status[streams[s].job] = "completed" /\ buffers[streams[s].queue] # <<>>
                  THEN "overtaken" ELSE status[streams[s].job]]
          BY <3>3, <4>1 DEF PollTimeout, End
        <5>2. ending'[s] = IF status[streams[s].job] = "completed" /\ buffers[streams[s].queue] # <<>>
                             THEN "overtaken" ELSE status[streams[s].job]
          BY <2>1, <5>1
        <5> QED
          BY <3>3, <4>1, <5>2 DEF EndedByPoll, Terminal
      <4>2. CASE status[streams[s].job] \notin Terminal
        BY <3>3, <4>2 DEF PollTimeout
      <4> QED
        BY <4>1, <4>2
    <3> QED
      BY <1>2, <3>1, <3>2, <3>3 DEF ClientStep
  <2> QED
    BY <2>1, <2>2, <2>3, <2>4, <2>5
<1>3. ASSUME NEW j \in Jobs, ReadReport(j) \/ FinalizeOrphan(j)
      PROVE  Goal
  BY <1>3 DEF ReadReport, FinalizeOrphan, vars
<1>4. ASSUME UNCHANGED allVars
      PROVE  Goal
  BY <1>4 DEF allVars
<1>5. ASSUME Restart
      PROVE  Goal
  BY <1>5, RestartFacts DEF OwnTypeOK, SameRequest
<1>6. ASSUME RunTick
      PROVE  Goal
  <2>1. Tick /\ UNCHANGED <<run, seen, ending>>
    BY <1>6 DEF RunTick, Tick, runVars
  <2> QED
    BY <2>1, TickStreams
<1>7. ASSUME SchedulerStarts
      PROVE  Goal
  BY <1>7, SchedulerFacts DEF OwnTypeOK, SameRequest
<1>8. ASSUME NEW k \in Jobs, Drop(k)
      PROVE  Goal
  BY <1>8, DropFacts DEF OwnTypeOK, SameRequest, Survives
<1> HIDE DEF Goal
<1>9. Goal
  BY <1>1, <1>2, <1>3, <1>4, <1>5, <1>6, <1>7, <1>8 DEF RunNext, JobAction
<1> QED
  BY <1>9 DEF Goal

\* A stream ends once and for one reason.
LEMMA EndingKept ==
  ASSUME TypeOK, OwnTypeOK, EarlyInv, OpenInv, [RunNext]_allVars
  PROVE  /\ OpenInv'
         /\ \A s \in Streams : ending[s] # "open" => ending'[s] = ending[s]
<1> DEFINE Goal == OpenInv' /\ \A s \in Streams : ending[s] # "open" => ending'[s] = ending[s]
<1>1. /\ streams \in [Streams -> StreamType]
      /\ ending \in [Streams -> Endings]
  BY DEF TypeOK, StreamType
<1>2. ASSUME UNCHANGED streamVars
      PROVE  Goal
  BY <1>2 DEF streamVars, OpenInv
<1>3. ASSUME NEW j \in Jobs, JobAction(j)
      PROVE  Goal
  <2>1. UNCHANGED streamVars
    BY <1>3, JobTouches DEF JobAction, Touches
  <2> QED
    BY <1>2, <2>1
<1>4. ASSUME NEW s \in Streams, NEW why, streams[s].pc \in Looping, End(s, why)
      PROVE  Goal
  <2>1. /\ \A t \in Streams \ {s} : streams'[t] = streams[t] /\ ending'[t] = ending[t]
        /\ streams'[s].pc = "ended"
    BY <1>1, <1>4 DEF End, StreamType
  <2> QED
    BY <1>4, <2>1 DEF OpenInv
<1>5. ASSUME NEW s \in Streams, UNCHANGED ending,
             \/ streams[s].pc \in Looping /\ streams' = [streams EXCEPT ![s].pc = "waiting"]
             \/ UNCHANGED streams
             \/ streams' = [streams EXCEPT ![s].pc = "gone"]
             \/ streams[s].pc = "idle" /\ \E q : streams' = [streams EXCEPT ![s].pc = "waiting", ![s].queue = q]
      PROVE  Goal
  <2>1. \A t \in Streams : streams'[t].pc \in ({"idle"} \cup Looping) => streams[t].pc \in ({"idle"} \cup Looping)
    <3>1. CASE streams[s].pc \in Looping /\ streams' = [streams EXCEPT ![s].pc = "waiting"]
      BY <1>1, <3>1 DEF StreamType
    <3>2. CASE streams' = [streams EXCEPT ![s].pc = "gone"]
      BY <1>1, <3>2 DEF StreamType
    <3>3. CASE streams[s].pc = "idle" /\ \E q : streams' = [streams EXCEPT ![s].pc = "waiting", ![s].queue = q]
      BY <1>1, <3>3 DEF StreamType
    <3> QED
      BY <1>5, <3>1, <3>2, <3>3
  <2> QED
    BY <1>5, <2>1 DEF OpenInv
<1>6. ASSUME NEW s \in Streams, ClientStep(s)
      PROVE  Goal
  <2>1. CASE ClientSubscribes(s)
    <3>1. /\ UNCHANGED ending /\ streams[s].pc = "idle"
          /\ streams' = [streams EXCEPT ![s].pc = "waiting", ![s].queue = Queue(streams[s].job)]
      BY <2>1 DEF ClientSubscribes, Subscribe
    <3> QED
      BY <1>5, <3>1
  <2>2. CASE Cleanup(s)
    BY <1>5, <2>2 DEF Cleanup
  <2>3. CASE Yield(s) \/ PollTimeout(s) \/ Disconnect(s)
    <3>1. /\ streams[s].pc \in Looping
          /\ \/ \E why : End(s, why)
             \/ streams' = [streams EXCEPT ![s].pc = "waiting"] /\ UNCHANGED ending
             \/ UNCHANGED <<streams, ending>>
      BY <2>3 DEF Yield, PollTimeout, Disconnect
    <3>2. CASE \E why : End(s, why)
      BY <1>4, <3>1, <3>2
    <3>3. CASE streams' = [streams EXCEPT ![s].pc = "waiting"] /\ UNCHANGED ending
      BY <1>5, <3>1, <3>3
    <3>4. CASE UNCHANGED <<streams, ending>>
      <4>1. UNCHANGED streams /\ UNCHANGED ending
        BY <3>4
      <4> QED
        BY <1>5, <4>1
    <3> QED
      BY <3>1, <3>2, <3>3, <3>4
  <2> QED
    BY <1>6, <2>1, <2>2, <2>3 DEF ClientStep
<1>7. ASSUME \/ \E j \in Jobs : ReadReport(j) \/ FinalizeOrphan(j) \/ Drop(j)
             \/ SchedulerStarts
             \/ UNCHANGED allVars
      PROVE  Goal
  BY <1>2, <1>7 DEF ReadReport, FinalizeOrphan, Drop, SchedulerStarts, vars, allVars, streamVars
<1>8. ASSUME Restart
      PROVE  Goal
  <2>1. \A s \in Streams : /\ ending'[s] = IF streams[s].pc \in Looping THEN "cut" ELSE ending[s]
                           /\ run[streams[s].job].pc = "new" => streams'[s] = streams[s]
                           /\ run[streams[s].job].pc # "new" => streams'[s].pc = "gone"
    BY <1>8, RestartFacts DEF OwnTypeOK
  <2>2. \A s \in Streams : streams[s].pc \in Looping => run[streams[s].job].pc # "new"
    BY DEF EarlyInv
  <2> QED
    BY <2>1, <2>2 DEF OpenInv
<1>9. ASSUME RunTick
      PROVE  Goal
  <2>1. Tick /\ UNCHANGED ending
    BY <1>9 DEF RunTick, Tick
  <2> QED
    BY <2>1, TickStreams DEF OpenInv
<1> HIDE DEF Goal
<1>10. Goal
  BY <1>3, <1>6, <1>7, <1>8, <1>9 DEF RunNext, JobAction
<1> QED
  BY <1>10 DEF Goal

\* An excuse is for good.
LEMMA ExcuseStays ==
  ASSUME TypeOK, OwnTypeOK, DeliveryInv, EarlyInv, OpenInv, [RunNext]_allVars, NEW j \in Jobs, Excused(j)
  PROVE  Excused(j)'
  BY HistoryFacts, EndingKept DEF Excused, Left

\* A client that leaves excuses the job it was streaming.
LEMMA LeavingExcuses ==
  ASSUME TypeOK, NEW s \in Streams, Disconnect(s)
  PROVE  /\ Excused(streams[s].job)'
         /\ UNCHANGED <<status, queueOf, buffers, seen>>
         /\ \A t \in Streams : streams'[t].job = streams[t].job
         /\ \A t \in Streams \ {s} : streams'[t] = streams[t]
<1>1. /\ streams \in [Streams -> StreamType] /\ DOMAIN ending = Streams
      /\ streams' = [streams EXCEPT ![s].pc = "ended"]
      /\ ending' = [ending EXCEPT ![s] = "disconnect"]
      /\ UNCHANGED <<status, queueOf, buffers, seen>>
  BY DEF Disconnect, End, TypeOK, StreamType
<1>2. ending'[s] = "disconnect" /\ \A t \in Streams : streams'[t].job = streams[t].job
  BY <1>1 DEF StreamType
<1> QED
  BY <1>1, <1>2 DEF Excused, Left

LEMMA OnTimeKept ==
  ASSUME TypeOK, OwnTypeOK, DeliveryInv, Private, EarlyInv, OpenInv, OnTimeInv, [RunNext]_allVars
  PROVE  OnTimeInv'
<1> SUFFICES ASSUME NEW j \in Jobs, ~Excused(j)', ~run'[j].scheduled
             PROVE  OnTime(j)'
  BY DEF OnTimeInv
<1>1. OnTime(j) /\ ~run[j].scheduled
  BY ExcuseStays, HistoryFacts DEF OnTimeInv
<1>2. ASSUME NEW k \in Jobs, JobAction(k)
      PROVE  OnTime(j)'
  <2>1. CASE j # k
    <3>1. PICK kinds \in Seq(Kinds) : Touches(k, kinds) /\ Aside(k)
      BY <1>2, JobTouches DEF JobAction
    <3> QED
      BY <1>1, <2>1, <3>1, OtherJobKeeps
  <2>2. CASE j = k /\ Timeout(k)
    <3>1. run' = [run EXCEPT ![k].timedOut = TRUE]
      BY <2>2 DEF Timeout
    <3>2. run'[k].timedOut
      BY <3>1 DEF OwnTypeOK, RunType
    <3> QED
      BY <2>2, <3>2 DEF Excused
  <2>3. CASE j = k /\ ~Timeout(k)
    <3>1. ~Launch(j)
      BY <1>1 DEF Launch
    <3>2. PICK kinds \in Seq(Kinds) : Touches(j, kinds) /\ Moves(j, kinds)
      BY <1>1, <1>2, <2>3, <3>1, JobMoves DEF JobAction
    <3> QED
      BY <1>1, <3>2, MoveKeeps
  <2> QED
    BY <2>1, <2>2, <2>3
<1>3. ASSUME NEW s \in Streams, ClientStep(s)
      PROVE  OnTime(j)'
  <2>1. UNCHANGED run
    BY <1>3 DEF ClientStep, runVars
  <2>2. CASE Disconnect(s)
    <3>1. streams[s].job # j
      BY <2>2, LeavingExcuses
    <3> QED
      BY <1>1, <2>1, <2>2, <3>1, LeavingExcuses, HeldSame, Bystander
  <2> QED
    BY <1>1, <1>3, <2>1, <2>2, SubscribeKeeps, YieldKeeps, PollKeeps, CleanupKeeps DEF ClientStep, ClientSubscribes
<1>4. ASSUME \/ \E k \in Jobs : ReadReport(k) \/ FinalizeOrphan(k)
             \/ UNCHANGED allVars
      PROVE  OnTime(j)'
  <2>1. UNCHANGED <<run, status, queueOf, buffers, seen, streams>>
    BY <1>4 DEF ReadReport, FinalizeOrphan, allVars, vars
  <2> QED
    BY <1>1, <2>1, OnTimeSame
<1>6. ASSUME SchedulerStarts \/ \E k \in Jobs : Drop(k)
      PROVE  OnTime(j)'
  <2>1. Survives(j) /\ UNCHANGED <<buffers, seen, streams>>
    BY <1>1, <1>6, SchedulerFacts, DropFacts DEF OwnTypeOK
  <2> QED
    BY <1>1, <2>1, HeldSame, Bystander DEF Survives
<1>5. ASSUME RunTick
      PROVE  OnTime(j)'
  <2>1. Tick /\ UNCHANGED <<run, status, queueOf, buffers, seen>>
    BY <1>5 DEF RunTick, Tick, runVars
  <2> QED
    BY <1>1, <2>1, TickStreams, OnTimeSame
<1> QED
  BY <1>1, <1>2, <1>3, <1>4, <1>5, <1>6, RestartKeeps DEF RunNext, JobAction

-----------------------------------------------------------------------------
(* The report of a job on time, when the database is up. *)

\* A reader that saw the row active holds up the clock, so the job outlives it.
ReaderInTime(j) ==
  reading[j] /\ report[j] = "completed" =>
    /\ status[j] # "absent"
    /\ \A s \in Streams : streams[s].job = j /\ streams[s].pc = "ended" => streams[s].grace = Grace

ReportOnTime(j) ==
  /\ run[j].pc = "finish" => report[j] = "completed"
  /\ ReaderInTime(j)
  /\ \A e : Held(e) /\ e.job = j /\ e.kind = "job.completed" => run[j].dry \/ report[j] = "completed"

ReportInv == \A j \in Jobs : run[j].scheduled \/ Excused(j) \/ ReportOnTime(j)

\* A poll that reads "completed" and finds its queue empty has nothing of the
\* job in any other: the event has been delivered.
LEMMA PollMissesNothing ==
  ASSUME TypeOK, DeliveryInv, NEW s \in Streams, streams[s].pc \in Looping,
         buffers[streams[s].queue] = <<>>,
         OnTime(streams[s].job), status[streams[s].job] = "completed"
  PROVE  \E t \in Streams : \E e \in seen[t] : e.job = streams[s].job /\ e.kind = "job.completed"
<1>1. PICK j \in Jobs : j = streams[s].job
  BY QueueFacts
<1>2. PICK e : Held(e) /\ e.job = j /\ e.kind = "job.completed"
  BY <1>1 DEF OnTime, CompletionHeld
<1>3. \A q : ~Queued(q, e)
  <2> SUFFICES ASSUME NEW q, Queued(q, e) PROVE FALSE
    OBVIOUS
  <2>1. q = streams[s].queue
    BY <1>1, <1>2 DEF OnTime, SharedQueue, Undeleted
  <2> QED
    BY <2>1 DEF Queued
<1> QED
  BY <1>1, <1>2, <1>3 DEF Held

\* What is held is yielded or waits.
LEMMA HeldIsThere ==
  ASSUME TypeOK, NEW e, NEW j \in Jobs, e.job = j
  PROVE  /\ Held(e) <=> e \in Yielded(j) \cup Waiting(j)
         /\ \A s \in Streams : e \in seen[s] => e \in Yielded(j)
         /\ e \in Yielded(j) => \E s \in Streams : e \in seen[s]
  BY DEF Held, Queued, Yielded, Waiting

\* No event is lost.
LEMMA HeldStays ==
  ASSUME TypeOK, OwnTypeOK, DeliveryInv, [RunNext]_allVars, NEW e, Held(e)
  PROVE  Held(e)'
<1>1. ASSUME NEW j \in Jobs, JobAction(j)
      PROVE  Held(e)'
  <2>1. PICK kinds \in Seq(Kinds) : Touches(j, kinds)
    BY <1>1, JobTouches DEF JobAction
  <2> QED
    BY <2>1, Touched
<1>2. ASSUME NEW s \in Streams, ClientStep(s)
      PROVE  Held(e)'
  <2>1. CASE ClientSubscribes(s)
    BY <2>1, HeldSubscribe DEF ClientSubscribes
  <2>2. CASE Yield(s)
    BY <2>2, HeldYield
  <2>3. CASE PollTimeout(s) \/ Disconnect(s) \/ Cleanup(s)
    BY <2>3, HeldSame DEF PollTimeout, Disconnect, Cleanup, DeleteJob
  <2> QED
    BY <1>2, <2>1, <2>2, <2>3 DEF ClientStep
<1>3. ASSUME \/ \E k \in Jobs : ReadReport(k) \/ FinalizeOrphan(k) \/ Drop(k)
             \/ SchedulerStarts \/ Restart \/ RunTick \/ UNCHANGED allVars
      PROVE  Held(e)'
  <2>1. UNCHANGED <<buffers, seen>>
    BY <1>3 DEF ReadReport, FinalizeOrphan, Drop, DeleteJob, SchedulerStarts, Restart, RunTick, Tick,
                streamVars, vars, allVars
  <2> QED
    BY <2>1, HeldSame
<1> QED
  BY <1>1, <1>2, <1>3 DEF RunNext, JobAction

\* CompletedNeverMissed, job by job.
MissedInv ==
  \A s \in Streams : \A j \in Jobs :
    streams[s].job = j /\ ~Excused(j) =>
      /\ ending[s] = "completed" => \E e \in Yielded(j) : e.kind = "job.completed"
      /\ ending[s] = "overtaken" => \E e \in Yielded(j) \cup Waiting(j) : e.kind = "job.completed"

LEMMA MissedMeans ==
  ASSUME TypeOK, MissedInv
  PROVE  CompletedNeverMissed
<1> SUFFICES ASSUME NEW s \in Streams, ~Excused(streams[s].job)
             PROVE  /\ ending[s] = "completed" =>
                         \E e \in Yielded(streams[s].job) : e.kind = "job.completed"
                    /\ ending[s] = "overtaken" =>
                         \E e \in Yielded(streams[s].job) \cup Waiting(streams[s].job) :
                           e.kind = "job.completed"
  BY DEF CompletedNeverMissed
<1>1. PICK j \in Jobs : j = streams[s].job
  BY DEF TypeOK
<1> QED
  BY <1>1 DEF MissedInv

LEMMA MissedKept ==
  ASSUME TypeOK, OwnTypeOK, DeliveryInv, EarlyInv, OpenInv, ScheduledInv, OnTimeInv, MissedInv,
         [RunNext]_allVars
  PROVE  MissedInv'
<1> SUFFICES ASSUME NEW s \in Streams, NEW j \in Jobs, streams'[s].job = j, ~Excused(j)',
                    ending'[s] \in {"completed", "overtaken"}
             PROVE  /\ ending'[s] = "completed" => \E e \in Yielded(j)' : e.kind = "job.completed"
                    /\ ending'[s] = "overtaken" =>
                         \E e \in Yielded(j)' \cup Waiting(j)' : e.kind = "job.completed"
  BY DEF MissedInv
<1>1. j = streams[s].job
  BY HistoryFacts
<1>2. ~Excused(j)
  BY <1>1, ExcuseStays
<1>3. CASE ending[s] = ending'[s]
  <2>1. /\ ending'[s] = "completed" => \E e \in Yielded(j) : e.kind = "job.completed"
        /\ ending'[s] = "overtaken" => \E e \in Yielded(j) \cup Waiting(j) : e.kind = "job.completed"
    BY <1>1, <1>2, <1>3 DEF MissedInv
  <2>2. CASE ending'[s] = "completed"
    <3>1. PICK e : e \in Yielded(j) /\ e.kind = "job.completed"
      BY <2>1, <2>2
    <3>2. e \in Yielded(j)'
      BY <3>1, HistoryFacts DEF Yielded
    <3> QED
      BY <1>1, <2>2, <3>1, <3>2
  <2>3. CASE ending'[s] = "overtaken"
    <3>1. PICK e : e \in Yielded(j) \cup Waiting(j) /\ e.kind = "job.completed"
      BY <2>1, <2>3
    <3>2. e.job = j /\ Held(e)
      BY <3>1, HeldIsThere DEF Yielded, Waiting
    <3>3. Held(e)'
      BY <3>2, HeldStays
    <3>4. e \in Yielded(j)' \cup Waiting(j)'
      BY <3>2, <3>3 DEF Held, Queued, Yielded, Waiting
    <3> QED
      BY <1>1, <2>3, <3>1, <3>4
  <2> QED
    BY <2>2, <2>3
<1>4. CASE EndedByPoll(s)
  <2>1. /\ streams[s].pc = "expired" /\ status[j] = "completed"
        /\ ending'[s] = "completed" => buffers[streams[s].queue] = <<>>
        /\ UNCHANGED <<buffers, seen>>
    BY <1>1, <1>4 DEF EndedByPoll, PollTimeout
  <2>2. OnTime(j)
    BY <1>1, <1>2, <2>1 DEF OnTimeInv, ScheduledInv
  <2>3. CASE ending'[s] = "completed"
    <3>1. PICK e : e.job = j /\ e.kind = "job.completed" /\ \E t \in Streams : e \in seen[t]
      BY <1>1, <2>1, <2>2, <2>3, PollMissesNothing
    <3>2. e \in Yielded(j)'
      BY <2>1, <3>1 DEF Yielded
    <3> QED
      BY <1>1, <2>3, <3>1, <3>2
  <2>4. CASE ending'[s] = "overtaken"
    <3>1. PICK e : Held(e) /\ e.job = j /\ e.kind = "job.completed"
      BY <2>1, <2>2 DEF OnTime, CompletionHeld
    <3>2. e \in Yielded(j)' \cup Waiting(j)'
      BY <2>1, <3>1 DEF Held, Queued, Yielded, Waiting
    <3> QED
      BY <1>1, <2>4, <3>1, <3>2
  <2> QED
    BY <2>3, <2>4
<1> QED
  BY <1>3, <1>4, HistoryFacts

LEMMA JobReport ==
  ASSUME OwnTypeOK, "db" \notin Faults, NEW j \in Jobs, JobAction(j), ~Timeout(j)
  PROVE  /\ run'[j].pc = "finish" => run[j].pc = "save" /\ report'[j] = "completed"
         /\ run[j].pc = "finish" => report'[j] = report[j]
         /\ report'[j] = "completed" => report[j] = "completed" \/ run[j].pc = "save"
<1>1. CASE SaveReport(j)
  BY <1>1, GotoFacts DEF SaveReport, OwnTypeOK
<1>2. CASE OpenReport(j) \/ ConfigRaises(j)
  <2>1. (\E to \in {"begin", "done"} : Goto(j, "start", to)) /\ report'[j] \in {"running", report[j]}
    BY <1>2 DEF OpenReport, ConfigRaises, OwnTypeOK
  <2> QED
    BY <2>1, GotoFacts
<1>3. CASE RecordFailure(j)
  <2>1. Goto(j, "failing", "failed") /\ report'[j] \in {"failed", report[j]}
    BY <1>3 DEF RecordFailure, MarkReportFailed, OwnTypeOK
  <2> QED
    BY <2>1, GotoFacts
<1>4. CASE ~(SaveReport(j) \/ OpenReport(j) \/ ConfigRaises(j) \/ RecordFailure(j))
  <2>1. report' = report
    BY <1>4 DEF JobAction, InnerStep, Analyze, Chat, ChatAccepted, ChatRejected, Launch, Begin, Progress, AnalysisEnds,
                PostProcess, Finish, Raise, FinishFailed, runVars
  <2>2. run'[j].pc # "finish"
    <3>1. CASE Progress(j)
      BY <3>1 DEF Progress, runVars
    <3>2. ASSUME NEW from, NEW to \in {"extract", "start", "done", "work", "post", "save", "failing"}, Goto(j, from, to)
          PROVE  run'[j].pc # "finish"
      BY <3>2, GotoFacts
    <3>3. CASE ~Progress(j)
      BY <1>4, <3>2, <3>3 DEF JobAction, InnerStep, Analyze, Chat, ChatAccepted, ChatRejected, Launch, Begin, AnalysisEnds,
                              PostProcess, Finish, Raise, FinishFailed
    <3> QED
      BY <3>1, <3>3
  <2> QED
    BY <2>1, <2>2
<1> QED
  BY <1>1, <1>2, <1>3, <1>4

LEMMA ReportSame ==
  ASSUME NEW j \in Jobs, ReportOnTime(j), run'[j] = run[j], report'[j] = report[j], reading'[j] = reading[j],
         reading[j] /\ status'[j] = "absent" => status[j] = "absent",
         \A e : e.job = j /\ Held(e)' => Held(e),
         reading[j] => \A s \in Streams : streams'[s].job = j /\ streams'[s].pc = "ended" =>
           \/ streams'[s].grace = Grace
           \/ streams[s].job = j /\ streams[s].pc = "ended" /\ streams'[s].grace = streams[s].grace
  PROVE  ReportOnTime(j)'
<1>1. ReaderInTime(j)'
  BY DEF ReportOnTime, ReaderInTime
<1> QED
  BY <1>1 DEF ReportOnTime

LEMMA ReportMoves ==
  ASSUME TypeOK, OwnTypeOK, DeliveryInv, EarlyInv, "db" \notin Faults,
         NEW j \in Jobs, ~run[j].scheduled, JobAction(j), ~Timeout(j), OnTime(j), ReportOnTime(j)
  PROVE  ReportOnTime(j)'
<1>0. ~Launch(j)
  BY DEF Launch
<1>1. PICK kinds \in Seq(Kinds) : Touches(j, kinds) /\ Moves(j, kinds)
  BY <1>0, JobMoves DEF JobAction
<1>2. /\ run'[j].pc = "finish" => run[j].pc = "save" /\ report'[j] = "completed"
      /\ run[j].pc = "finish" => report'[j] = report[j]
      /\ report'[j] = "completed" => report[j] = "completed" \/ run[j].pc = "save"
      /\ reading' = reading
  BY JobReport, ReportFacts
<1>3. UNCHANGED streams
  BY <1>1, Touched
<1>4. run[j].pc = "save" => /\ status[j] # "absent"
                          /\ \A s \in Streams : streams[s].job = j => streams[s].pc # "ended"
  BY DEF OnTime, ClosedInTime, Early, Closing
<1>5. ReaderInTime(j)'
  <2>1. status'[j] = "absent" => status[j] = "absent"
    BY <1>1 DEF Moves
  <2> QED
    BY <1>2, <1>3, <1>4, <2>1 DEF ReportOnTime, ReaderInTime
<1>6. ASSUME NEW e, Held(e)', e.job = j, e.kind = "job.completed"
      PROVE  run'[j].dry \/ report'[j] = "completed"
  <2>1. ~Held(e)
    BY <1>1, <1>6 DEF OnTime, VerdictIsLast, Moves, TerminalKinds
  <2>2. Has(kinds, {"job.completed"})
    BY <1>1, <1>6, <2>1, Touched DEF Has, IsNews
  <2>3. run[j].dry \/ run[j].pc = "finish"
    BY <1>1, <2>2 DEF Moves
  <2>4. run'[j].dry = run[j].dry
    BY <1>1 DEF Moves
  <2> QED
    BY <1>2, <2>3, <2>4 DEF ReportOnTime
<1> QED
  BY <1>2, <1>5, <1>6 DEF ReportOnTime

LEMMA ReportClient ==
  ASSUME TypeOK, OwnTypeOK, DeliveryInv, EarlyInv,
         NEW s \in Streams, ClientStep(s), NEW j \in Jobs, ReportOnTime(j), ~Excused(j)'
  PROVE  ReportOnTime(j)'
<1>1. UNCHANGED <<run, report, reading>>
  BY DEF ClientStep, runVars
<1>2. streams \in [Streams -> StreamType] /\ status \in [Jobs -> Statuses] /\ Grace # 0
  BY JobStoreAssumption DEF TypeOK, StreamType
<1>3. CASE Cleanup(s)
  <2>1. /\ streams[s].pc = "ended" /\ streams[s].grace = 0 /\ UNCHANGED <<buffers, seen>>
        /\ streams' = [streams EXCEPT ![s].pc = "gone"]
        /\ status' = [status EXCEPT ![streams[s].job] = "absent"]
    BY <1>3 DEF Cleanup, DeleteJob
  <2>2. /\ \A t \in Streams : streams'[t].job = streams[t].job /\ streams'[t].grace = streams[t].grace
        /\ \A t \in Streams \ {s} : streams'[t].pc = streams[t].pc
        /\ streams'[s].pc = "gone"
    BY <1>2, <2>1 DEF StreamType
  <2>3. CASE reading[j] /\ report[j] = "completed"
    <3>1. streams[s].job # j
      BY <1>2, <2>1, <2>3 DEF ReportOnTime, ReaderInTime
    <3>2. status'[j] = status[j]
      BY <1>2, <2>1, <3>1
    <3> QED
      BY <1>1, <2>1, <2>2, <3>2, HeldSame, ReportSame
  <2>4. CASE ~(reading[j] /\ report[j] = "completed")
    BY <1>1, <2>1, <2>4, HeldSame DEF ReportOnTime, ReaderInTime
  <2> QED
    BY <2>3, <2>4
<1>4. CASE ~Cleanup(s)
  <2>1. UNCHANGED status
    BY <1>4 DEF ClientStep, ClientSubscribes, Subscribe, Yield, PollTimeout, Disconnect
  <2>2. \A e : Held(e)' => Held(e)
    <3>1. CASE ClientSubscribes(s)
      BY <3>1, HeldSubscribe DEF ClientSubscribes
    <3>2. CASE Yield(s)
      BY <3>2, HeldYield
    <3>3. CASE PollTimeout(s) \/ Disconnect(s)
      BY <3>3, HeldSame DEF PollTimeout, Disconnect
    <3> QED
      BY <1>4, <3>1, <3>2, <3>3 DEF ClientStep
  <2>3. \A t \in Streams : streams'[t].job = j /\ streams'[t].pc = "ended" =>
          \/ streams'[t].grace = Grace
          \/ streams[t].job = j /\ streams[t].pc = "ended" /\ streams'[t].grace = streams[t].grace
    <3>1. CASE ClientSubscribes(s)
      <4>1. streams' = [streams EXCEPT ![s].pc = "waiting", ![s].queue = Queue(streams[s].job)]
        BY <3>1 DEF ClientSubscribes, Subscribe
      <4> QED
        BY <1>2, <4>1 DEF StreamType
    <3>2. CASE Yield(s) \/ PollTimeout(s)
      <4>1. /\ streams[s].pc \in Looping
            /\ \/ streams' = [streams EXCEPT ![s].pc = "ended"]
               \/ streams' = [streams EXCEPT ![s].pc = "waiting"]
               \/ UNCHANGED streams
        BY <3>2 DEF Yield, PollTimeout, End
      <4>2. streams[s].grace = Grace
        BY <4>1 DEF EarlyInv
      <4> QED
        BY <4>1, <4>2, LoopFacts
    <3>3. CASE Disconnect(s)
      BY <3>3, LeavingExcuses
    <3> QED
      BY <1>4, <3>1, <3>2, <3>3 DEF ClientStep
  <2> QED
    BY <1>1, <2>1, <2>2, <2>3, ReportSame
<1> QED
  BY <1>3, <1>4

LEMMA ReportOthers ==
  ASSUME TypeOK, OwnTypeOK, DeliveryInv, NEW j \in Jobs, ~run[j].scheduled, OnTime(j), ReportOnTime(j),
         \/ \E k \in Jobs : ReadReport(k) \/ FinalizeOrphan(k) \/ Drop(k)
         \/ SchedulerStarts
         \/ Restart
         \/ RunTick
         \/ UNCHANGED allVars
  PROVE  ReportOnTime(j)'
<1>1. CASE ReadReport(j)
  BY <1>1, HeldSame DEF ReadReport, vars, Active, ReportOnTime, ReaderInTime
<1>2. CASE FinalizeOrphan(j)
  <2>1. /\ reading[j] /\ reading'[j] = FALSE /\ UNCHANGED <<run, streams, buffers, seen>>
        /\ report'[j] = IF status[j] = "absent" THEN "failed" ELSE report[j]
    BY <1>2 DEF FinalizeOrphan, KnownToApi, vars, OwnTypeOK
  <2>2. run[j].pc = "finish" => status[j] # "absent"
    BY DEF OnTime, ClosedInTime, Early, Closing
  <2>3. report[j] = "completed" => status[j] # "absent"
    BY <2>1 DEF ReportOnTime, ReaderInTime
  <2> QED
    BY <2>1, <2>2, <2>3, HeldSame DEF ReportOnTime, ReaderInTime
<1>3. CASE \E k \in Jobs \ {j} : ReadReport(k) \/ FinalizeOrphan(k)
  <2>1. /\ UNCHANGED <<run, status, streams, buffers, seen>>
        /\ report'[j] = report[j] /\ reading'[j] = reading[j]
    BY <1>3 DEF ReadReport, FinalizeOrphan, vars, OwnTypeOK
  <2> QED
    BY <2>1, HeldSame, ReportSame
<1>4. CASE SchedulerStarts
  <2>1. /\ Survives(j) /\ UNCHANGED <<reading, streams, buffers, seen>>
        /\ report'[j] = IF report[j] \in Active THEN "failed" ELSE report[j]
    BY <1>4, SchedulerFacts DEF OwnTypeOK
  <2> QED
    BY <2>1, HeldSame DEF Survives, ReportOnTime, ReaderInTime, Active
<1>5. CASE Restart
  <2>1. /\ reading'[j] = FALSE /\ UNCHANGED <<report, buffers, seen>>
        /\ run'[j].pc \in {"new", "done"} /\ run'[j].dry = run[j].dry
    BY <1>5, RestartFacts DEF OwnTypeOK, Dies, SameRequest
  <2> QED
    BY <2>1, HeldSame DEF ReportOnTime, ReaderInTime
<1>8. ASSUME NEW k \in Jobs, Drop(k)
      PROVE  ReportOnTime(j)'
  <2>1. Survives(j) /\ UNCHANGED <<report, reading, streams, buffers, seen>>
    BY <1>8, DropFacts DEF OwnTypeOK
  <2> QED
    BY <2>1, HeldSame, ReportSame DEF Survives
<1>6. CASE RunTick
  <2>1. ~reading[j] /\ UNCHANGED <<run, report, reading, status, buffers, seen>>
    BY <1>6 DEF RunTick, Tick, runVars
  <2> QED
    BY <2>1, HeldSame, ReportSame
<1>7. CASE UNCHANGED allVars
  <2>1. UNCHANGED <<run, report, reading, status, streams, buffers, seen>>
    BY <1>7 DEF allVars
  <2> QED
    BY <2>1, HeldSame, ReportSame
<1> QED
  BY <1>1, <1>2, <1>3, <1>4, <1>5, <1>6, <1>7, <1>8

LEMMA ReportKept ==
  ASSUME "db" \notin Faults, TypeOK, OwnTypeOK, DeliveryInv, EarlyInv, OpenInv, OnTimeInv, ReportInv,
         [RunNext]_allVars
  PROVE  ReportInv'
<1> SUFFICES ASSUME NEW j \in Jobs, ~Excused(j)', ~run'[j].scheduled
             PROVE  ReportOnTime(j)'
  BY DEF ReportInv
<1>1. OnTime(j) /\ ReportOnTime(j) /\ ~run[j].scheduled
  BY ExcuseStays, HistoryFacts DEF OnTimeInv, ReportInv
<1>2. CASE JobAction(j)
  <2>1. CASE Timeout(j)
    <3>1. run' = [run EXCEPT ![j].timedOut = TRUE]
      BY <2>1 DEF Timeout
    <3>2. run'[j].timedOut
      BY <3>1 DEF OwnTypeOK, RunType
    <3> QED
      BY <3>2 DEF Excused
  <2> QED
    BY <1>1, <1>2, <2>1, ReportMoves
<1>3. ASSUME NEW k \in Jobs \ {j}, JobAction(k)
      PROVE  ReportOnTime(j)'
  <2>1. PICK kinds \in Seq(Kinds) : Touches(k, kinds) /\ Aside(k)
    BY <1>3, JobTouches DEF JobAction
  <2>2. run'[j] = run[j] /\ status'[j] = status[j] /\ report'[j] = report[j] /\ reading'[j] = reading[j]
    BY <1>3, <2>1, ReportFacts DEF Aside
  <2>3. UNCHANGED streams /\ \A e : e.job = j /\ Held(e)' => Held(e)
    BY <2>1, Touched DEF IsNews
  <2> QED
    BY <1>1, <2>2, <2>3, ReportSame
<1>4. ASSUME NEW s \in Streams, ClientStep(s)
      PROVE  ReportOnTime(j)'
  BY <1>1, <1>4, ReportClient
<1> QED
  BY <1>1, <1>2, <1>3, <1>4, ReportOthers DEF RunNext, JobAction

-----------------------------------------------------------------------------
(* The theorems about jobs on time. *)

StoreAndTypes == TypeOK /\ DeliveryInv /\ OwnTypeOK /\ Private /\ EarlyInv /\ OpenInv /\ ScheduledInv

LEMMA JobsInit == RunInit => StoreAndTypes /\ OnTimeInv /\ ReportInv /\ MissedInv
<1> SUFFICES ASSUME RunInit PROVE StoreAndTypes /\ OnTimeInv /\ ReportInv /\ MissedInv
  OBVIOUS
<1>1. TypeOK /\ DeliveryInv /\ OwnTypeOK /\ Private
  BY RunInitInvariants, PrivateInit DEF RunInit
<1>2. (\A q, e : ~Queued(q, e)) /\ (\A e : ~Held(e))
  <2>1. \A q, e : ~Queued(q, e)
    BY DEF RunInit, Init, Queued
  <2>2. \A s \in Streams : seen[s] = {}
    BY DEF RunInit, Init
  <2> QED
    BY <2>1, <2>2 DEF Held
<1>3. \A j \in Jobs : run[j].pc = "new" /\ status[j] = "absent" /\ report[j] = "none" /\ reading[j] = FALSE
  <2>1. \A j \in Jobs : run[j].pc = "new"
    BY DEF RunInit
  <2> QED
    BY <2>1 DEF RunInit, Init
<1>4. \A s \in Streams : streams[s].pc = "idle" /\ streams[s].grace = Grace
  BY DEF RunInit, Init
<1>5. \A s \in Streams : ending[s] = "open"
  BY DEF RunInit, Init
<1>6. EarlyInv
  BY <1>2, <1>3, <1>4 DEF EarlyInv
<1>7. OnTimeInv
  BY <1>2, <1>3, <1>4 DEF OnTimeInv, OnTime, VerdictIsLast, ClosedInTime, SharedQueue, CompletionHeld,
                          Early, Terminal
<1>8. ReportInv
  BY <1>2, <1>3, <1>4 DEF ReportInv, ReportOnTime, ReaderInTime
<1>9. MissedInv
  BY <1>5 DEF MissedInv
<1>10. OpenInv
  BY <1>5 DEF OpenInv
<1>11. ScheduledInv
  <2>1. \A j \in Jobs : run[j].scheduled => ~run[j].chat
    BY DEF RunInit
  <2>2. \A s \in Streams : seen[s] = {}
    BY DEF RunInit, Init
  <2> QED
    BY <1>3, <1>4, <1>5, <2>1, <2>2 DEF ScheduledInv
<1> QED
  BY <1>1, <1>6, <1>7, <1>8, <1>9, <1>10, <1>11 DEF StoreAndTypes

LEMMA StoreAndTypesKept ==
  ASSUME StoreAndTypes, [RunNext]_allVars
  PROVE  StoreAndTypes'
  BY StoreKept, OwnTypeKept, PrivateKept, EarlyKept, EndingKept, ScheduledKept DEF StoreAndTypes

(* Whatever fails in the jobs, restarts included, a client is sent events   *)
(* of the job it asked for and of no other (main.py:2552-2574 over          *)
(* job_store.py:87-152).                                                    *)
THEOREM ClientsSeeTheirJob == RunSpec => []OwnEvents
<1>1. RunInit => StoreAndTypes
  BY JobsInit
<1>2. StoreAndTypes /\ [RunNext]_allVars => StoreAndTypes'
  BY StoreAndTypesKept
<1>3. StoreAndTypes => OwnEvents
  BY DEF StoreAndTypes, Private
<1> QED
  BY <1>1, <1>2, <1>3, PTL DEF RunSpec

LEMMA ReportIsThere ==
  ASSUME StoreAndTypes, ReportInv
  PROVE  CompletedReportIsThere
<1> SUFFICES ASSUME NEW s \in Streams, NEW e \in seen[s],
                    e.kind = "job.completed", ~run[e.job].dry, ~Excused(e.job)
             PROVE  report[e.job] = "completed"
  BY DEF CompletedReportIsThere
<1>1. Held(e)
  BY DEF Held
<1>2. PICK j \in Jobs : j = e.job
  BY <1>1, HeldType DEF StoreAndTypes, Event
<1>3. ReportOnTime(j)
  <2>1. e.job = streams[s].job
    BY DEF StoreAndTypes, Private, OwnEvents
  <2>2. ~run[j].scheduled
    BY <1>2, <2>1 DEF StoreAndTypes, ScheduledInv
  <2> QED
    BY <1>2, <2>2 DEF ReportInv
<1> QED
  BY <1>1, <1>2, <1>3 DEF ReportOnTime

(* A stream that a poll ends because its job reads "completed" has either   *)
(* missed nothing, or leaves the event, which came between its timer and    *)
(* its turn, in the queue: the status and the event are written in one step *)
(* of the loop, and no deletion comes between the event and the poll        *)
(* (main.py:2219-2241, job_store.py:122-167).  For any number of jobs and   *)
(* streams and under every fault, timeouts, errors, restarts, recoveries    *)
(* and departing clients; only a job past its own timeout, or that one of   *)
(* its own clients has left, is excused.                                    *)
THEOREM NothingMissed == RunSpec => []CompletedNeverMissed
<1>1. RunInit => StoreAndTypes /\ OnTimeInv /\ MissedInv
  BY JobsInit
<1>2. StoreAndTypes /\ OnTimeInv /\ MissedInv /\ [RunNext]_allVars
        => StoreAndTypes' /\ OnTimeInv' /\ MissedInv'
  BY StoreAndTypesKept, OnTimeKept, MissedKept DEF StoreAndTypes
<1>3. StoreAndTypes /\ MissedInv => CompletedNeverMissed
  BY MissedMeans DEF StoreAndTypes
<1> QED
  BY <1>1, <1>2, <1>3, PTL DEF RunSpec

(* A client told of a completion finds the report as well: the report, the  *)
(* status and the event are written in this order, and no deletion, orphan  *)
(* check or recovery comes between (main.py:2187-2241, reports.py:104-105). *)
(* Any fault but one may happen: the report needs the database.             *)
THEOREM CompletionSeen ==
  ASSUME "db" \notin Faults
  PROVE  RunSpec => []CompletionIsSeen
<1>1. RunInit => StoreAndTypes /\ OnTimeInv /\ ReportInv /\ MissedInv
  BY JobsInit
<1>2. StoreAndTypes /\ OnTimeInv /\ ReportInv /\ MissedInv /\ [RunNext]_allVars
        => StoreAndTypes' /\ OnTimeInv' /\ ReportInv' /\ MissedInv'
  BY StoreAndTypesKept, OnTimeKept, ReportKept, MissedKept DEF StoreAndTypes
<1>3. StoreAndTypes /\ ReportInv /\ MissedInv => CompletionIsSeen
  BY ReportIsThere, MissedMeans DEF StoreAndTypes, CompletionIsSeen, OwnTypeOK, RunTypeOK, RunType
<1> QED
  BY <1>1, <1>2, <1>3, PTL DEF RunSpec

-----------------------------------------------------------------------------
(* What the store says of a coroutine that is over, timed out or not.       *)

DecidedInv ==
  \A j \in Jobs :
    /\ run[j].pc = "start" => status[j] \in Over \cup {"pending"}
    /\ run[j].pc \in {"failing", "failed"} => status[j] \in Over
    /\ run[j].pc = "done" => status[j] \in Over \/ (status[j] = "pending" /\ "config" \in Faults)

Decided(j, pc, st) ==
  /\ pc = "start" => st \in Over \cup {"pending"}
  /\ pc \in {"failing", "failed"} => st \in Over
  /\ pc = "done" => st \in Over \/ (st = "pending" /\ "config" \in Faults)

LEMMA JobDecided ==
  ASSUME TypeOK, OwnTypeOK, EarlyInv, DecidedInv, NEW j \in Jobs, JobAction(j)
  PROVE  Decided(j, run'[j].pc, status'[j])
<1>1. /\ run[j].pc \in Early => status[j] = "absent"
      /\ Decided(j, run[j].pc, status[j])
  BY DEF EarlyInv, DecidedInv, Decided
<1>2. CASE Analyze(j) \/ ChatAccepted(j)
  <2>1. run'[j].pc = "start" /\ status'[j] = "pending"
    BY <1>2, GotoFacts, StatusFacts DEF Analyze, ChatAccepted
  <2> QED
    BY <2>1 DEF Decided
<1>3. CASE ChatRejected(j)
  <2>1. run[j].pc = "extract" /\ run'[j].pc = "done" /\ status'[j] = status[j]
    BY <1>3, GotoFacts, StatusFacts DEF ChatRejected
  <2> QED
    BY <1>1, <2>1 DEF Decided, Early, Over
<1>4. CASE Timeout(j)
  <2>1. status'[j] = "failed"
    BY <1>4, StatusFacts DEF Timeout
  <2> QED
    BY <2>1 DEF Decided, Over, Terminal
<1>5. CASE Finish(j) \/ Raise(j)
  <2>1. status'[j] \in Terminal
    BY <1>5, StatusFacts DEF Finish, Raise, Terminal
  <2> QED
    BY <2>1 DEF Decided, Over
<1>6. CASE Begin(j)
  <2>1. status'[j] = "completed" \/ run'[j].pc = "work"
    BY <1>6, GotoFacts, StatusFacts DEF Begin
  <2> QED
    BY <2>1 DEF Decided, Over, Terminal
<1>7. CASE Chat(j) \/ OpenReport(j) \/ AnalysisEnds(j) \/ PostProcess(j) \/ SaveReport(j)
  <2>1. run'[j].pc \in {"extract", "begin", "post", "save", "finish"}
    BY <1>7, GotoFacts DEF Chat, OpenReport, AnalysisEnds, PostProcess, SaveReport
  <2> QED
    BY <2>1 DEF Decided
<1>8. CASE ConfigRaises(j)
  <2>1. /\ run[j].pc = "start" /\ run'[j].pc = "done" /\ "config" \in Faults
        /\ status'[j] = status[j]
    BY <1>8, GotoFacts, StatusFacts DEF ConfigRaises
  <2> QED
    BY <1>1, <2>1 DEF Decided
<1>9. CASE Progress(j)
  <2>1. run' = run /\ status' = status
    BY <1>9 DEF Progress, runVars, storeVars
  <2> QED
    BY <1>1, <2>1 DEF Decided
<1>10. CASE RecordFailure(j) \/ FinishFailed(j)
  <2>1. /\ run[j].pc \in {"failing", "failed"} /\ run'[j].pc \in {"failed", "done"}
        /\ status'[j] = status[j]
    BY <1>10, GotoFacts, StatusFacts DEF RecordFailure, FinishFailed
  <2> QED
    BY <1>1, <2>1 DEF Decided
<1>11. CASE Launch(j)
  <2>1. run[j].pc = "new" /\ run'[j].pc = "start" /\ status'[j] = status[j]
    BY <1>11, GotoFacts, StatusFacts DEF Launch
  <2> QED
    BY <1>1, <2>1 DEF Decided, Early, Over
<1> QED
  BY <1>2, <1>3, <1>4, <1>5, <1>6, <1>7, <1>8, <1>9, <1>10, <1>11 DEF JobAction, InnerStep

LEMMA DecidedInit == RunInit => DecidedInv
<1>1. RunInit => \A j \in Jobs : run[j].pc = "new"
  BY DEF RunInit
<1> QED
  BY <1>1 DEF DecidedInv

LEMMA DecidedKept ==
  ASSUME StoreAndTypes, DecidedInv, [RunNext]_allVars
  PROVE  DecidedInv'
<1> SUFFICES ASSUME NEW j \in Jobs PROVE Decided(j, run'[j].pc, status'[j])
  BY DEF DecidedInv, Decided
<1> USE DEF StoreAndTypes
<1>1. Decided(j, run[j].pc, status[j])
  BY DEF DecidedInv, Decided
<1>2. ASSUME NEW k \in Jobs, JobAction(k)
      PROVE  Decided(j, run'[j].pc, status'[j])
  <2>1. CASE k = j
    BY <1>2, <2>1, JobDecided
  <2>2. CASE k # j
    <3>1. run'[j] = run[j] /\ status'[j] = status[j]
      BY <1>2, <2>2, JobTouches DEF JobAction, Aside
    <3> QED
      BY <1>1, <3>1
  <2> QED
    BY <2>1, <2>2
<1>3. ASSUME NEW s \in Streams, ClientStep(s)
      PROVE  Decided(j, run'[j].pc, status'[j])
  <2>1. run' = run
    BY <1>3 DEF ClientStep, runVars
  <2>2. status'[j] \in {"absent", status[j]}
    <3>1. CASE Cleanup(s)
      BY <3>1 DEF Cleanup, DeleteJob, TypeOK
    <3>2. CASE ~Cleanup(s)
      BY <1>3, <3>2 DEF ClientStep, ClientSubscribes, Subscribe, Yield, PollTimeout, Disconnect
    <3> QED
      BY <3>1, <3>2
  <2> QED
    BY <1>1, <2>1, <2>2 DEF Decided, Over
<1>4. CASE Restart \/ SchedulerStarts
  <2>1. Dies(j) \/ Survives(j)
    BY <1>4, RestartFacts, SchedulerFacts DEF OwnTypeOK
  <2> QED
    BY <1>1, <2>1 DEF Decided, Over, Dies, Survives
<1>5. CASE \/ \E k \in Jobs : ReadReport(k) \/ FinalizeOrphan(k)
           \/ RunTick \/ UNCHANGED allVars
  <2>1. UNCHANGED <<run, status>>
    BY <1>5 DEF ReadReport, FinalizeOrphan, RunTick, Tick, vars, runVars, allVars
  <2> QED
    BY <1>1, <2>1
<1>6. ASSUME NEW k \in Jobs, Drop(k)
      PROVE  Decided(j, run'[j].pc, status'[j])
  <2>1. run'[j].pc = run[j].pc /\ status'[j] \in {"absent", status[j]}
    BY <1>6, DropFacts DEF OwnTypeOK, Survives
  <2> QED
    BY <1>1, <2>1 DEF Decided, Over
<1> QED
  BY <1>2, <1>3, <1>4, <1>5, <1>6 DEF RunNext, JobAction

-----------------------------------------------------------------------------
LEMMA JobKeepsEntry ==
  ASSUME TypeOK, OwnTypeOK, EarlyInv, NEW j \in Jobs, JobAction(j), status'[j] = "absent"
  PROVE  status[j] = "absent"
<1>1. CASE \/ Analyze(j) \/ ChatAccepted(j) \/ Begin(j) \/ Finish(j) \/ Raise(j) \/ Timeout(j)
  <2>1. CreateJob(j) \/ \E st \in {"completed", "failed", "running"} : SetJob(j, st)
    BY <1>1 DEF Analyze, ChatAccepted, Begin, Finish, Raise, Timeout
  <2>2. status'[j] # "absent"
    BY <2>1, StatusFacts
  <2> QED
    BY <2>2
<1>2. CASE ~(\/ Analyze(j) \/ ChatAccepted(j) \/ Begin(j) \/ Finish(j) \/ Raise(j) \/ Timeout(j))
  <2>1. UNCHANGED status
    BY <1>2 DEF JobAction, InnerStep, Chat, ChatRejected, Launch, OpenReport, ConfigRaises, Progress,
                AnalysisEnds, PostProcess, SaveReport, RecordFailure, FinishFailed, storeVars, vars
  <2> QED
    BY <2>1
<1> QED
  BY <1>1, <1>2

LEMMA ApiDeletedStep ==
  ASSUME StoreAndTypes, OnTimeInv, [RunNext]_allVars,
         NEW j \in Jobs, ~run[j].scheduled, status[j] # "absent", status'[j] = "absent"
  PROVE  status[j] \in Terminal \/ Excused(j) \/ Restart
<1> SUFFICES ASSUME OnTime(j), ~Restart PROVE status[j] \in Terminal
  BY DEF OnTimeInv
<1> USE DEF StoreAndTypes
<1>1. ASSUME NEW k \in Jobs, JobAction(k)
      PROVE  FALSE
  <2>1. CASE k # j
    <3>1. PICK kinds \in Seq(Kinds) : Aside(k)
      BY <1>1, JobTouches DEF JobAction
    <3> QED
      BY <2>1, <3>1 DEF Aside
  <2>2. CASE k = j /\ Timeout(k)
    BY <2>2, StatusFacts DEF Timeout
  <2>3. CASE k = j /\ ~Timeout(k)
    <3>1. ~Launch(j)
      BY DEF Launch
    <3>2. PICK kinds \in Seq(Kinds) : Moves(j, kinds)
      BY <1>1, <2>3, <3>1, JobMoves DEF JobAction
    <3> QED
      BY <3>2 DEF Moves
  <2> QED
    BY <2>1, <2>2, <2>3
<1>2. ASSUME NEW s \in Streams, ClientStep(s)
      PROVE  status[j] \in Terminal
  <2>1. Cleanup(s)
    BY <1>2 DEF ClientStep, ClientSubscribes, Subscribe, Yield, PollTimeout, Disconnect
  <2>2. streams[s].pc = "ended" /\ status' = [status EXCEPT ![streams[s].job] = "absent"]
    BY <2>1 DEF Cleanup, DeleteJob
  <2>3. streams[s].job = j
    BY <2>2 DEF TypeOK
  <2>4. status[j] \in Over
    BY <2>2, <2>3 DEF OnTime, ClosedInTime
  <2> QED
    BY <2>4 DEF Over
<1>3. ASSUME \/ \E k \in Jobs : ReadReport(k) \/ FinalizeOrphan(k)
             \/ RunTick \/ UNCHANGED allVars
      PROVE  FALSE
  BY <1>3 DEF ReadReport, FinalizeOrphan, RunTick, Tick, allVars, vars
<1>4. ASSUME SchedulerStarts \/ \E k \in Jobs : Drop(k)
      PROVE  FALSE
  <2>1. Survives(j)
    BY <1>4, SchedulerFacts, DropFacts DEF OwnTypeOK
  <2> QED
    BY <2>1 DEF Survives
<1> QED
  BY <1>1, <1>2, <1>3, <1>4 DEF RunNext, JobAction

LEMMA ScheduledDeletedStep ==
  ASSUME StoreAndTypes, DecidedInv, [RunNext]_allVars,
         NEW j \in Jobs, run[j].scheduled, status[j] # "absent", status'[j] = "absent"
  PROVE  status[j] \in Terminal \/ Excused(j) \/ SchedulerStarts
<1> USE DEF StoreAndTypes
<1>1. ASSUME NEW k \in Jobs, JobAction(k)
      PROVE  FALSE
  <2>1. CASE k # j
    <3>1. PICK kinds \in Seq(Kinds) : Aside(k)
      BY <1>1, JobTouches DEF JobAction
    <3> QED
      BY <2>1, <3>1 DEF Aside
  <2>2. CASE k = j
    BY <1>1, <2>2, JobKeepsEntry
  <2> QED
    BY <2>1, <2>2
<1>2. ASSUME NEW s \in Streams, ClientStep(s)
      PROVE  FALSE
  <2>1. Cleanup(s)
    BY <1>2 DEF ClientStep, ClientSubscribes, Subscribe, Yield, PollTimeout, Disconnect
  <2>2. status' = [status EXCEPT ![streams[s].job] = "absent"]
    BY <2>1 DEF Cleanup, DeleteJob
  <2>3. streams[s].job = j
    BY <2>2 DEF TypeOK
  <2> QED
    BY <1>2, <2>3, ApiStreams
<1>3. ASSUME \/ \E k \in Jobs : ReadReport(k) \/ FinalizeOrphan(k)
             \/ RunTick \/ UNCHANGED allVars
      PROVE  FALSE
  BY <1>3 DEF ReadReport, FinalizeOrphan, RunTick, Tick, allVars, vars
<1>4. ASSUME Restart
      PROVE  FALSE
  <2>1. Survives(j)
    BY <1>4, RestartFacts DEF OwnTypeOK
  <2> QED
    BY <2>1 DEF Survives
<1>5. ASSUME NEW k \in Jobs, Drop(k)
      PROVE  status[j] \in Terminal \/ Excused(j)
  <2>1. k = j /\ (run[j].pc = "done" \/ run[j].timedOut)
    BY <1>5, DropFacts DEF OwnTypeOK, Survives
  <2>2. CASE run[j].pc = "done"
    BY <2>2 DEF DecidedInv, ScheduledInv, Over
  <2> QED
    BY <2>1, <2>2 DEF Excused
<1> QED
  BY <1>1, <1>2, <1>3, <1>4, <1>5 DEF RunNext, JobAction

(* The 60 s cleanup of a stream never takes the entry of a job that is      *)
(* still working towards its result (job_store.py:154-167): a running job   *)
(* loses its entry when its own timeout is past, when one of its own        *)
(* clients has left, or with the process, whatever befalls other jobs.      *)
THEOREM DeletionWaits == RunSpec => DeletionsHaveAReason
<1>1. RunInit => StoreAndTypes /\ OnTimeInv /\ DecidedInv
  BY JobsInit, DecidedInit
<1>2. StoreAndTypes /\ OnTimeInv /\ DecidedInv /\ [RunNext]_allVars
        => StoreAndTypes' /\ OnTimeInv' /\ DecidedInv'
  BY StoreAndTypesKept, OnTimeKept, DecidedKept DEF StoreAndTypes
<1>3. StoreAndTypes /\ OnTimeInv /\ DecidedInv /\ [RunNext]_allVars
        => [\A j \in Jobs : status[j] # "absent" /\ status'[j] = "absent" =>
              status[j] \in Terminal \/ Excused(j) \/ Restart \/ SchedulerStarts]_allVars
  BY ApiDeletedStep, ScheduledDeletedStep
<1> QED
  BY <1>1, <1>2, <1>3, PTL DEF RunSpec, DeletionsHaveAReason

LEMMA OrphanStep ==
  ASSUME StoreAndTypes, OnTimeInv, [RunNext]_allVars,
         NEW j \in Jobs, reading[j], ~reading'[j], report'[j] # report[j]
  PROVE  run[j].pc \in {"failing", "failed", "done"} \/ Excused(j) \/ run[j].scheduled
<1> SUFFICES ASSUME OnTime(j), ~run[j].scheduled PROVE run[j].pc \in {"failing", "failed", "done"}
  BY DEF OnTimeInv
<1> USE DEF StoreAndTypes
<1>1. \A k \in Jobs : ~JobAction(k)
  BY ReportFacts
<1>2. ~(\E s \in Streams : ClientStep(s)) /\ ~SchedulerStarts /\ ~Restart /\ ~RunTick
      /\ ~UNCHANGED allVars /\ ~\E k \in Jobs : ReadReport(k) \/ Drop(k)
  BY DEF ClientStep, SchedulerStarts, Restart, RunTick, ReadReport, Drop, runVars, allVars
<1>3. PICK k \in Jobs : FinalizeOrphan(k)
  BY <1>1, <1>2 DEF RunNext, JobAction
<1>4. status[j] = "absent"
  BY <1>3 DEF FinalizeOrphan, KnownToApi, OwnTypeOK
<1>5. run[j].pc \notin Early
  BY DEF EarlyInv
<1> QED
  BY <1>4, <1>5 DEF OnTime, ClosedInTime, Closing

(* The report of an API job is an orphan only when no coroutine completes it *)
(* any more (reports.py:104-105 against main.py:1501-1531): the entry of a  *)
(* running job is not missing unless its timeout is past or one of its own  *)
(* clients has left, whatever fails and whatever other jobs do.             *)
THEOREM OrphansAreDead == RunSpec => OnlyDeadRunsAreOrphans
<1>1. RunInit => StoreAndTypes /\ OnTimeInv
  BY JobsInit
<1>2. StoreAndTypes /\ OnTimeInv /\ [RunNext]_allVars => StoreAndTypes' /\ OnTimeInv'
  BY StoreAndTypesKept, OnTimeKept DEF StoreAndTypes
<1>3. StoreAndTypes /\ OnTimeInv /\ [RunNext]_allVars
        => [\A j \in Jobs : reading[j] /\ ~reading'[j] /\ report'[j] # report[j] =>
              run[j].pc \in {"failing", "failed", "done"} \/ Excused(j) \/ run[j].scheduled]_allVars
  BY OrphanStep
<1> QED
  BY <1>1, <1>2, <1>3, PTL DEF RunSpec, OnlyDeadRunsAreOrphans

-----------------------------------------------------------------------------
(* A coroutine that is over has left a verdict in the store, or the entry   *)
(* is gone: also the abandoned coroutine of a timed out job, which sets the *)
(* status back to running, ends with a status of its own.  The one hole is  *)
(* an exception of the configuration, raised outside the try block of       *)
(* _run_job_inner (main.py:1521-1533, 1562): its job keeps "pending".       *)
THEOREM JobsAreDecided == RunSpec => []EndedJobsAreDecided
<1>1. RunInit => DecidedInv
  BY DecidedInit
<1>2. StoreAndTypes /\ DecidedInv /\ [RunNext]_allVars => StoreAndTypes' /\ DecidedInv'
  BY StoreAndTypesKept, DecidedKept
<1>3. DecidedInv => EndedJobsAreDecided
  BY DEF DecidedInv, EndedJobsAreDecided, Over
<1> QED
  BY <1>1, <1>2, <1>3, JobsInit, PTL DEF RunSpec

=============================================================================
