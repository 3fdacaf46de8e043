---------------------------- MODULE ServicesProofs ----------------------------
(***************************************************************************)
(* Proofs about the services around the analyses: messages, backtests, the *)
(* data and the scores of the chip analysis and the table of stock names.  *)
(* The components share no state; each part stands by itself.              *)
(***************************************************************************)
EXTENDS Notifications, Backtests, ChipFetch, StockMapCache, ChipScores,
        FiniteSetTheorems, WellFoundedInduction, TLAPS

-----------------------------------------------------------------------------
(* Messages.  Each state of a task bounds what may have arrived.            *)

TaskBooks(n, c) ==
  LET task  == messages[n][c]
      count == delivered[n][c]
  IN  /\ task.pc = "none" => count = 0
      /\ task.pc = "first" => count = 0 /\ ~task.unclear
      /\ task.pc \in {"pause", "retry"} => count <= 1 /\ (count = 1 => task.unclear)
      /\ task.pc = "sent" => count >= 1
      /\ task.pc = "raised" => c = "email"
      /\ task.pc = "lost" => restarted
      /\ count > 1 => task.unclear

NoticesInductive == NoticeTypeOK /\ \A n \in Notices, c \in Channels : TaskBooks(n, c)

LEMMA NoticeInitCorrect == ASSUME NoticeInit PROVE NoticesInductive
<1>1. NoticeTypeOK
  <2>1. [pc |-> "none", unclear |-> FALSE] \in Fate
    BY DEF Fate
  <2>2. messages \in [Notices -> [Channels -> Fate]] /\ delivered \in [Notices -> [Channels -> 0 .. 2]]
    BY <2>1 DEF NoticeInit
  <2>3. settings \in [Channels -> BOOLEAN] /\ changes = 0 /\ restarted = FALSE
    BY DEF NoticeInit
  <2>4. changes \in 0 .. MaxChanges
    BY <2>3, NoticesAssumption
  <2> QED
    BY <2>2, <2>3, <2>4 DEF NoticeTypeOK
<1>2. ASSUME NEW n \in Notices, NEW c \in Channels PROVE TaskBooks(n, c)
  <2>1. messages[n][c] = [pc |-> "none", unclear |-> FALSE] /\ delivered[n][c] = 0
    BY DEF NoticeInit
  <2> QED
    BY <2>1 DEF TaskBooks
<1> QED
  BY <1>1, <1>2 DEF NoticesInductive

LEMMA TaskFields ==
  ASSUME NoticesInductive, NEW n \in Notices, NEW c \in Channels
  PROVE  /\ messages[n][c] = [pc |-> messages[n][c].pc, unclear |-> messages[n][c].unclear]
         /\ messages[n][c].unclear \in BOOLEAN /\ delivered[n][c] \in 0 .. 2
         /\ TaskBooks(n, c)
<1>1. messages[n][c] \in Fate
  BY DEF NoticesInductive, NoticeTypeOK
<1> QED
  BY <1>1 DEF NoticesInductive, NoticeTypeOK, Fate

LEMMA SendStep ==
  ASSUME NoticesInductive, NEW n \in Notices, NEW c \in Channels, Send(n, c)
  PROVE  NoticesInductive'
<1>1. PICK a \in Attempts(c) :
        /\ messages' = [messages EXCEPT ![n][c] =
             [pc |-> CASE a.ok -> "sent"
                       [] a.raised -> "raised"
                       [] OTHER -> IF @.pc = "first" THEN "pause" ELSE "failed",
              unclear |-> @.unclear \/ (~a.ok /\ a.arrived)]]
        /\ delivered' = [delivered EXCEPT ![n][c] = @ + (IF a.arrived THEN 1 ELSE 0)]
  BY DEF Send
<1> DEFINE old  == messages[n][c]
           task == [pc |-> CASE a.ok -> "sent"
                             [] a.raised -> "raised"
                             [] OTHER -> IF old.pc = "first" THEN "pause" ELSE "failed",
                    unclear |-> old.unclear \/ (~a.ok /\ a.arrived)]
           count == delivered[n][c] + (IF a.arrived THEN 1 ELSE 0)
<1>2. /\ messages \in [Notices -> [Channels -> Fate]] /\ delivered \in [Notices -> [Channels -> 0 .. 2]]
      /\ old.pc \in {"first", "retry"} /\ UNCHANGED <<settings, changes, restarted>>
  BY DEF Send, NoticesInductive, NoticeTypeOK
<1>3. /\ old.unclear \in BOOLEAN /\ delivered[n][c] \in 0 .. 2 /\ TaskBooks(n, c)
  BY TaskFields
<1>4. /\ a.ok \in BOOLEAN /\ a.arrived \in BOOLEAN /\ a.raised \in BOOLEAN
      /\ a.ok => a.arrived
      /\ a.raised => c = "email" /\ ~a.arrived
  <2> DEFINE Caught == {[ok |-> TRUE, arrived |-> TRUE, raised |-> FALSE],
                        [ok |-> FALSE, arrived |-> TRUE, raised |-> FALSE],
                        [ok |-> FALSE, arrived |-> FALSE, raised |-> FALSE]}
             Raised == [ok |-> FALSE, arrived |-> FALSE, raised |-> TRUE]
  <2>1. a \in Caught \/ (c = "email" /\ a = Raised)
    <3>1. CASE c = "email"
      <4>1. a \in Caught \cup {Raised}
        BY <3>1 DEF Attempts
      <4> QED
        BY <3>1, <4>1
    <3>2. CASE c # "email"
      BY <3>2 DEF Attempts
    <3> QED
      BY <3>1, <3>2
  <2>2. ASSUME a \in Caught
        PROVE  a.ok \in BOOLEAN /\ a.arrived \in BOOLEAN /\ a.raised = FALSE /\ (a.ok => a.arrived)
    <3>1. CASE a = [ok |-> TRUE, arrived |-> TRUE, raised |-> FALSE]
      BY <3>1
    <3>2. CASE a = [ok |-> FALSE, arrived |-> TRUE, raised |-> FALSE]
      BY <3>2
    <3>3. CASE a = [ok |-> FALSE, arrived |-> FALSE, raised |-> FALSE]
      BY <3>3
    <3> QED
      BY <2>2, <3>1, <3>2, <3>3
  <2>3. a = Raised => a.ok = FALSE /\ a.arrived = FALSE /\ a.raised = TRUE
    OBVIOUS
  <2> HIDE DEF Caught, Raised
  <2> QED
    BY <2>1, <2>2, <2>3
<1>5. /\ old.pc = "first" => delivered[n][c] = 0 /\ ~old.unclear
      /\ old.pc = "retry" => delivered[n][c] <= 1 /\ (delivered[n][c] = 1 => old.unclear)
  BY <1>3 DEF TaskBooks
<1>6. count \in 0 .. 2 /\ (a.ok => count >= 1) /\ (old.pc = "first" => count <= 1)
  <2>1. (IF a.arrived THEN 1 ELSE 0) \in {0, 1} /\ (a.ok => (IF a.arrived THEN 1 ELSE 0) = 1)
    BY <1>4
  <2>2. delivered[n][c] \in 0 .. 1 /\ (old.pc = "first" => delivered[n][c] = 0)
    BY <1>2, <1>3, <1>5
  <2> QED
    BY <2>1, <2>2
<1>7. /\ count > 1 => task.unclear
      /\ task.pc = "pause" /\ count = 1 => task.unclear
  <2>1. count > 1 => old.pc = "retry" /\ delivered[n][c] = 1
    BY <1>2, <1>3, <1>4, <1>5
  <2>2. count > 1 => old.unclear
    BY <2>1, <1>5
  <2>3. task.pc = "pause" => old.pc = "first" /\ ~a.ok
    BY <1>4
  <2>4. old.pc = "first" /\ count = 1 => a.arrived
    BY <1>3, <1>4, <1>5
  <2> QED
    BY <2>2, <2>3, <2>4, <1>3, <1>4
<1>8. /\ task.pc \in {"sent", "raised", "pause", "failed"} /\ task.unclear \in BOOLEAN
      /\ task.pc = "sent" => a.ok
      /\ task.pc = "raised" => c = "email"
      /\ task.pc = "pause" => old.pc = "first"
  BY <1>2, <1>4
<1>9. task \in Fate
  BY <1>8 DEF Fate
<1> HIDE DEF task, count
<1>10. /\ messages' = [messages EXCEPT ![n] = [messages[n] EXCEPT ![c] = task]]
       /\ delivered' = [delivered EXCEPT ![n] = [delivered[n] EXCEPT ![c] = count]]
  BY <1>1, <1>2 DEF task, count
<1>11. NoticeTypeOK'
  BY <1>2, <1>6, <1>9, <1>10 DEF NoticeTypeOK, NoticesInductive
<1>12. messages'[n][c] = task /\ delivered'[n][c] = count
  BY <1>2, <1>10
<1>13. ASSUME NEW m \in Notices, NEW d \in Channels PROVE TaskBooks(m, d)'
  <2>0. TaskBooks(m, d)
    BY TaskFields
  <2>1. CASE m = n /\ d = c
    <3>1. task.pc \notin {"none", "first", "retry", "lost"}
      BY <1>8
    <3> QED
      BY <2>1, <3>1, <1>6, <1>7, <1>8, <1>12 DEF TaskBooks
  <2>2. CASE ~(m = n /\ d = c)
    <3>1. messages'[m][d] = messages[m][d] /\ delivered'[m][d] = delivered[m][d]
      BY <2>2, <1>2, <1>10
    <3> QED
      BY <2>0, <3>1, <1>2 DEF TaskBooks
  <2> QED
    BY <2>1, <2>2
<1> QED
  BY <1>11, <1>13 DEF NoticesInductive

LEMMA ReadyStep ==
  ASSUME NoticesInductive, NEW n \in Notices, ReportReady(n)
  PROVE  NoticesInductive'
<1>1. NoticeTypeOK'
  BY DEF ReportReady, NoticesInductive, NoticeTypeOK, Fate
<1>2. ASSUME NEW m \in Notices, NEW d \in Channels PROVE TaskBooks(m, d)'
  <2>1. /\ TaskBooks(m, d) /\ UNCHANGED <<delivered, restarted>>
        /\ messages \in [Notices -> [Channels -> Fate]]
    BY TaskFields DEF ReportReady, NoticesInductive, NoticeTypeOK
  <2>2. CASE m = n
    <3>1. messages[m][d].pc = "none"
      BY <2>2 DEF ReportReady
    <3>2. delivered[m][d] = 0
      BY <2>1, <3>1 DEF TaskBooks
    <3>3. \/ messages'[m][d] = [pc |-> "first", unclear |-> FALSE]
          \/ messages'[m][d] = messages[m][d]
      BY <2>1, <2>2 DEF ReportReady
    <3> QED
      BY <2>1, <3>2, <3>3 DEF TaskBooks
  <2>3. CASE m # n
    <3>1. messages'[m] = messages[m]
      BY <2>1, <2>3 DEF ReportReady
    <3> QED
      BY <2>1, <3>1 DEF TaskBooks
  <2> QED
    BY <2>2, <2>3
<1> QED
  BY <1>1, <1>2 DEF NoticesInductive

LEMMA PauseStep ==
  ASSUME NoticesInductive, NEW n \in Notices, NEW c \in Channels, PauseEnds(n, c)
  PROVE  NoticesInductive'
<1> DEFINE task == [messages[n][c] EXCEPT !.pc = "retry"]
<1>1. /\ messages \in [Notices -> [Channels -> Fate]] /\ messages[n][c].pc = "pause"
      /\ UNCHANGED <<settings, changes, delivered, restarted>>
      /\ messages' = [messages EXCEPT ![n] = [messages[n] EXCEPT ![c] = task]]
  BY DEF PauseEnds, NoticesInductive, NoticeTypeOK
<1>2. task.pc = "retry" /\ task.unclear = messages[n][c].unclear /\ task \in Fate
  BY <1>1 DEF Fate
<1> HIDE DEF task
<1>3. NoticeTypeOK'
  BY <1>1, <1>2 DEF NoticeTypeOK, NoticesInductive
<1>4. ASSUME NEW m \in Notices, NEW d \in Channels PROVE TaskBooks(m, d)'
  <2>1. TaskBooks(m, d)
    BY TaskFields
  <2>2. CASE m = n /\ d = c
    <3>1. messages'[m][d] = task
      BY <2>2, <1>1
    <3> QED
      BY <2>1, <2>2, <3>1, <1>1, <1>2 DEF TaskBooks
  <2>3. CASE ~(m = n /\ d = c)
    <3>1. messages'[m][d] = messages[m][d]
      BY <2>3, <1>1
    <3> QED
      BY <2>1, <3>1, <1>1 DEF TaskBooks
  <2> QED
    BY <2>2, <2>3
<1> QED
  BY <1>3, <1>4 DEF NoticesInductive

LEMMA EndStep == ASSUME NoticesInductive, SchedulerEnds PROVE NoticesInductive'
<1>1. /\ messages \in [Notices -> [Channels -> Fate]] /\ restarted' = TRUE /\ delivered' = delivered
  BY DEF SchedulerEnds, NoticesInductive, NoticeTypeOK
<1>2. ASSUME NEW m \in Notices, NEW d \in Channels
      PROVE  /\ messages'[m][d].unclear = messages[m][d].unclear /\ messages'[m][d] \in Fate
             /\ messages'[m][d].pc = messages[m][d].pc \/ messages'[m][d].pc = "lost"
  BY <1>1 DEF SchedulerEnds, Fate
<1>3. NoticeTypeOK'
  <2>1. messages' \in [Notices -> [Channels -> Fate]]
    BY <1>2 DEF SchedulerEnds
  <2> QED
    BY <2>1 DEF SchedulerEnds, NoticesInductive, NoticeTypeOK
<1>4. ASSUME NEW m \in Notices, NEW d \in Channels PROVE TaskBooks(m, d)'
  <2>1. TaskBooks(m, d)
    BY TaskFields
  <2> QED
    BY <2>1, <1>1, <1>2 DEF TaskBooks
<1> QED
  BY <1>3, <1>4 DEF NoticesInductive

LEMMA NoticeStep == ASSUME NoticesInductive, [NoticeNext]_noticeVars PROVE NoticesInductive'
<1>1. ASSUME UNCHANGED <<messages, delivered, restarted>>, NoticeTypeOK' PROVE NoticesInductive'
  BY <1>1 DEF NoticesInductive, TaskBooks
<1>2. ASSUME NEW c \in Channels, ChangeSettings(c) PROVE NoticesInductive'
  <2>1. NoticeTypeOK'
    BY <1>2, NoticesAssumption DEF ChangeSettings, NoticesInductive, NoticeTypeOK
  <2> QED
    BY <1>1, <1>2, <2>1 DEF ChangeSettings
<1>3. CASE UNCHANGED noticeVars
  BY <1>1, <1>3 DEF noticeVars, NoticesInductive, NoticeTypeOK
<1> QED
  BY <1>2, <1>3, SendStep, ReadyStep, PauseStep, EndStep DEF NoticeNext

LEMMA OnceInInductive == ASSUME NoticesInductive PROVE OnceUnlessExcused
<1> SUFFICES ASSUME NEW n \in Notices, NEW c \in Channels
    PROVE LET task == messages[n][c]
          IN  /\ delivered[n][c] > 1 => task.unclear
              /\ delivered[n][c] = 0 =>
                   \/ task.pc \in {"none", "first", "pause", "retry", "failed"}
                   \/ task.pc = "raised" /\ c = "email"
                   \/ task.pc = "lost" /\ restarted
  BY DEF OnceUnlessExcused
<1>1. messages[n][c].pc \in {"none", "first", "pause", "retry", "sent", "failed", "raised", "lost"}
  BY DEF NoticesInductive, NoticeTypeOK, Fate
<1>2. delivered[n][c] \in 0 .. 2 /\ TaskBooks(n, c)
  BY TaskFields
<1> QED
  BY <1>1, <1>2 DEF TaskBooks

(* A report reaches a user at most twice on a channel, twice only after an  *)
(* unclear answer, and not at all only for a reason.                        *)
THEOREM MessagesArriveOnce == NoticeSpec => []OnceUnlessExcused
<1>1. NoticesInductive /\ [NoticeNext]_noticeVars => NoticesInductive'
  BY NoticeStep
<1> QED
  BY <1>1, NoticeInitCorrect, OnceInInductive, PTL DEF NoticeSpec

-----------------------------------------------------------------------------
(* Backtests.  While it is whole, a job agrees with its thread; it ceases   *)
(* to be whole only when it is deleted.                                     *)

BacktestJob == [present : BOOLEAN, whole : BOOLEAN, status : {"none", "pending", "running", "completed"},
                total : Nat, done : Nat, wins : Nat]
BacktestRecord == [action : {"BUY", "SELL", "HOLD"}, return : Int]
BacktestThread == [pc : {"none", "start", "dates", "days", "finished", "dead"}, due : Nat,
                   records : Seq(BacktestRecord)]

BacktestTypeOK == table \in [Backtesters -> BacktestJob] /\ threads \in [Backtesters -> BacktestThread]

JobFollowsThread(job, thread) ==
  /\ thread.pc \in {"start", "dates", "dead"} => job.total = 0 /\ job.done = 0
  /\ thread.pc \in {"start", "dates"} => thread.records = <<>>
  /\ thread.pc = "days" => job.done = Len(thread.records) /\ job.total = thread.due + Len(thread.records)
  /\ thread.pc = "finished" => job.done = job.total
  /\ job.status = "completed" => thread.pc = "finished"

BacktestBooks(b) ==
  /\ threads[b].pc = "none" => ~table[b].present /\ ~table[b].whole /\ threads[b].records = <<>>
  /\ threads[b].pc # "none" /\ b \notin removed => table[b].whole
  /\ table[b].whole => JobFollowsThread(table[b], threads[b])

BacktestInductive == BacktestTypeOK /\ \A b \in Backtesters : BacktestBooks(b)

\* A step of one backtest leaves the others alone.
LEMMA OneBacktestChanges ==
  ASSUME BacktestInductive, NEW b \in Backtesters, NEW job \in BacktestJob, NEW thread \in BacktestThread,
         table' = [table EXCEPT ![b] = job], threads' = [threads EXCEPT ![b] = thread],
         removed \subseteq removed',
         thread.pc = "none" => ~job.present /\ ~job.whole /\ thread.records = <<>>,
         thread.pc # "none" /\ b \notin removed' => job.whole,
         job.whole => JobFollowsThread(job, thread)
  PROVE  BacktestInductive'
<1>1. BacktestTypeOK /\ \A x \in Backtesters : BacktestBooks(x)
  BY DEF BacktestInductive
<1>2. BacktestTypeOK'
  BY <1>1 DEF BacktestTypeOK
<1>3. ASSUME NEW x \in Backtesters PROVE BacktestBooks(x)'
  <2>1. CASE x = b
    <3>1. table'[x] = job /\ threads'[x] = thread
      BY <2>1, <1>1 DEF BacktestTypeOK
    <3> QED
      BY <2>1, <3>1 DEF BacktestBooks
  <2>2. CASE x # b
    <3>1. table'[x] = table[x] /\ threads'[x] = threads[x]
      BY <2>2, <1>1 DEF BacktestTypeOK
    <3> QED
      BY <1>1, <3>1 DEF BacktestBooks
  <2> QED
    BY <2>1, <2>2
<1> QED
  BY <1>2, <1>3 DEF BacktestInductive

LEMMA BacktestInitCorrect == ASSUME BacktestInit PROVE BacktestInductive
<1>1. NoJob \in BacktestJob /\ [pc |-> "none", due |-> 0, records |-> <<>>] \in BacktestThread
  BY DEF NoJob, BacktestJob, BacktestThread, Missing
<1>2. BacktestTypeOK
  BY <1>1 DEF BacktestInit, BacktestTypeOK
<1>3. ASSUME NEW b \in Backtesters PROVE BacktestBooks(b)
  <2>1. table[b] = NoJob /\ threads[b] = [pc |-> "none", due |-> 0, records |-> <<>>]
    BY DEF BacktestInit
  <2> QED
    BY <2>1 DEF BacktestBooks, NoJob
<1> QED
  BY <1>2, <1>3 DEF BacktestInductive

LEMMA BacktestFields ==
  ASSUME BacktestInductive, NEW b \in Backtesters
  PROVE  table[b] \in BacktestJob /\ threads[b] \in BacktestThread /\ BacktestBooks(b)
  BY DEF BacktestInductive, BacktestTypeOK

\* submit stores the job and starts its thread; deleting takes the job away.
LEMMA SubmitDeleteStep ==
  ASSUME BacktestInductive, NEW b \in Backtesters, SubmitBacktest(b) \/ DeleteBacktest(b)
  PROVE  BacktestInductive'
<1>1. table[b] \in BacktestJob /\ threads[b] \in BacktestThread /\ BacktestBooks(b)
  BY BacktestFields
<1>2. CASE SubmitBacktest(b)
  <2> DEFINE job    == [NoJob EXCEPT !.present = TRUE, !.whole = TRUE, !.status = "pending"]
             thread == [threads[b] EXCEPT !.pc = "start"]
  <2>1. /\ table' = [table EXCEPT ![b] = job] /\ threads' = [threads EXCEPT ![b] = thread]
        /\ removed' = removed /\ threads[b].pc = "none"
    BY <1>2 DEF SubmitBacktest, BacktestInductive, BacktestTypeOK
  <2>2. /\ job \in BacktestJob /\ job.whole /\ job.total = 0 /\ job.done = 0 /\ job.status = "pending"
    BY DEF NoJob, BacktestJob, Missing
  <2>3. thread \in BacktestThread /\ thread.pc = "start" /\ thread.records = <<>>
    BY <1>1, <2>1 DEF BacktestThread, BacktestBooks
  <2>4. JobFollowsThread(job, thread)
    BY <2>2, <2>3 DEF JobFollowsThread
  <2> HIDE DEF job, thread
  <2> QED
    BY <2>1, <2>2, <2>3, <2>4, OneBacktestChanges
<1>3. CASE DeleteBacktest(b)
  <2> DEFINE thread == threads[b]
  <2>1. /\ table' = [table EXCEPT ![b] = NoJob] /\ threads' = [threads EXCEPT ![b] = thread]
        /\ removed' = removed \cup {b} /\ table[b].present
    BY <1>3 DEF DeleteBacktest, BacktestInductive, BacktestTypeOK
  <2>2. NoJob \in BacktestJob /\ ~NoJob.whole /\ ~NoJob.present
    BY DEF NoJob, BacktestJob, Missing
  <2>3. thread.pc # "none"
    BY <1>1, <2>1 DEF BacktestBooks
  <2>4. thread \in BacktestThread
    BY <1>1
  <2> HIDE DEF thread
  <2> QED
    BY <2>1, <2>2, <2>3, <2>4, OneBacktestChanges
<1> QED
  BY <1>2, <1>3

LEMMA StartBacktestStep ==
  ASSUME BacktestInductive, NEW b \in Backtesters, StartBacktest(b) PROVE BacktestInductive'
<1> DEFINE job    == [table[b] EXCEPT !.present = TRUE, !.status = "running"]
           thread == [threads[b] EXCEPT !.pc = "dates"]
<1>1. /\ table[b] \in BacktestJob /\ threads[b] \in BacktestThread /\ BacktestBooks(b)
      /\ threads[b].pc = "start"
  BY BacktestFields DEF StartBacktest
<1>2. /\ table' = [table EXCEPT ![b] = job] /\ threads' = [threads EXCEPT ![b] = thread]
      /\ removed' = removed
  BY DEF StartBacktest, BacktestInductive, BacktestTypeOK
<1>3. /\ job \in BacktestJob /\ job.whole = table[b].whole /\ job.total = table[b].total
      /\ job.done = table[b].done /\ job.status = "running"
  BY <1>1 DEF BacktestJob
<1>4. thread \in BacktestThread /\ thread.pc = "dates" /\ thread.records = threads[b].records
  BY <1>1 DEF BacktestThread
<1> HIDE DEF job, thread
<1>5. job.whole => JobFollowsThread(job, thread)
  BY <1>1, <1>3, <1>4 DEF BacktestBooks, JobFollowsThread
<1>6. b \notin removed => job.whole
  BY <1>1, <1>3 DEF BacktestBooks
<1> QED
  BY <1>2, <1>3, <1>4, <1>5, <1>6, OneBacktestChanges

LEMMA SampleStep ==
  ASSUME BacktestInductive, NEW b \in Backtesters, NEW start \in 0 .. Days - 1, NEW end \in 0 .. Days - 1,
         NEW interval \in Intervals, SampleDays(b, start, end, interval)
  PROVE  BacktestInductive'
<1> DEFINE total == Cardinality(SampledDays(start, end, interval))
<1>1. /\ table[b] \in BacktestJob /\ threads[b] \in BacktestThread /\ BacktestBooks(b)
      /\ threads[b].pc = "dates" /\ removed' = removed
  BY BacktestFields DEF SampleDays
<1>2. b \notin removed => table[b].whole
  BY <1>1 DEF BacktestBooks
<1>3. total \in Nat
  <2>1. IsFiniteSet(start .. end)
    BY BacktestAssumption, FS_Interval
  <2>2. SampledDays(start, end, interval) \subseteq start .. end
    BY DEF SampledDays
  <2> QED
    BY <2>1, <2>2, FS_Subset, FS_CardinalityType
<1>4. \/ /\ table' = [table EXCEPT ![b].present = TRUE, ![b].total = total, ![b].done = 0]
         /\ threads' = [threads EXCEPT ![b].pc = "days", ![b].due = total]
      \/ /\ threads' = [threads EXCEPT ![b].pc = "dead"]
         /\ UNCHANGED table
  BY DEF SampleDays
<1> HIDE DEF total
<1>5. CASE /\ table' = [table EXCEPT ![b].present = TRUE, ![b].total = total, ![b].done = 0]
           /\ threads' = [threads EXCEPT ![b].pc = "days", ![b].due = total]
  <2> DEFINE job    == [table[b] EXCEPT !.present = TRUE, !.total = total, !.done = 0]
             thread == [threads[b] EXCEPT !.pc = "days", !.due = total]
  <2>1. table' = [table EXCEPT ![b] = job] /\ threads' = [threads EXCEPT ![b] = thread]
    BY <1>5 DEF BacktestInductive, BacktestTypeOK
  <2>2. /\ job \in BacktestJob /\ job.whole = table[b].whole /\ job.total = total
        /\ job.done = 0 /\ job.status = table[b].status
    BY <1>1, <1>3 DEF BacktestJob
  <2>3. /\ thread \in BacktestThread /\ thread.pc = "days" /\ thread.due = total
        /\ thread.records = threads[b].records
    BY <1>1, <1>3 DEF BacktestThread
  <2> HIDE DEF job, thread
  <2>4. job.whole => JobFollowsThread(job, thread)
    <3> SUFFICES ASSUME job.whole PROVE JobFollowsThread(job, thread)
      OBVIOUS
    <3>1. threads[b].records = <<>> /\ table[b].status # "completed"
      BY <1>1, <2>2 DEF BacktestBooks, JobFollowsThread
    <3>2. Len(thread.records) = 0
      BY <3>1, <2>3
    <3> QED
      BY <3>1, <3>2, <2>2, <2>3, <1>3 DEF JobFollowsThread
  <2> QED
    BY <1>1, <1>2, <2>1, <2>2, <2>3, <2>4, OneBacktestChanges
<1>6. CASE threads' = [threads EXCEPT ![b].pc = "dead"] /\ UNCHANGED table
  <2> DEFINE job    == table[b]
             thread == [threads[b] EXCEPT !.pc = "dead"]
  <2>1. table' = [table EXCEPT ![b] = job] /\ threads' = [threads EXCEPT ![b] = thread]
    BY <1>6 DEF BacktestInductive, BacktestTypeOK
  <2>2. thread \in BacktestThread /\ thread.pc = "dead"
    BY <1>1 DEF BacktestThread
  <2> HIDE DEF thread
  <2>3. job.whole => JobFollowsThread(job, thread)
    BY <1>1, <2>2 DEF BacktestBooks, JobFollowsThread
  <2> HIDE DEF job
  <2>4. job = table[b]
    BY DEF job
  <2> QED
    BY <1>1, <1>2, <2>1, <2>2, <2>3, <2>4, OneBacktestChanges
<1> QED
  BY <1>4, <1>5, <1>6

\* One more record, one day less.
LEMMA AnalyseStep ==
  ASSUME BacktestInductive, NEW b \in Backtesters, NEW action \in {"BUY", "SELL", "HOLD"},
         NEW move \in {-1, 0, 1}, NEW rows \in 0 .. MaxPrices, NEW hold \in Holds,
         AnalyseDay(b, action, move, rows, hold)
  PROVE  BacktestInductive'
<1> DEFINE return == IF action = "HOLD" \/ ExitRow(rows, hold) = 0 THEN Missing ELSE Returned(action, move)
           record == [action |-> action, return |-> return]
           more   == Append(threads[b].records, record)
           left   == threads[b].due - 1
           thread == [threads[b] EXCEPT !.due = left, !.records = more]
           count  == Len(thread.records)
           job    == [table[b] EXCEPT !.present = TRUE, !.done = count]
<1>1. /\ table[b] \in BacktestJob /\ threads[b] \in BacktestThread /\ BacktestBooks(b)
      /\ threads[b].pc = "days" /\ threads[b].due > 0 /\ removed' = removed
      /\ threads \in [Backtesters -> BacktestThread] /\ table \in [Backtesters -> BacktestJob]
  BY BacktestFields DEF AnalyseDay, BacktestInductive, BacktestTypeOK
<1>2. return \in Int
  BY DEF Missing, Returned
<1>3. threads' = [threads EXCEPT ![b].due = @ - 1, ![b].records = Append(@, record)]
  BY DEF AnalyseDay
<1>4. table' = [table EXCEPT ![b].present = TRUE, ![b].done = Len(threads'[b].records)]
  BY DEF AnalyseDay
<1> HIDE DEF return
<1>5. record \in BacktestRecord
  BY <1>2 DEF BacktestRecord
<1> HIDE DEF record
<1>6. /\ threads[b].due \in Nat /\ threads[b].records \in Seq(BacktestRecord)
  BY <1>1 DEF BacktestThread
<1>7. /\ more \in Seq(BacktestRecord) /\ Len(more) = Len(threads[b].records) + 1
      /\ Len(threads[b].records) \in Nat /\ left \in Nat
  BY <1>1, <1>5, <1>6
<1>9. threads' = [threads EXCEPT ![b] = thread] /\ threads'[b] = thread
  BY <1>1, <1>3
<1> HIDE DEF more, left
<1>8. /\ thread \in BacktestThread /\ thread.pc = "days" /\ thread.due = left
      /\ thread.records = more
  BY <1>1, <1>7 DEF BacktestThread
<1>10. table' = [table EXCEPT ![b] = job]
  <2> HIDE DEF thread
  <2> QED
    BY <1>1, <1>4, <1>9
<1> HIDE DEF thread
<1>14. left = threads[b].due - 1
  BY DEF left
<1>15. count = Len(threads[b].records) + 1 /\ count = Len(thread.records) /\ count \in Nat
  BY <1>7, <1>8
<1> HIDE DEF count
<1>11. /\ job \in BacktestJob /\ job.whole = table[b].whole /\ job.total = table[b].total
       /\ job.done = count /\ job.status = table[b].status
  BY <1>1, <1>15 DEF BacktestJob
<1> HIDE DEF job
<1>12. job.whole => JobFollowsThread(job, thread)
  <2> SUFFICES ASSUME job.whole PROVE JobFollowsThread(job, thread)
    OBVIOUS
  <2>1. table[b].total = threads[b].due + Len(threads[b].records) /\ table[b].status # "completed"
    BY <1>1, <1>11 DEF BacktestBooks, JobFollowsThread
  <2>2. /\ job.done = Len(thread.records)
        /\ job.total = thread.due + Len(thread.records)
    BY <2>1, <1>6, <1>7, <1>8, <1>11, <1>14, <1>15
  <2> QED
    BY <2>1, <2>2, <1>8, <1>11 DEF JobFollowsThread
<1>13. b \notin removed' => job.whole
  BY <1>1, <1>11 DEF BacktestBooks
<1> QED
  BY <1>1, <1>8, <1>9, <1>10, <1>11, <1>12, <1>13, OneBacktestChanges

LEMMA FinishBacktestStep ==
  ASSUME BacktestInductive, NEW b \in Backtesters, FinishBacktest(b) PROVE BacktestInductive'
<1> DEFINE records == threads[b].records
           won     == {i \in Signalled(records) : Won(records[i])}
           wins    == IF Signalled(records) = {} THEN Missing ELSE Cardinality(won)
           job     == [table[b] EXCEPT !.present = TRUE, !.status = "completed", !.wins = wins]
           thread  == [threads[b] EXCEPT !.pc = "finished"]
<1>1. /\ table[b] \in BacktestJob /\ threads[b] \in BacktestThread /\ BacktestBooks(b)
      /\ threads[b].pc = "days" /\ threads[b].due = 0 /\ removed' = removed
  BY BacktestFields DEF FinishBacktest
<1>2. /\ table' = [table EXCEPT ![b] = job] /\ threads' = [threads EXCEPT ![b] = thread]
  BY DEF FinishBacktest, BacktestInductive, BacktestTypeOK
<1>3. Len(records) \in Nat /\ DOMAIN records = 1 .. Len(records)
  BY <1>1 DEF BacktestThread
<1>4. wins \in Nat
  <2>0. \A n \in Nat : IsFiniteSet(1 .. n)
    BY FS_Interval
  <2>1. IsFiniteSet(1 .. Len(records))
    BY <1>3, <2>0
  <2>2. won \subseteq 1 .. Len(records)
    BY <1>3 DEF Signalled
  <2>3. Cardinality(won) \in Nat
    BY <2>1, <2>2, FS_Subset, FS_CardinalityType
  <2> QED
    BY <2>3 DEF Missing
<1> HIDE DEF wins
<1>5. /\ job \in BacktestJob /\ job.whole = table[b].whole /\ job.total = table[b].total
      /\ job.done = table[b].done
  BY <1>1, <1>4 DEF BacktestJob
<1>6. thread \in BacktestThread /\ thread.pc = "finished"
  BY <1>1 DEF BacktestThread
<1> HIDE DEF job, thread
<1>7. job.whole => JobFollowsThread(job, thread)
  BY <1>1, <1>3, <1>5, <1>6 DEF BacktestBooks, JobFollowsThread
<1>8. b \notin removed => job.whole
  BY <1>1, <1>5 DEF BacktestBooks
<1> QED
  BY <1>1, <1>2, <1>5, <1>6, <1>7, <1>8, OneBacktestChanges

LEMMA BacktestStep == ASSUME BacktestInductive, [BacktestNext]_backtestVars PROVE BacktestInductive'
<1>1. CASE UNCHANGED backtestVars
  BY <1>1 DEF backtestVars, BacktestInductive, BacktestTypeOK, BacktestBooks
<1> QED
  BY <1>1, SubmitDeleteStep, StartBacktestStep, SampleStep, AnalyseStep, FinishBacktestStep DEF BacktestNext

LEMMA BacktestInvInInductive == ASSUME BacktestInductive PROVE BacktestInv
<1> SUFFICES ASSUME NEW b \in Backtesters
    PROVE  /\ table[b].present /\ ~table[b].whole => b \in removed
           /\ table[b].whole => /\ table[b].done <= table[b].total
                                /\ table[b].status = "completed" => table[b].done = table[b].total
  BY DEF BacktestInv, GhostsWereDeleted, EveryDayIsRecorded
<1>1. table[b] \in BacktestJob /\ threads[b] \in BacktestThread /\ BacktestBooks(b)
  BY BacktestFields
<1>2. table[b].present /\ ~table[b].whole => b \in removed
  BY <1>1 DEF BacktestBooks
<1>3. ASSUME table[b].whole
      PROVE  /\ table[b].done <= table[b].total
             /\ table[b].status = "completed" => table[b].done = table[b].total
  <2>1. JobFollowsThread(table[b], threads[b]) /\ threads[b].pc # "none"
    BY <1>1, <1>3 DEF BacktestBooks
  <2>2. /\ table[b].done \in Nat /\ table[b].total \in Nat /\ threads[b].due \in Nat
        /\ Len(threads[b].records) \in Nat
        /\ threads[b].pc \in {"start", "dates", "days", "finished", "dead"}
    BY <1>1, <2>1 DEF BacktestJob, BacktestThread
  <2> QED
    BY <2>1, <2>2 DEF JobFollowsThread
<1> QED
  BY <1>2, <1>3

(* What is stored of a backtest belongs to one that exists or was deleted   *)
(* by its user, and a completed one covers every day it was to sample       *)
(* (backtest_service.py:43-48, 184-223).                                    *)
THEOREM BacktestsCorrect == BacktestSpec => []BacktestInv
<1>1. BacktestInductive /\ [BacktestNext]_backtestVars => BacktestInductive'
  BY BacktestStep
<1> QED
  BY <1>1, BacktestInitCorrect, BacktestInvInInductive, PTL DEF BacktestSpec

-----------------------------------------------------------------------------
(* The data of the chip analysis.  Upto is the newest day anybody may have  *)
(* asked the indicators for.                                                *)

ModelDays == 1 .. LastDay
Upto      == IF fetch.pc = "idle" THEN today ELSE fetch.end
Searching == fetch.pc \in {"chips", "first", "done"}
Key       == Reach(fetch.lookback)
FetchRecord == [pc : {"idle", "perf", "chips", "first", "done", "failed"}, lookback : Lookbacks \cup {0},
                end : 0 .. LastDay, perf : 0 .. LastDay, at : 0 .. LastDay, used : 0 .. LastDay,
                first : BOOLEAN, refused : SUBSET ModelDays]
\* The day that is tried or was found: every later one was refused.
Reached   == IF fetch.pc = "chips" THEN fetch.at ELSE fetch.used

FetchTypeOK ==
  /\ today \in ModelDays /\ perfOut \in ModelDays /\ lastUsed \in [Reaches -> 0 .. LastDay]
  /\ published \in [ModelDays -> 0 .. LastDay]
  /\ perfCache \in [Reaches -> [ModelDays -> 0 .. LastDay]]
  /\ chipsOut \subseteq ModelDays /\ chipCache \subseteq chipsOut
  /\ fetch \in FetchRecord

VendorBooks ==
  /\ perfOut <= today
  /\ \A d \in ModelDays : published[d] <= perfOut /\ published[d] <= d

PerfCacheBooks ==
  \A k \in Reaches, d \in ModelDays : perfCache[k][d] > 0 =>
    /\ published[d] <= perfCache[k][d] /\ perfCache[k][d] <= perfOut
    /\ perfCache[k][d] <= d /\ d <= Upto
    /\ d = Upto => lastUsed[k] <= perfCache[k][d]

\* Nothing that was used is newer than what could be asked for.
UsedBooks == \A k \in Reaches : lastUsed[k] <= Upto /\ lastUsed[k] <= perfOut

SearchBooks ==
  /\ fetch.perf \in 1 .. fetch.end /\ fetch.perf <= perfOut
  /\ published[fetch.end] <= fetch.perf
  /\ perfCache[Key][fetch.end] \in {0, fetch.perf}
  /\ lastUsed[Key] <= fetch.perf
  /\ FirstDay <= Reached /\ Reached <= fetch.perf
  /\ (Reached + 1) .. fetch.perf \subseteq fetch.refused
  /\ fetch.refused \cap chipCache = {}
  /\ \A d \in fetch.refused : d > Reached

FetchInductive ==
  /\ FetchTypeOK /\ VendorBooks /\ PerfCacheBooks /\ UsedBooks
  /\ fetch.pc # "idle" => fetch.end \in 1 .. today /\ fetch.lookback \in Lookbacks
  /\ Searching => SearchBooks
  /\ fetch.pc = "perf" => fetch.refused = {}

LEMMA FetchInitCorrect == ASSUME FetchInit PROVE FetchInductive
<1>1. FetchTypeOK
  BY FetchAssumption DEF FetchInit, FetchTypeOK, FetchRecord, ModelDays, Idle
<1> QED
  BY <1>1, FetchAssumption
  DEF FetchInit, FetchInductive, VendorBooks, PerfCacheBooks, UsedBooks, Upto, Searching, ModelDays, Idle

LEMMA KeyIsAReach == ASSUME fetch.lookback \in Lookbacks PROVE Key \in Reaches
  BY DEF Key, Reaches

LEMMA FirstDayIsEarly ==
  ASSUME fetch.perf \in Nat \ {0}, fetch.lookback \in Lookbacks
  PROVE  FirstDay \in Nat \ {0} /\ FirstDay <= fetch.perf
<1>1. fetch.lookback \in Nat \ {0}
  BY FetchAssumption
<1> DEFINE perf == fetch.perf
           lookback == fetch.lookback
<1>2. FirstDay = IF perf > lookback THEN perf - lookback + 1 ELSE 1
  BY DEF FirstDay
<1> QED
  BY <1>1, <1>2

\* The vendor publishes: what was asked for before stays as it is.
LEMMA PublishStep ==
  ASSUME FetchInductive, PublishPerf \/ \E d \in 1 .. LastDay : PublishChips(d)
  PROVE  FetchInductive'
<1>1. /\ UNCHANGED <<today, published, perfCache, chipCache, fetch, lastUsed>>
      /\ Upto' = Upto /\ Searching' = Searching /\ Reached' = Reached /\ FirstDay' = FirstDay /\ Key' = Key
  BY DEF PublishPerf, PublishChips, Upto, Searching, Reached, FirstDay, Key
<1>2. /\ today \in 1 .. LastDay /\ perfOut \in 1 .. LastDay /\ perfOut <= today /\ LastDay \in Nat
  BY FetchAssumption DEF FetchInductive, FetchTypeOK, VendorBooks, ModelDays
<1>3. perfOut' \in 1 .. LastDay /\ perfOut <= perfOut' /\ perfOut' <= today
  BY <1>2 DEF PublishPerf, PublishChips
<1>4. chipsOut' \subseteq ModelDays /\ chipsOut \subseteq chipsOut'
  BY DEF PublishPerf, PublishChips, FetchInductive, FetchTypeOK, ModelDays
<1>5. FetchTypeOK'
  BY <1>1, <1>3, <1>4 DEF FetchInductive, FetchTypeOK, FetchRecord, ModelDays
<1>6. VendorBooks'
  BY <1>1, <1>2, <1>3 DEF FetchInductive, FetchTypeOK, VendorBooks, ModelDays
<1>7. PerfCacheBooks'
  <2> SUFFICES ASSUME NEW k \in Reaches, NEW d \in ModelDays, perfCache[k][d] > 0
      PROVE  /\ published[d] <= perfCache[k][d] /\ perfCache[k][d] <= perfOut'
             /\ perfCache[k][d] <= d /\ d <= Upto
             /\ d = Upto => lastUsed[k] <= perfCache[k][d]
    BY <1>1 DEF PerfCacheBooks
  <2>1. perfCache[k][d] \in 0 .. LastDay
    BY DEF FetchInductive, FetchTypeOK
  <2> QED
    BY <2>1, <1>2, <1>3 DEF FetchInductive, PerfCacheBooks
<1>8. UsedBooks'
  <2> SUFFICES ASSUME NEW k \in Reaches PROVE lastUsed[k] <= Upto /\ lastUsed[k] <= perfOut'
    BY <1>1 DEF UsedBooks
  <2>1. lastUsed[k] \in 0 .. LastDay
    BY DEF FetchInductive, FetchTypeOK
  <2> QED
    BY <2>1, <1>2, <1>3 DEF FetchInductive, UsedBooks
<1>9. SearchBooks => SearchBooks'
  <2>1. fetch.perf \in 0 .. LastDay
    BY DEF FetchInductive, FetchTypeOK, FetchRecord
  <2> QED
    BY <1>1, <1>2, <1>3, <2>1 DEF SearchBooks
<1> QED
  BY <1>1, <1>5, <1>6, <1>7, <1>8, <1>9 DEF FetchInductive

\* A new day begins with nothing cached for it.
LEMMA NextDayStep == ASSUME FetchInductive, NextDay PROVE FetchInductive'
<1>1. /\ UNCHANGED <<perfOut, chipsOut, perfCache, chipCache, fetch, lastUsed>>
      /\ today' = today + 1 /\ today' \in ModelDays /\ today \in ModelDays
      /\ published \in [ModelDays -> 0 .. LastDay]
      /\ perfCache \in [Reaches -> [ModelDays -> 0 .. LastDay]]
      /\ published' = [published EXCEPT ![today'] = perfOut]
      /\ perfOut \in ModelDays /\ perfOut <= today /\ lastUsed \in [Reaches -> 0 .. LastDay]
      /\ Searching' = Searching /\ Reached' = Reached /\ FirstDay' = FirstDay /\ Key' = Key
  BY FetchAssumption
  DEF NextDay, FetchInductive, FetchTypeOK, VendorBooks, ModelDays, Searching, Reached, FirstDay, Key
<1>2. /\ Upto \in Nat /\ Upto <= today
      /\ fetch.pc = "idle" => Upto' = today'
      /\ fetch.pc # "idle" => Upto' = Upto
  BY <1>1 DEF Upto, FetchInductive, ModelDays
<1>3. \A k \in Reaches : perfCache[k][today'] = 0
  <2> SUFFICES ASSUME NEW k \in Reaches PROVE perfCache[k][today'] = 0
    OBVIOUS
  <2>1. perfCache[k][today'] > 0 => today' <= Upto
    BY <1>1 DEF FetchInductive, PerfCacheBooks
  <2>2. perfCache[k][today'] \in 0 .. LastDay
    BY <1>1
  <2> QED
    BY <1>1, <1>2, <2>1, <2>2 DEF ModelDays
<1>4. \A d \in ModelDays : d # today' => published'[d] = published[d]
  BY <1>1
<1>5. published' \in [ModelDays -> 0 .. LastDay] /\ published'[today'] = perfOut
  BY <1>1 DEF ModelDays
<1>6. FetchTypeOK'
  BY <1>1, <1>5 DEF FetchInductive, FetchTypeOK
<1>7. VendorBooks'
  <2>1. perfOut' <= today'
    BY <1>1 DEF ModelDays
  <2>2. ASSUME NEW d \in ModelDays PROVE published'[d] <= perfOut /\ published'[d] <= d
    <3>1. CASE d = today'
      BY <3>1, <1>1, <1>5 DEF ModelDays
    <3>2. CASE d # today'
      BY <3>2, <1>4 DEF FetchInductive, VendorBooks
    <3> QED
      BY <3>1, <3>2
  <2> QED
    BY <2>1, <2>2, <1>1 DEF VendorBooks
<1>8. PerfCacheBooks'
  <2> SUFFICES ASSUME NEW k \in Reaches, NEW d \in ModelDays, perfCache[k][d] > 0
      PROVE  /\ published'[d] <= perfCache[k][d] /\ perfCache[k][d] <= perfOut
             /\ perfCache[k][d] <= d /\ d <= Upto'
             /\ d = Upto' => lastUsed[k] <= perfCache[k][d]
    BY <1>1 DEF PerfCacheBooks
  <2>1. d # today'
    BY <1>3
  <2>2. /\ published[d] <= perfCache[k][d] /\ perfCache[k][d] <= perfOut
        /\ perfCache[k][d] <= d /\ d <= Upto
        /\ d = Upto => lastUsed[k] <= perfCache[k][d]
    BY DEF FetchInductive, PerfCacheBooks
  <2> QED
    BY <2>1, <2>2, <1>1, <1>2, <1>4 DEF ModelDays
<1>9. Searching => SearchBooks'
  <2>1. SUFFICES ASSUME Searching PROVE SearchBooks'
    OBVIOUS
  <2>2. SearchBooks /\ fetch.end \in 1 .. today
    BY <2>1 DEF FetchInductive, Searching
  <2>3. fetch.end \in ModelDays /\ fetch.end # today'
    BY <2>2, <1>1, FetchAssumption DEF ModelDays
  <2> QED
    BY <2>2, <2>3, <1>1, <1>4 DEF SearchBooks
<1>10. UsedBooks'
  <2> SUFFICES ASSUME NEW k \in Reaches PROVE lastUsed[k] <= Upto' /\ lastUsed[k] <= perfOut
    BY <1>1 DEF UsedBooks
  <2>1. lastUsed[k] \in 0 .. LastDay /\ lastUsed[k] <= Upto /\ lastUsed[k] <= perfOut
    BY <1>1 DEF FetchInductive, UsedBooks
  <2> QED
    BY <2>1, <1>1, <1>2 DEF ModelDays
<1>11. fetch.pc # "idle" => fetch.end \in 1 .. today'
  BY <1>1 DEF FetchInductive, ModelDays
<1> QED
  BY <1>1, <1>6, <1>7, <1>8, <1>9, <1>10, <1>11 DEF FetchInductive

LEMMA StartFetchStep ==
  ASSUME FetchInductive, NEW lookback \in Lookbacks, StartFetch(lookback)
  PROVE  FetchInductive'
<1>1. /\ UNCHANGED <<today, published, perfOut, chipsOut, perfCache, chipCache, lastUsed>>
      /\ fetch' = [pc |-> "perf", lookback |-> lookback, end |-> today, perf |-> 0, at |-> 0, used |-> 0, first |-> FALSE,
                   refused |-> {}]
      /\ today \in ModelDays /\ Upto = today
  BY DEF StartFetch, Idle, Upto, FetchInductive, FetchTypeOK
<1>2. today \in 0 .. LastDay /\ today \in 1 .. today /\ 0 \in 0 .. LastDay
  BY <1>1, FetchAssumption DEF ModelDays
<1>3. /\ fetch'.end \in 1 .. today /\ fetch'.lookback \in Lookbacks
      /\ Upto' = Upto /\ ~Searching' /\ fetch'.refused = {}
  BY <1>1, <1>2 DEF Upto, Searching
<1>4. FetchTypeOK'
  BY <1>1, <1>2 DEF FetchInductive, FetchTypeOK, FetchRecord
<1>5. VendorBooks' /\ PerfCacheBooks' /\ UsedBooks'
  BY <1>1, <1>3 DEF FetchInductive, VendorBooks, PerfCacheBooks, UsedBooks
<1> QED
  BY <1>1, <1>3, <1>4, <1>5 DEF FetchInductive

\* The indicators the analysis works with are at least those of its day.
LEMMA GetPerfStep == ASSUME FetchInductive, GetPerf PROVE FetchInductive'
<1> DEFINE fetched == IF perfOut < fetch.end THEN perfOut ELSE fetch.end
<1>1. /\ UNCHANGED <<today, published, perfOut, chipsOut, chipCache, lastUsed>> /\ fetch.pc = "perf"
      /\ fetch \in FetchRecord
      /\ today \in ModelDays /\ perfOut \in ModelDays /\ perfOut <= today
      /\ lastUsed \in [Reaches -> 0 .. LastDay]
      /\ published \in [ModelDays -> 0 .. LastDay]
      /\ perfCache \in [Reaches -> [ModelDays -> 0 .. LastDay]]
      /\ fetch.end \in 1 .. today /\ Upto = fetch.end /\ fetch.lookback \in Lookbacks /\ Key \in Reaches
      /\ lastUsed[Key] \in 0 .. LastDay /\ lastUsed[Key] <= fetch.end /\ lastUsed[Key] <= perfOut
  BY KeyIsAReach DEF GetPerf, FetchInductive, FetchTypeOK, VendorBooks, UsedBooks, Upto
<1>2. /\ fetch.end \in ModelDays /\ fetched \in 1 .. fetch.end /\ fetched <= perfOut /\ lastUsed[Key] <= fetched
      /\ published[fetch.end] <= fetched
  <2>1. fetch.end \in ModelDays
    BY <1>1, FetchAssumption DEF ModelDays
  <2>2. published[fetch.end] <= perfOut /\ published[fetch.end] <= fetch.end
    BY <2>1 DEF FetchInductive, VendorBooks
  <2> QED
    BY <2>1, <2>2, <1>1 DEF ModelDays
<1>3. ASSUME NEW n \in 1 .. fetch.end, UsePerf(n), n <= perfOut, published[fetch.end] <= n,
             lastUsed[Key] <= n, perfCache' \in [Reaches -> [ModelDays -> 0 .. LastDay]],
             perfCache'[Key][fetch.end] \in {0, n},
             \A k \in Reaches, d \in ModelDays :
               k # Key \/ d # fetch.end => perfCache'[k][d] = perfCache[k][d]
      PROVE  FetchInductive'
  <2>1. /\ fetch' = [fetch EXCEPT !.pc = "chips", !.perf = n, !.at = n]
        /\ fetch'.perf = n /\ fetch'.at = n /\ fetch'.pc = "chips" /\ fetch'.end = fetch.end
        /\ Upto' = fetch.end /\ Reached' = n /\ fetch'.lookback = fetch.lookback /\ Key' = Key
    BY <1>1, <1>3 DEF UsePerf, Upto, Reached, Key, FetchRecord
  <2>2. n \in Nat \ {0} /\ n \in 0 .. LastDay
    BY <1>1, <1>2, FetchAssumption DEF ModelDays
  <2>3. FetchTypeOK'
    BY <1>1, <1>3, <2>1, <2>2 DEF FetchInductive, FetchTypeOK, FetchRecord
  <2>4. VendorBooks'
    BY <1>1 DEF FetchInductive, VendorBooks
  <2>5. PerfCacheBooks'
    <3> SUFFICES ASSUME NEW k \in Reaches, NEW d \in ModelDays, perfCache'[k][d] > 0
        PROVE  /\ published[d] <= perfCache'[k][d] /\ perfCache'[k][d] <= perfOut
               /\ perfCache'[k][d] <= d /\ d <= fetch.end
               /\ d = fetch.end => lastUsed[k] <= perfCache'[k][d]
      BY <1>1, <2>1 DEF PerfCacheBooks
    <3>1. CASE k = Key /\ d = fetch.end
      <4>1. perfCache'[k][d] = n
        BY <3>1, <1>3
      <4> QED
        BY <4>1, <3>1, <1>1, <1>3, <2>2
    <3>2. CASE k # Key \/ d # fetch.end
      BY <3>2, <1>1, <1>3 DEF FetchInductive, PerfCacheBooks
    <3> QED
      BY <3>1, <3>2
  <2>6. SearchBooks'
    <3>1. FirstDay' <= Reached'
      <4>1. FirstDay' = IF n > fetch.lookback THEN n - fetch.lookback + 1 ELSE 1
        BY <2>1 DEF FirstDay
      <4> QED
        BY <4>1, <2>1, <2>2, <1>1, FetchAssumption
    <3>2. (n + 1) .. n = {}
      BY <2>2
    <3>3. fetch'.refused = fetch.refused /\ fetch.refused = {}
      BY <2>1, <1>1 DEF FetchInductive
    <3> QED
      BY <3>1, <3>2, <3>3, <1>1, <1>3, <2>1, <2>2 DEF SearchBooks
  <2>7. UsedBooks'
    BY <1>1, <2>1 DEF FetchInductive, UsedBooks
  <2> QED
    BY <1>1, <1>3, <2>1, <2>3, <2>4, <2>5, <2>6, <2>7 DEF FetchInductive
<1>4. CASE perfCache[Key][fetch.end] > 0 /\ UsePerf(perfCache[Key][fetch.end]) /\ UNCHANGED perfCache
  <2>1. /\ published[fetch.end] <= perfCache[Key][fetch.end] /\ perfCache[Key][fetch.end] <= perfOut
        /\ perfCache[Key][fetch.end] <= fetch.end /\ lastUsed[Key] <= perfCache[Key][fetch.end]
    BY <1>4, <1>1, <1>2 DEF FetchInductive, PerfCacheBooks
  <2>2. perfCache[Key][fetch.end] \in 1 .. fetch.end
    BY <2>1, <1>4, <1>1, <1>2
  <2> QED
    BY <2>1, <2>2, <1>1, <1>3, <1>4
<1>5. CASE /\ perfCache[Key][fetch.end] = 0 /\ UsePerf(fetched)
           /\ \E written \in BOOLEAN :
                perfCache' = IF written THEN [perfCache EXCEPT ![Key][fetch.end] = fetched] ELSE perfCache
  <2>1. perfCache' = perfCache \/ perfCache' = [perfCache EXCEPT ![Key][fetch.end] = fetched]
    BY <1>5
  <2>2. fetched \in 0 .. LastDay
    BY <1>1, <1>2 DEF ModelDays
  <2> HIDE DEF fetched
  <2>3. /\ perfCache' \in [Reaches -> [ModelDays -> 0 .. LastDay]]
        /\ perfCache'[Key][fetch.end] \in {0, fetched}
        /\ \A k \in Reaches, d \in ModelDays :
             k # Key \/ d # fetch.end => perfCache'[k][d] = perfCache[k][d]
    BY <2>1, <2>2, <1>1, <1>2, <1>5
  <2> QED
    BY <2>3, <1>2, <1>3, <1>5
<1>6. CASE GivesUp /\ UNCHANGED perfCache
  <2>1. /\ fetch' = [fetch EXCEPT !.pc = "failed"] /\ Upto' = Upto /\ ~Searching'
        /\ fetch'.end = fetch.end /\ fetch'.lookback = fetch.lookback /\ fetch'.pc = "failed"
    BY <1>1, <1>6 DEF GivesUp, Upto, Searching, FetchRecord
  <2>2. FetchTypeOK'
    BY <1>1, <1>6, <2>1 DEF FetchInductive, FetchTypeOK, FetchRecord
  <2> QED
    BY <1>1, <1>6, <2>1, <2>2 DEF FetchInductive, VendorBooks, PerfCacheBooks, UsedBooks
<1> QED
  BY <1>4, <1>5, <1>6 DEF GetPerf, CachedPerf, Key

\* Only what a published answer said is remembered.
LEMMA RememberedIsTrue ==
  ASSUME FetchInductive, NEW d \in ModelDays, NEW works \in BOOLEAN, NEW written \in BOOLEAN,
         chipCache' = IF written THEN Remembered(d, Available(d, works)) ELSE chipCache
  PROVE  /\ chipCache' \subseteq chipsOut
         /\ chipCache' \subseteq chipCache \cup {d}
         /\ ~Available(d, works) => chipCache' = chipCache
  BY DEF FetchInductive, FetchTypeOK, Remembered, Available

LEMMA TryDateStep == ASSUME FetchInductive, TryDate PROVE FetchInductive'
<1> DEFINE d == fetch.at
<1>1. PICK works \in BOOLEAN, written \in BOOLEAN :
        /\ chipCache' = IF written THEN Remembered(d, Available(d, works)) ELSE chipCache
        /\ CASE Available(d, works)                   -> fetch' = [fetch EXCEPT !.pc = "first", !.used = d]
             [] ~Available(d, works) /\ d = FirstDay  -> GivesUp
             [] ~Available(d, works) /\ d # FirstDay  ->
                  fetch' = [fetch EXCEPT !.at = NextTry(d), !.refused = @ \cup {d}]
  BY DEF TryDate
<1>2. /\ UNCHANGED <<today, published, perfOut, chipsOut, perfCache, lastUsed>> /\ fetch.pc = "chips"
      /\ fetch \in FetchRecord
      /\ FetchTypeOK /\ VendorBooks /\ PerfCacheBooks /\ SearchBooks /\ UsedBooks
      /\ fetch.end \in 1 .. today /\ Upto = fetch.end /\ fetch.lookback \in Lookbacks
      /\ Reached = d /\ today \in ModelDays
  BY DEF TryDate, FetchInductive, FetchTypeOK, Searching, Upto, Reached
<1>3. /\ d \in ModelDays /\ d <= fetch.perf /\ FirstDay <= d /\ FirstDay \in Nat \ {0}
      /\ fetch.perf \in 1 .. fetch.end /\ fetch.end \in ModelDays
  BY <1>2, FirstDayIsEarly, FetchAssumption DEF SearchBooks, ModelDays, FetchRecord
<1>4. /\ chipCache' \subseteq chipsOut /\ chipCache' \subseteq chipCache \cup {d}
      /\ ~Available(d, works) => chipCache' = chipCache
  BY <1>1, <1>3, RememberedIsTrue
<1>5. VendorBooks' /\ (Upto' = Upto => UsedBooks')
  BY <1>2 DEF VendorBooks, UsedBooks
<1>6. (d + 1) .. fetch.perf \subseteq fetch.refused /\ fetch.refused \cap chipCache = {}
      /\ \A x \in fetch.refused : x > d
  BY <1>2 DEF SearchBooks
<1>7. CASE Available(d, works)
  <2>1. /\ fetch' = [fetch EXCEPT !.pc = "first", !.used = d]
        /\ fetch'.pc = "first" /\ fetch'.used = d /\ fetch'.perf = fetch.perf /\ fetch'.end = fetch.end
        /\ fetch'.lookback = fetch.lookback
        /\ fetch'.refused = fetch.refused
    BY <1>1, <1>2, <1>7 DEF FetchRecord
  <2>2. Upto' = Upto /\ Reached' = d /\ FirstDay' = FirstDay /\ Searching' /\ Key' = Key
    BY <1>2, <2>1 DEF Upto, Reached, FirstDay, Searching, Key
  <2>3. FetchTypeOK'
    BY <1>2, <1>4, <2>1 DEF FetchTypeOK, FetchRecord
  <2>4. PerfCacheBooks'
    BY <1>2, <2>2 DEF PerfCacheBooks
  <2>5. fetch.refused \cap chipCache' = {}
    <3>1. d \notin fetch.refused
      BY <1>3, <1>6 DEF ModelDays
    <3> QED
      BY <3>1, <1>4, <1>6
  <2>6. SearchBooks'
    BY <1>2, <1>3, <1>6, <2>1, <2>2, <2>5 DEF SearchBooks
  <2> QED
    BY <1>2, <1>5, <2>1, <2>2, <2>3, <2>4, <2>6 DEF FetchInductive
<1>8. CASE ~Available(d, works) /\ d = FirstDay
  <2>1. /\ fetch' = [fetch EXCEPT !.pc = "failed"] /\ fetch'.pc = "failed" /\ fetch'.end = fetch.end
        /\ fetch'.lookback = fetch.lookback
    BY <1>1, <1>2, <1>8 DEF GivesUp, FetchRecord
  <2>2. Upto' = Upto /\ ~Searching'
    BY <1>2, <2>1 DEF Upto, Searching
  <2>3. FetchTypeOK'
    BY <1>2, <1>4, <2>1 DEF FetchTypeOK, FetchRecord
  <2>4. PerfCacheBooks'
    BY <1>2, <2>2 DEF PerfCacheBooks
  <2> QED
    BY <1>2, <1>5, <2>1, <2>2, <2>3, <2>4 DEF FetchInductive
<1>9. CASE ~Available(d, works) /\ d # FirstDay
  <2>1. /\ fetch' = [fetch EXCEPT !.at = d - 1, !.refused = @ \cup {d}]
        /\ fetch'.pc = "chips" /\ fetch'.at = d - 1 /\ fetch'.perf = fetch.perf /\ fetch'.end = fetch.end
        /\ fetch'.lookback = fetch.lookback
        /\ fetch'.refused = fetch.refused \cup {d}
    BY <1>1, <1>2, <1>9 DEF NextTry, FetchRecord
  <2>2. Upto' = Upto /\ Reached' = d - 1 /\ FirstDay' = FirstDay /\ Searching' /\ Key' = Key
    BY <1>2, <2>1 DEF Upto, Reached, FirstDay, Searching, Key
  <2>3. d - 1 \in 0 .. LastDay
    BY <1>3, FetchAssumption DEF ModelDays
  <2>4. FetchTypeOK'
    BY <1>2, <1>3, <1>4, <2>1, <2>3 DEF FetchTypeOK, FetchRecord
  <2>5. PerfCacheBooks'
    BY <1>2, <2>2 DEF PerfCacheBooks
  <2>6. d \notin chipCache /\ chipCache' = chipCache
    BY <1>4, <1>9 DEF Available
  <2>7. ((d - 1) + 1) .. fetch.perf \subseteq fetch.refused \cup {d}
    BY <1>3, <1>6, FetchAssumption DEF ModelDays
  <2>8. \A x \in fetch.refused \cup {d} : x > d - 1
    <3>1. \A x \in fetch.refused : x \in Int
      BY <1>2 DEF ModelDays, FetchRecord
    <3> QED
      BY <3>1, <1>3, <1>6 DEF ModelDays
  <2>9. (fetch.refused \cup {d}) \cap chipCache = {}
    BY <1>6, <2>6
  <2>10. FirstDay <= d - 1 /\ d - 1 <= fetch.perf
    BY <1>3, <1>9, FetchAssumption DEF ModelDays
  <2>11. SearchBooks'
    BY <1>2, <2>1, <2>2, <2>6, <2>7, <2>8, <2>9, <2>10 DEF SearchBooks
  <2> QED
    BY <1>2, <1>5, <2>1, <2>2, <2>4, <2>5, <2>11 DEF FetchInductive
<1> QED
  BY <1>7, <1>8, <1>9

LEMMA FetchFirstStep == ASSUME FetchInductive, FetchFirst PROVE FetchInductive'
<1> DEFINE d == FirstDay
<1>1. PICK works \in BOOLEAN, written \in BOOLEAN :
        /\ fetch' = [fetch EXCEPT !.pc = "done", !.first = Available(d, works)]
        /\ chipCache' = IF written THEN Remembered(d, Available(d, works)) ELSE chipCache
  BY DEF FetchFirst
<1>2. /\ UNCHANGED <<today, published, perfOut, chipsOut, perfCache, lastUsed>> /\ fetch.pc = "first"
      /\ fetch \in FetchRecord
      /\ FetchTypeOK /\ VendorBooks /\ PerfCacheBooks /\ SearchBooks /\ UsedBooks
      /\ fetch.end \in 1 .. today /\ Upto = fetch.end /\ fetch.lookback \in Lookbacks
      /\ Reached = fetch.used /\ today \in ModelDays
  BY DEF FetchFirst, FetchInductive, FetchTypeOK, Searching, Upto, Reached
<1>3. d \in ModelDays /\ d <= fetch.used
  <2>1. fetch.perf \in 1 .. fetch.end /\ fetch.perf \in 0 .. LastDay /\ fetch.perf \in Nat \ {0}
    BY <1>2, FetchAssumption DEF SearchBooks, ModelDays, FetchRecord
  <2>2. FirstDay \in Nat \ {0} /\ FirstDay <= fetch.perf
    BY <2>1, <1>2, FirstDayIsEarly
  <2> QED
    BY <2>1, <2>2, <1>2, FetchAssumption DEF SearchBooks, ModelDays, FetchRecord
<1>4. chipCache' \subseteq chipsOut /\ chipCache' \subseteq chipCache \cup {d}
  BY <1>1, <1>3, RememberedIsTrue
<1>5. Available(d, works) \in BOOLEAN
  BY DEF Available
<1>6. /\ fetch'.pc = "done" /\ fetch'.used = fetch.used /\ fetch'.perf = fetch.perf
      /\ fetch'.end = fetch.end /\ fetch'.refused = fetch.refused /\ fetch'.lookback = fetch.lookback
  BY <1>1, <1>2 DEF FetchRecord
<1>7. Upto' = Upto /\ Reached' = fetch.used /\ FirstDay' = FirstDay /\ Searching' /\ Key' = Key
  BY <1>2, <1>6 DEF Upto, Reached, FirstDay, Searching, Key
<1>8. FetchTypeOK'
  BY <1>1, <1>2, <1>4, <1>5 DEF FetchTypeOK, FetchRecord
<1>9. VendorBooks' /\ PerfCacheBooks' /\ UsedBooks'
  BY <1>2, <1>7 DEF VendorBooks, PerfCacheBooks, UsedBooks
<1>10. fetch.refused \cap chipCache' = {}
  <2>1. \A x \in fetch.refused : x > fetch.used
    BY <1>2 DEF SearchBooks
  <2>2. d \notin fetch.refused
    <3>1. d \in Int /\ fetch.used \in Int
      BY <1>2, <1>3 DEF ModelDays, FetchRecord
    <3> QED
      BY <3>1, <2>1, <1>3
  <2> QED
    BY <2>2, <1>2, <1>4 DEF SearchBooks
<1>11. SearchBooks'
  BY <1>2, <1>6, <1>7, <1>10 DEF SearchBooks
<1> QED
  BY <1>2, <1>6, <1>7, <1>8, <1>9, <1>11 DEF FetchInductive

\* The next analysis starts where this one has put the caches.
LEMMA AnsweredStep == ASSUME FetchInductive, Answered PROVE FetchInductive'
<1>1. /\ UNCHANGED <<today, published, perfOut, chipsOut, perfCache, chipCache>>
      /\ fetch' = Idle /\ fetch'.pc = "idle" /\ fetch'.refused = {} /\ ~Searching' /\ Upto' = today
  BY DEF Answered, Idle, Upto, Searching
<1>2. /\ FetchTypeOK /\ VendorBooks /\ PerfCacheBooks /\ UsedBooks /\ fetch.end \in 1 .. today
      /\ Upto = fetch.end /\ Key \in Reaches /\ fetch \in FetchRecord
      /\ today \in ModelDays /\ perfOut \in ModelDays /\ lastUsed \in [Reaches -> 0 .. LastDay]
      /\ perfCache \in [Reaches -> [ModelDays -> 0 .. LastDay]] /\ fetch.end \in ModelDays
  <2>1. /\ FetchTypeOK /\ VendorBooks /\ PerfCacheBooks /\ UsedBooks /\ fetch.end \in 1 .. today
        /\ Upto = fetch.end /\ fetch.lookback \in Lookbacks
    BY DEF Answered, FetchInductive, Upto
  <2>2. Key \in Reaches
    BY <2>1, KeyIsAReach
  <2>3. fetch.end \in ModelDays
    BY <2>1, FetchAssumption DEF FetchTypeOK, ModelDays
  <2> QED
    BY <2>1, <2>2, <2>3 DEF FetchTypeOK
<1>3. ASSUME NEW k \in Reaches
      PROVE  /\ lastUsed'[k] \in 0 .. LastDay /\ lastUsed'[k] <= fetch.end /\ lastUsed'[k] <= perfOut
             /\ perfCache[k][fetch.end] > 0 => lastUsed'[k] <= perfCache[k][fetch.end]
  <2>1. CASE fetch.pc = "done" /\ k = Key
    <3>1. /\ SearchBooks /\ lastUsed'[k] = fetch.used /\ Reached = fetch.used
          /\ fetch.used \in 0 .. LastDay /\ fetch.perf \in 0 .. LastDay
      BY <2>1, <1>2 DEF Answered, FetchInductive, FetchRecord, Searching, Reached, Key
    <3>2. fetch.used <= fetch.perf /\ fetch.perf <= fetch.end /\ fetch.perf <= perfOut
          /\ perfCache[Key][fetch.end] \in {0, fetch.perf}
      BY <3>1, <1>2 DEF SearchBooks
    <3> QED
      BY <2>1, <3>1, <3>2, <1>2 DEF ModelDays
  <2>2. CASE fetch.pc # "done" \/ k # Key
    <3>1. lastUsed'[k] = lastUsed[k]
      BY <2>2, <1>2 DEF Answered, Key
    <3> QED
      BY <3>1, <1>2 DEF PerfCacheBooks, UsedBooks
  <2> QED
    BY <2>1, <2>2
<1>4. FetchTypeOK'
  <2>1. 0 \in 0 .. LastDay
    BY FetchAssumption
  <2>2. lastUsed' \in [Reaches -> 0 .. LastDay]
    <3>1. lastUsed' = lastUsed \/ lastUsed' = [lastUsed EXCEPT ![Key] = fetch.used]
      BY DEF Answered, Key
    <3> QED
      BY <3>1, <1>2 DEF FetchRecord
  <2>3. fetch' \in FetchRecord
    BY <1>1, <2>1 DEF FetchRecord, Idle
  <2> QED
    BY <2>2, <2>3, <1>1, <1>2 DEF FetchTypeOK
<1>5. VendorBooks'
  BY <1>1, <1>2 DEF VendorBooks
<1>6. PerfCacheBooks'
  <2> SUFFICES ASSUME NEW k \in Reaches, NEW x \in ModelDays, perfCache[k][x] > 0
      PROVE  /\ published[x] <= perfCache[k][x] /\ perfCache[k][x] <= perfOut
             /\ perfCache[k][x] <= x /\ x <= today
             /\ x = today => lastUsed'[k] <= perfCache[k][x]
    BY <1>1 DEF PerfCacheBooks
  <2>1. /\ published[x] <= perfCache[k][x] /\ perfCache[k][x] <= perfOut
        /\ perfCache[k][x] <= x /\ x <= fetch.end
    BY <1>2 DEF PerfCacheBooks
  <2>2. x <= today /\ (x = today => x = fetch.end)
    BY <2>1, <1>2 DEF ModelDays
  <2> QED
    BY <2>1, <2>2, <1>3
<1>7. UsedBooks'
  BY <1>1, <1>2, <1>3 DEF UsedBooks, ModelDays
<1> QED
  BY <1>1, <1>2, <1>4, <1>5, <1>6, <1>7 DEF FetchInductive

LEMMA FetchStep == ASSUME FetchInductive, [FetchNext]_fetchVars PROVE FetchInductive'
<1>1. CASE UNCHANGED fetchVars
  BY <1>1 DEF fetchVars, FetchInductive, FetchTypeOK, VendorBooks, PerfCacheBooks, SearchBooks,
              UsedBooks, Upto, Searching, Reached, FirstDay, Key
<1> QED
  BY <1>1, PublishStep, NextDayStep, StartFetchStep, GetPerfStep, TryDateStep, FetchFirstStep, AnsweredStep
  DEF FetchNext

LEMMA FetchInvInInductive == ASSUME FetchInductive PROVE ChipFetchInv
<1>1. CacheIsTrue
  BY DEF FetchInductive, FetchTypeOK, CacheIsTrue
<1>2. NewestAvailableWins
  BY DEF FetchInductive, Searching, SearchBooks, Reached, NewestAvailableWins
<1>3. AnswersGoForward
  <2> SUFFICES ASSUME fetch.pc = "done", fetch.used < lastUsed[Key] PROVE lastUsed[Key] \notin chipCache
    BY DEF AnswersGoForward, Key
  <2>1. /\ (fetch.used + 1) .. fetch.perf \subseteq fetch.refused
        /\ fetch.refused \cap chipCache = {} /\ lastUsed[Key] <= fetch.perf
    BY DEF FetchInductive, Searching, SearchBooks, Reached
  <2>2. lastUsed[Key] \in 0 .. LastDay /\ fetch.perf \in 0 .. LastDay /\ fetch.used \in 0 .. LastDay
    BY KeyIsAReach DEF FetchInductive, FetchTypeOK, FetchRecord
  <2>3. lastUsed[Key] \in (fetch.used + 1) .. fetch.perf
    BY <2>1, <2>2, FetchAssumption
  <2> QED
    BY <2>1, <2>3
<1>4. IndicatorsAreOfToday
  <2> SUFFICES ASSUME fetch.pc \in {"chips", "done"} PROVE fetch.perf >= published[fetch.end]
    BY DEF IndicatorsAreOfToday
  <2>1. SearchBooks /\ fetch.end \in 1 .. today /\ today \in ModelDays
    BY DEF FetchInductive, Searching, FetchTypeOK
  <2>2. fetch.end \in ModelDays /\ fetch.perf \in 1 .. fetch.end
    BY <2>1, FetchAssumption DEF SearchBooks, ModelDays
  <2> QED
    BY <2>1, <2>2, FetchAssumption DEF SearchBooks, FetchInductive, FetchTypeOK, ModelDays
<1> QED
  BY <1>1, <1>2, <1>3, <1>4 DEF ChipFetchInv

(* Whenever the vendor publishes, fails or answers late, a chip analysis    *)
(* works with the newest data that could be had for its date, and two       *)
(* caches never make it go back in time (chip_deep/analyzer.py:33-228).     *)
THEOREM ChipDataCorrect == FetchSpec => []ChipFetchInv
<1>1. FetchInductive /\ [FetchNext]_fetchVars => FetchInductive'
  BY FetchStep
<1> QED
  BY <1>1, FetchInitCorrect, FetchInvInInductive, PTL DEF FetchSpec

-----------------------------------------------------------------------------
(* The table of stock names.  What is in the variable is judged from the    *)
(* point of view of each call, by the time it has taken.                    *)

MapAnswers == {None, Empty} \cup Table
MapPcs     == {"new", "expire", "look", "lock", "check", "file", "fetch", "stamp", "return", "done"}

MapTypeOK ==
  /\ clock \in Table /\ stockMap \in MapAnswers /\ loadedAt \in Int /\ tossed \in BOOLEAN
  /\ file # None => file \in [table : Table, written : Table] /\ file.table = file.written
  /\ holder \in Callers \cup {None}
  /\ call \in [Callers -> [pc : MapPcs, now : Table, result : MapAnswers, tried : BOOLEAN]]
  /\ disturbed \in [Callers -> SUBSET {"expired", "failed"}]

\* The time that is set with the table, once it is set.
LoadedBooks ==
  /\ stockMap \in Table /\ (\A c \in Callers : ~At(c, "stamp")) => loadedAt - stockMap <= TTL
  /\ stockMap \notin Table => tossed \/ clock - loadedAt > TTL

Excused(c) == call[c].tried \/ "failed" \in disturbed[c] \/ tossed

\* What a call finds in the variable at its place in the code.
FindsBooks(c) ==
  /\ call[c].pc \notin {"new", "done"} => call[c].now <= clock /\ clock <= call[c].now + 1
  /\ call[c].pc \notin {"new", "expire", "done"} =>
       /\ stockMap \in Table => call[c].now - stockMap <= 2 * TTL + 1
       /\ stockMap = Empty => Excused(c)
  /\ call[c].pc \in {"stamp", "return"} /\ stockMap = None => "expired" \in disturbed[c]
  /\ call[c].pc = "stamp" =>
       /\ stockMap # Empty
       /\ stockMap \in Table => call[c].now - stockMap <= TTL
       /\ stockMap = None => tossed
       /\ call[c].result # None => call[c].result \in Table /\ call[c].now - call[c].result <= TTL
  /\ call[c].pc \notin {"stamp", "done"} => call[c].result = None

LocksBooks(c) == holder = c <=> call[c].pc \in {"check", "file", "fetch", "stamp"}

\* What a call that has ended answered.
AnswerBooks(c) ==
  call[c].pc = "done" =>
    /\ call[c].result = None => "expired" \in disturbed[c]
    /\ call[c].result \in Table => call[c].now - call[c].result <= 2 * TTL + 1
    /\ call[c].result = Empty => Excused(c)

MapInductive ==
  /\ MapTypeOK /\ LoadedBooks
  /\ \A c \in Callers : FindsBooks(c) /\ LocksBooks(c) /\ AnswerBooks(c)

CallRecord == [pc : MapPcs, now : Table, result : MapAnswers, tried : BOOLEAN]

LEMMA MapTimes ==
  /\ TTL \in Nat \ {0} /\ MaxClock \in Nat /\ Table \subseteq Int /\ \A t \in Table : t >= 0
  /\ None \notin Table /\ Empty \notin Table /\ None # Empty /\ Empty \in Int /\ None \notin Callers
  BY StockMapAssumption DEF Table, Empty

LEMMA MapInitCorrect == ASSUME MapInit PROVE MapInductive
<1>1. /\ clock = 0 /\ stockMap = None /\ loadedAt = -1 - TTL /\ holder = None /\ tossed = FALSE
      /\ file \in {None} \cup [table : {0}, written : {0}]
      /\ call = [c \in Callers |-> NewCall] /\ disturbed = [c \in Callers |-> {}]
  BY DEF MapInit
<1>2. 0 \in Table /\ None \notin Table /\ TTL \in Nat /\ None \notin Callers
  BY StockMapAssumption DEF Table
<1>3. NewCall \in CallRecord /\ NewCall.pc = "new" /\ NewCall.result = None
  BY <1>2 DEF NewCall, CallRecord, MapPcs, MapAnswers
<1>4. MapTypeOK
  <2>1. file # None => file \in [table : Table, written : Table] /\ file.table = file.written
    BY <1>1, <1>2
  <2>2. call \in [Callers -> CallRecord]
    BY <1>1, <1>3
  <2>3. loadedAt \in Int /\ disturbed \in [Callers -> SUBSET {"expired", "failed"}]
    BY <1>1, <1>2
  <2> QED
    BY <1>1, <1>2, <2>1, <2>2, <2>3 DEF MapTypeOK, CallRecord, MapAnswers
<1>5. LoadedBooks
  BY <1>1, <1>2 DEF LoadedBooks
<1>6. ASSUME NEW c \in Callers PROVE FindsBooks(c) /\ LocksBooks(c) /\ AnswerBooks(c)
  <2>1. call[c].pc = "new" /\ call[c].result = None /\ holder # c
    BY <1>1, <1>2, <1>3
  <2> QED
    BY <2>1 DEF FindsBooks, LocksBooks, AnswerBooks
<1> QED
  BY <1>4, <1>5, <1>6 DEF MapInductive

LEMMA MapFacts ==
  ASSUME MapInductive, NEW c \in Callers
  PROVE  /\ call \in [Callers -> CallRecord] /\ call[c] \in CallRecord /\ call[c].now \in Table
         /\ clock \in Table /\ stockMap \in MapAnswers /\ loadedAt \in Int /\ tossed \in BOOLEAN
         /\ MapTypeOK /\ LoadedBooks /\ FindsBooks(c) /\ LocksBooks(c) /\ AnswerBooks(c)
         /\ \A h \in Callers : LocksBooks(h) /\ FindsBooks(h)
  BY DEF MapInductive, MapTypeOK, CallRecord

LEMMA CallChanges ==
  ASSUME MapInductive, NEW c \in Callers, NEW k \in CallRecord, call' = [call EXCEPT ![c] = k]
  PROVE  /\ call' \in [Callers -> CallRecord] /\ call'[c] = k
         /\ \A x \in Callers : x # c => call'[x] = call[x]
  BY MapFacts

\* A call that does not move and whose table stays keeps its books.
LEMMA OthersKeep ==
  ASSUME MapInductive, NEW x \in Callers, call'[x] = call[x], disturbed[x] \subseteq disturbed'[x],
         tossed => tossed', clock' = clock, stockMap' = stockMap, holder' = x <=> holder = x
  PROVE  FindsBooks(x)' /\ LocksBooks(x)' /\ AnswerBooks(x)'
<1>1. FindsBooks(x) /\ LocksBooks(x) /\ AnswerBooks(x)
  BY MapFacts
<1>2. Excused(x) => Excused(x)'
  BY DEF Excused
<1> QED
  BY <1>1, <1>2 DEF FindsBooks, LocksBooks, AnswerBooks

LEMMA LoadedStays ==
  ASSUME MapInductive, clock' = clock, stockMap' = stockMap, loadedAt' = loadedAt, tossed => tossed',
         \A x \in Callers : call[x].pc = "stamp" => call'[x].pc = "stamp"
  PROVE  LoadedBooks'
  BY DEF MapInductive, LoadedBooks, At

-----------------------------------------------------------------------------
LEMMA TickStep == ASSUME MapInductive, Tick PROVE MapInductive'
<1>1. /\ clock' = clock + 1 /\ clock < MaxClock /\ clock \in Table
      /\ \A c \in Callers : call[c].pc \in {"new", "done"} \/ call[c].now = clock
      /\ UNCHANGED <<stockMap, loadedAt, file, holder, call, disturbed, tossed>>
  BY DEF Tick, At, MapInductive, MapTypeOK
<1>2. clock' \in Table /\ clock \in Nat
  BY <1>1, StockMapAssumption DEF Table
<1>3. MapTypeOK'
  BY <1>1, <1>2 DEF MapInductive, MapTypeOK
<1>4. LoadedBooks'
  <2>1. loadedAt \in Int /\ TTL \in Nat
    BY MapTimes DEF MapInductive, MapTypeOK
  <2>2. stockMap \notin Table => tossed \/ clock' - loadedAt > TTL
    BY <2>1, <1>1, <1>2 DEF MapInductive, LoadedBooks
  <2> QED
    BY <2>2, <1>1 DEF MapInductive, LoadedBooks, At
<1>5. ASSUME NEW c \in Callers PROVE FindsBooks(c)' /\ LocksBooks(c)' /\ AnswerBooks(c)'
  <2>1. FindsBooks(c) /\ LocksBooks(c) /\ AnswerBooks(c)
    BY MapFacts
  <2>2. Excused(c)' = Excused(c)
    BY <1>1 DEF Excused
  <2>3. call[c].pc \notin {"new", "done"} => call[c].now <= clock' /\ clock' <= call[c].now + 1
    BY <1>1, <1>2
  <2> QED
    BY <1>1, <2>1, <2>2, <2>3 DEF FindsBooks, LocksBooks, AnswerBooks
<1> QED
  BY <1>3, <1>4, <1>5 DEF MapInductive

\* Whoever finds a table that is not old by the time set for it finds one
\* that is at most twice as old: the loader may not have set its time yet.
LEMMA YoungEnough ==
  ASSUME MapInductive, stockMap \in Table, clock - loadedAt <= TTL
  PROVE  clock - stockMap <= 2 * TTL + 1
<1>1. stockMap \in Int /\ clock \in Int /\ loadedAt \in Int /\ TTL \in Nat \ {0}
  BY MapTimes DEF MapInductive, MapTypeOK
<1>2. CASE \E h \in Callers : At(h, "stamp")
  <2>1. PICK h \in Callers : call[h].pc = "stamp"
    BY <1>2 DEF At
  <2>2. call[h].now - stockMap <= TTL /\ clock <= call[h].now + 1
    BY <2>1, MapFacts DEF FindsBooks
  <2>3. call[h].now \in Int
    BY MapFacts, MapTimes
  <2> QED
    BY <1>1, <2>2, <2>3
<1>3. CASE ~ \E h \in Callers : At(h, "stamp")
  BY <1>1, <1>3 DEF MapInductive, LoadedBooks
<1> QED
  BY <1>2, <1>3

LEMMA TestStep == ASSUME MapInductive, NEW c \in Callers, Test(c) PROVE MapInductive'
<1> DEFINE expires == stockMap # None /\ Old(clock)
           k == [call[c] EXCEPT !.pc = IF expires THEN "expire" ELSE "look", !.now = clock]
<1>1. /\ call[c].pc = "new" /\ UNCHANGED <<clock, stockMap, loadedAt, file, holder, disturbed, tossed>>
      /\ call[c] \in CallRecord /\ clock \in Table /\ MapTypeOK /\ LocksBooks(c)
      /\ loadedAt \in Int /\ TTL \in Nat
  BY MapFacts, MapTimes DEF Test, At
<1>2. call' = [call EXCEPT ![c] = k]
  BY MapFacts DEF Test
<1>3. k \in CallRecord /\ k.pc = (IF expires THEN "expire" ELSE "look") /\ k.now = clock
      /\ k.result = call[c].result /\ call[c].result = None
  BY <1>1, MapFacts DEF CallRecord, MapPcs, FindsBooks
<1> HIDE DEF k
<1>4. call' \in [Callers -> CallRecord] /\ call'[c] = k /\ \A x \in Callers : x # c => call'[x] = call[x]
  BY <1>2, <1>3, CallChanges
<1>5. MapTypeOK'
  BY <1>1, <1>4 DEF MapTypeOK, CallRecord
<1>6. LoadedBooks'
  BY <1>1, <1>4, LoadedStays
<1>7. FindsBooks(c)' /\ LocksBooks(c)' /\ AnswerBooks(c)'
  <2>1. clock \in Int
    BY <1>1, MapTimes
  <2>2. LocksBooks(c)' /\ AnswerBooks(c)'
    BY <1>1, <1>3, <1>4 DEF LocksBooks, AnswerBooks
  <2>3. CASE expires
    BY <1>3, <1>4, <1>1, <2>1, <2>2, <2>3 DEF FindsBooks
  <2>4. CASE ~expires
    <3>1. stockMap \in Table => clock - loadedAt <= TTL
      BY <2>4, <1>1, <2>1, MapTimes DEF Old
    <3>2. stockMap = Empty => tossed
      <4>1. stockMap = Empty => ~(clock - loadedAt > TTL) /\ stockMap \notin Table
        BY <2>4, MapTimes DEF Old
      <4> QED
        BY <4>1 DEF MapInductive, LoadedBooks
    <3>3. stockMap \in Table => clock - stockMap <= 2 * TTL + 1
      BY <3>1, YoungEnough
    <3>4. k.pc = "look"
      BY <2>4, <1>3
    <3> QED
      BY <3>2, <3>3, <3>4, <1>1, <1>3, <1>4, <2>1, <2>2 DEF FindsBooks, Excused
  <2> QED
    BY <2>3, <2>4
<1>8. ASSUME NEW x \in Callers, x # c PROVE FindsBooks(x)' /\ LocksBooks(x)' /\ AnswerBooks(x)'
  BY <1>1, <1>4, <1>8, OthersKeep
<1> QED
  BY <1>5, <1>6, <1>7, <1>8 DEF MapInductive

\* Throwing the table away excuses the others, and is noted when it was valid.
LEMMA ExpireStep == ASSUME MapInductive, NEW c \in Callers, Expire(c) PROVE MapInductive'
<1> DEFINE k == [call[c] EXCEPT !.pc = "look"]
<1>1. /\ call[c].pc = "expire" /\ UNCHANGED <<clock, loadedAt, file, holder>> /\ stockMap' = None
      /\ call[c] \in CallRecord /\ clock \in Table /\ MapTypeOK /\ LocksBooks(c) /\ FindsBooks(c)
      /\ loadedAt \in Int /\ TTL \in Nat /\ stockMap \in MapAnswers /\ tossed \in BOOLEAN
      /\ None \notin Table /\ None # Empty /\ Table \subseteq Int
  BY MapFacts, MapTimes DEF Expire, At
<1>2. call' = [call EXCEPT ![c] = k]
  BY MapFacts DEF Expire, Goes
<1>3. k \in CallRecord /\ k.pc = "look" /\ k.now = call[c].now /\ k.result = call[c].result
  BY <1>1 DEF CallRecord, MapPcs
<1> HIDE DEF k
<1>4. call' \in [Callers -> CallRecord] /\ call'[c] = k /\ \A x \in Callers : x # c => call'[x] = call[x]
  BY <1>2, <1>3, CallChanges
<1>5. /\ disturbed' \in [Callers -> SUBSET {"expired", "failed"}]
      /\ \A x \in Callers : disturbed[x] \subseteq disturbed'[x]
      /\ \A x \in Callers : x # c /\ call[x].pc \notin {"new", "done"} => "expired" \in disturbed'[x]
  BY <1>1 DEF Expire, Disturb, MapTypeOK
<1>6. /\ tossed' \in BOOLEAN /\ (tossed => tossed')
      /\ stockMap # None /\ ~Old(call[c].now) => tossed'
      /\ stockMap # None /\ (\E o \in Callers : call[o].pc = "stamp") => tossed'
  BY <1>1 DEF Expire, At
<1>7. MapTypeOK'
  BY <1>1, <1>4, <1>5, <1>6 DEF MapTypeOK, CallRecord, MapAnswers
<1>8. LoadedBooks'
  <2>1. tossed' \/ clock - loadedAt > TTL
    <3>1. CASE stockMap = None
      BY <3>1, <1>1, <1>6 DEF MapInductive, LoadedBooks
    <3>2. CASE stockMap # None /\ Old(call[c].now)
      <4>1. call[c].now - loadedAt > TTL /\ call[c].now <= clock
        BY <3>2, <1>1 DEF Old, FindsBooks
      <4>2. call[c].now \in Int /\ clock \in Int
        BY <1>1 DEF CallRecord
      <4> QED
        BY <4>1, <4>2, <1>1
    <3>3. CASE stockMap # None /\ ~Old(call[c].now)
      BY <3>3, <1>6
    <3> QED
      BY <3>1, <3>2, <3>3
  <2> QED
    BY <2>1, <1>1 DEF LoadedBooks
<1>9. FindsBooks(c)' /\ LocksBooks(c)' /\ AnswerBooks(c)'
  <2>1. call[c].now <= clock /\ clock <= call[c].now + 1
    BY <1>1 DEF FindsBooks
  <2> QED
    BY <2>1, <1>1, <1>3, <1>4 DEF FindsBooks, LocksBooks, AnswerBooks
<1>10. ASSUME NEW x \in Callers, x # c PROVE FindsBooks(x)' /\ LocksBooks(x)' /\ AnswerBooks(x)'
  <2>1. FindsBooks(x) /\ LocksBooks(x) /\ AnswerBooks(x) /\ call'[x] = call[x]
    BY <1>4, <1>10, MapFacts
  <2>2. Excused(x) => Excused(x)'
    BY <2>1, <1>5, <1>6 DEF Excused
  <2>3. LocksBooks(x)' /\ AnswerBooks(x)'
    BY <2>1, <2>2, <1>1, <1>5 DEF LocksBooks, AnswerBooks
  <2>4. call[x].pc = "stamp" => tossed'
    BY <2>1, <1>6 DEF FindsBooks
  <2>5. call[x].pc \in {"stamp", "return"} => "expired" \in disturbed'[x]
    BY <1>5, <1>10
  <2> QED
    BY <2>1, <2>3, <2>4, <2>5, <1>1 DEF FindsBooks
<1> QED
  BY <1>7, <1>8, <1>9, <1>10 DEF MapInductive

\* Steps that only move a call: the books of the others stay as they are.
LEMMA OneCallMoves ==
  ASSUME MapInductive, NEW c \in Callers, NEW k \in CallRecord, call' = [call EXCEPT ![c] = k],
         UNCHANGED <<clock, stockMap, loadedAt, file, tossed>>,
         holder' \in Callers \cup {None}, \A x \in Callers : x # c => (holder' = x <=> holder = x),
         disturbed' \in [Callers -> SUBSET {"expired", "failed"}],
         \A x \in Callers : x # c => disturbed'[x] = disturbed[x],
         call[c].pc # "stamp",
         FindsBooks(c)' /\ LocksBooks(c)' /\ AnswerBooks(c)'
  PROVE  MapInductive'
<1>1. call' \in [Callers -> CallRecord] /\ \A x \in Callers : x # c => call'[x] = call[x]
  BY CallChanges
<1>2. MapTypeOK'
  BY <1>1 DEF MapInductive, MapTypeOK, CallRecord
<1>3. LoadedBooks'
  BY <1>1, LoadedStays
<1>4. ASSUME NEW x \in Callers, x # c PROVE FindsBooks(x)' /\ LocksBooks(x)' /\ AnswerBooks(x)'
  BY <1>1, <1>4, OthersKeep
<1> QED
  BY <1>2, <1>3, <1>4 DEF MapInductive

LEMMA LookStep == ASSUME MapInductive, NEW c \in Callers, Look(c) PROVE MapInductive'
<1> DEFINE k == [call[c] EXCEPT !.pc = IF stockMap # None THEN "return" ELSE "lock"]
<1>1. /\ call[c].pc = "look" /\ UNCHANGED <<clock, stockMap, loadedAt, file, holder, disturbed, tossed>>
      /\ call[c] \in CallRecord /\ MapTypeOK /\ LocksBooks(c) /\ FindsBooks(c)
  BY MapFacts DEF Look, At
<1>2. call' = [call EXCEPT ![c] = k]
  BY MapFacts DEF Look, Goes
<1>3. /\ k \in CallRecord /\ k.pc = (IF stockMap # None THEN "return" ELSE "lock")
      /\ k.now = call[c].now /\ k.tried = call[c].tried /\ k.result = call[c].result
  BY <1>1 DEF CallRecord, MapPcs
<1> HIDE DEF k
<1>4. call'[c] = k
  BY <1>2, <1>3, CallChanges
<1>5. FindsBooks(c)' /\ LocksBooks(c)' /\ AnswerBooks(c)'
  BY <1>1, <1>3, <1>4 DEF FindsBooks, LocksBooks, AnswerBooks, Excused
<1> QED
  BY <1>1, <1>2, <1>3, <1>5, OneCallMoves DEF MapTypeOK

LEMMA LockStep == ASSUME MapInductive, NEW c \in Callers, Lock(c) PROVE MapInductive'
<1> DEFINE k == [call[c] EXCEPT !.pc = "check"]
<1>1. /\ call[c].pc = "lock" /\ UNCHANGED <<clock, stockMap, loadedAt, file, disturbed, tossed>>
      /\ holder = None /\ holder' = c /\ None \notin Callers
      /\ call[c] \in CallRecord /\ MapTypeOK /\ FindsBooks(c)
  BY MapFacts, MapTimes DEF Lock, At
<1>2. call' = [call EXCEPT ![c] = k]
  BY MapFacts DEF Lock, Goes
<1>3. k \in CallRecord /\ k.pc = "check" /\ k.now = call[c].now /\ k.tried = call[c].tried /\ k.result = call[c].result
  BY <1>1 DEF CallRecord, MapPcs
<1> HIDE DEF k
<1>4. call'[c] = k
  BY <1>2, <1>3, CallChanges
<1>5. FindsBooks(c)' /\ LocksBooks(c)' /\ AnswerBooks(c)'
  BY <1>1, <1>3, <1>4 DEF FindsBooks, LocksBooks, AnswerBooks, Excused
<1>6. \A x \in Callers : x # c => (holder' = x <=> holder = x)
  BY <1>1
<1> QED
  BY <1>1, <1>2, <1>3, <1>5, <1>6, OneCallMoves DEF MapTypeOK

LEMMA CheckAgainStep == ASSUME MapInductive, NEW c \in Callers, CheckAgain(c) PROVE MapInductive'
<1> DEFINE found == stockMap # None /\ ~Old(call[c].now)
           k     == [call[c] EXCEPT !.pc = IF found THEN "return" ELSE "file"]
<1>1. /\ call[c].pc = "check" /\ UNCHANGED <<clock, stockMap, loadedAt, file, disturbed, tossed>>
      /\ holder = c /\ holder' = (IF found THEN None ELSE c) /\ None \notin Callers
      /\ call[c] \in CallRecord /\ MapTypeOK /\ FindsBooks(c)
  BY MapFacts, MapTimes DEF CheckAgain, At, LocksBooks
<1>2. call' = [call EXCEPT ![c] = k]
  BY MapFacts DEF CheckAgain, Goes
<1>3. /\ k \in CallRecord /\ k.pc = (IF found THEN "return" ELSE "file")
      /\ k.now = call[c].now /\ k.tried = call[c].tried /\ k.result = call[c].result
  BY <1>1 DEF CallRecord, MapPcs
<1>4. found => stockMap # None
  OBVIOUS
<1> HIDE DEF k, found
<1>5. call'[c] = k
  BY <1>2, <1>3, CallChanges
<1>6. FindsBooks(c)' /\ LocksBooks(c)' /\ AnswerBooks(c)'
  BY <1>1, <1>3, <1>4, <1>5 DEF FindsBooks, LocksBooks, AnswerBooks, Excused
<1>7. /\ \A x \in Callers : x # c => (holder' = x <=> holder = x)
      /\ holder' \in Callers \cup {None}
  BY <1>1
<1> QED
  BY <1>1, <1>2, <1>3, <1>6, <1>7, OneCallMoves DEF MapTypeOK

\* A new table, young by the time of its loader, is young for every call.
LEMMA TableArrives ==
  ASSUME MapInductive, NEW c \in Callers, call[c].pc \in {"file", "fetch"}, NEW t \in Table,
         stockMap' = t, call[c].now - t <= TTL,
         UNCHANGED <<clock, loadedAt, holder, disturbed, tossed>>,
         file' # None => file' \in [table : Table, written : Table] /\ file'.table = file'.written,
         NEW k \in CallRecord, call' = [call EXCEPT ![c] = k],
         k.now = call[c].now, k.pc = "stamp",
         k.result # None => k.result \in Table /\ k.now - k.result <= TTL
  PROVE  MapInductive'
<1>1. /\ call' \in [Callers -> CallRecord] /\ call'[c] = k
      /\ \A x \in Callers : x # c => call'[x] = call[x]
  BY CallChanges
<1>2. /\ holder = c /\ TTL \in Nat \ {0} /\ t \in Int /\ call[c].now \in Int /\ clock \in Int
      /\ call[c].now <= clock /\ clock <= call[c].now + 1
      /\ t \in MapAnswers /\ None \notin Table /\ Empty \notin Table /\ Table \subseteq Int
  BY MapFacts, MapTimes DEF LocksBooks, FindsBooks, MapAnswers
<1>3. MapTypeOK'
  BY <1>1, <1>2 DEF MapInductive, MapTypeOK, CallRecord
<1>4. LoadedBooks'
  BY <1>1, <1>2 DEF LoadedBooks, At
<1>5. FindsBooks(c)' /\ LocksBooks(c)' /\ AnswerBooks(c)'
  BY <1>1, <1>2 DEF FindsBooks, LocksBooks, AnswerBooks
<1>6. ASSUME NEW x \in Callers, x # c PROVE FindsBooks(x)' /\ LocksBooks(x)' /\ AnswerBooks(x)'
  <2>1. FindsBooks(x) /\ LocksBooks(x) /\ AnswerBooks(x) /\ call'[x] = call[x] /\ Excused(x)' = Excused(x)
    BY <1>1, <1>6, MapFacts DEF Excused
  <2>2. call[x].pc # "stamp" /\ call[x].now \in Int
    BY <2>1, <1>2, <1>6, MapFacts DEF LocksBooks
  <2>3. call[x].pc \notin {"new", "done"} => call[x].now - t <= 2 * TTL + 1
    <3>1. call[x].pc \notin {"new", "done"} => call[x].now <= clock
      BY <2>1 DEF FindsBooks
    <3> QED
      BY <3>1, <2>2, <1>2
  <2> QED
    BY <2>1, <2>2, <2>3, <1>2 DEF FindsBooks, LocksBooks, AnswerBooks
<1> QED
  BY <1>3, <1>4, <1>5, <1>6 DEF MapInductive

LEMMA LoadFileStep == ASSUME MapInductive, NEW c \in Callers, LoadFile(c) PROVE MapInductive'
<1>1. /\ call[c].pc = "file" /\ UNCHANGED <<clock, loadedAt, file, holder, disturbed, tossed>>
      /\ call[c] \in CallRecord /\ MapTypeOK /\ LocksBooks(c) /\ FindsBooks(c)
  BY MapFacts DEF LoadFile, At
<1>2. CASE /\ FileIsValid(call[c].now) /\ stockMap' = file.table
           /\ call' = [call EXCEPT ![c].pc = "stamp", ![c].result = file.table]
  <2> DEFINE k == [call[c] EXCEPT !.pc = "stamp", !.result = file.table]
  <2>1. /\ file.table \in Table /\ call[c].now - file.table <= TTL
        /\ file' # None => file' \in [table : Table, written : Table] /\ file'.table = file'.written
    BY <1>1, <1>2 DEF FileIsValid, MapTypeOK
  <2>2. call' = [call EXCEPT ![c] = k]
    BY <1>2, MapFacts
  <2>3. /\ k \in CallRecord /\ k.pc = "stamp" /\ k.now = call[c].now /\ k.result = file.table
    BY <1>1, <2>1 DEF CallRecord, MapPcs, MapAnswers
  <2> HIDE DEF k
  <2> QED
    BY <1>1, <1>2, <2>1, <2>2, <2>3, TableArrives
<1>3. CASE Goes(c, "fetch") /\ UNCHANGED stockMap
  <2> DEFINE k == [call[c] EXCEPT !.pc = "fetch"]
  <2>1. call' = [call EXCEPT ![c] = k]
    BY <1>3, MapFacts DEF Goes
  <2>2. k \in CallRecord /\ k.pc = "fetch" /\ k.now = call[c].now /\ k.tried = call[c].tried /\ k.result = call[c].result
    BY <1>1 DEF CallRecord, MapPcs
  <2> HIDE DEF k
  <2>3. call'[c] = k
    BY <2>1, <2>2, CallChanges
  <2>4. FindsBooks(c)' /\ LocksBooks(c)' /\ AnswerBooks(c)'
    BY <1>1, <1>3, <2>2, <2>3 DEF FindsBooks, LocksBooks, AnswerBooks, Excused
  <2> QED
    BY <1>1, <1>3, <2>1, <2>2, <2>4, OneCallMoves DEF MapTypeOK
<1> QED
  BY <1>2, <1>3 DEF LoadFile

LEMMA FetchTableStep == ASSUME MapInductive, NEW c \in Callers, Fetch(c) PROVE MapInductive'
<1> DEFINE k == [call[c] EXCEPT !.pc = "stamp"]
<1>1. /\ call[c].pc = "fetch" /\ UNCHANGED <<clock, loadedAt, holder, disturbed, tossed>> /\ stockMap' = clock
      /\ call[c] \in CallRecord /\ MapTypeOK /\ LocksBooks(c) /\ FindsBooks(c) /\ clock \in Table
      /\ file' \in {file, [table |-> clock, written |-> clock]}
  BY MapFacts DEF Fetch, At
<1>2. call' = [call EXCEPT ![c] = k]
  BY MapFacts DEF Fetch, Goes
<1>3. k \in CallRecord /\ k.pc = "stamp" /\ k.now = call[c].now /\ k.result = call[c].result
  BY <1>1 DEF CallRecord, MapPcs
<1>4. file' # None => file' \in [table : Table, written : Table] /\ file'.table = file'.written
  <2>1. CASE file' = file
    BY <1>1, <2>1 DEF MapTypeOK
  <2>2. CASE file' = [table |-> clock, written |-> clock]
    BY <1>1, <2>2
  <2> QED
    BY <1>1, <2>1, <2>2
<1>5. call[c].now - clock <= TTL
  <2>1. call[c].now <= clock
    BY <1>1 DEF FindsBooks
  <2>2. call[c].now \in Int /\ clock \in Int /\ TTL \in Nat
    BY <1>1, MapTimes DEF CallRecord
  <2> QED
    BY <2>1, <2>2
<1>6. call[c].result = None
  BY <1>1 DEF FindsBooks
<1> HIDE DEF k
<1> QED
  BY <1>1, <1>2, <1>3, <1>4, <1>5, <1>6, TableArrives

LEMMA FetchFailsStep == ASSUME MapInductive, NEW c \in Callers, FetchFails(c) PROVE MapInductive'
<1> DEFINE k == [call[c] EXCEPT !.pc = "return", !.tried = TRUE]
<1>1. /\ call[c].pc = "fetch" /\ UNCHANGED <<clock, loadedAt, file, tossed>>
      /\ stockMap' = (IF stockMap = None THEN Empty ELSE stockMap) /\ holder' = None /\ holder = c
      /\ call[c] \in CallRecord /\ MapTypeOK /\ FindsBooks(c) /\ stockMap \in MapAnswers
      /\ None \notin Table /\ Empty \notin Table /\ None # Empty /\ None \notin Callers
  BY MapFacts, MapTimes DEF FetchFails, At, Leftover, Stamp, LocksBooks
<1>2. call' = [call EXCEPT ![c] = k]
  BY MapFacts DEF FetchFails
<1>3. /\ k \in CallRecord /\ k.pc = "return" /\ k.now = call[c].now /\ k.tried = TRUE
      /\ k.result = call[c].result
  BY <1>1 DEF CallRecord, MapPcs
<1> HIDE DEF k
<1>4. call' \in [Callers -> CallRecord] /\ call'[c] = k /\ \A x \in Callers : x # c => call'[x] = call[x]
  BY <1>2, <1>3, CallChanges
<1>5. /\ disturbed' \in [Callers -> SUBSET {"expired", "failed"}]
      /\ \A x \in Callers : disturbed[x] \subseteq disturbed'[x]
      /\ \A x \in Callers : x # c /\ call[x].pc \notin {"new", "done"} => "failed" \in disturbed'[x]
  BY <1>1 DEF FetchFails, Disturb, MapTypeOK
<1>6. stockMap' \in MapAnswers /\ stockMap' # None /\ (stockMap' \in Table <=> stockMap \in Table)
      /\ (stockMap' \in Table => stockMap' = stockMap)
  BY <1>1 DEF MapAnswers
<1>7. MapTypeOK'
  BY <1>1, <1>4, <1>5, <1>6 DEF MapTypeOK, CallRecord
<1>8. LoadedBooks'
  <2>1. \A x \in Callers : ~At(x, "stamp")
    BY <1>1, MapFacts DEF LocksBooks, At
  <2> QED
    BY <2>1, <1>1, <1>6 DEF MapInductive, LoadedBooks
<1>9. FindsBooks(c)' /\ LocksBooks(c)' /\ AnswerBooks(c)'
  BY <1>1, <1>3, <1>4, <1>6 DEF FindsBooks, LocksBooks, AnswerBooks, Excused
<1>10. ASSUME NEW x \in Callers, x # c PROVE FindsBooks(x)' /\ LocksBooks(x)' /\ AnswerBooks(x)'
  <2>1. FindsBooks(x) /\ LocksBooks(x) /\ AnswerBooks(x) /\ call'[x] = call[x] /\ call[x].pc # "stamp"
    BY <1>1, <1>4, <1>10, MapFacts DEF LocksBooks
  <2>2. Excused(x) => Excused(x)'
    BY <2>1, <1>1, <1>5 DEF Excused
  <2>3. call[x].pc \notin {"new", "done"} => Excused(x)'
    BY <1>5, <1>10 DEF Excused
  <2>4. LocksBooks(x)' /\ AnswerBooks(x)'
    BY <2>1, <2>2, <1>1, <1>5, <1>10 DEF LocksBooks, AnswerBooks
  <2> QED
    BY <2>1, <2>3, <2>4, <1>1, <1>6 DEF FindsBooks
<1> QED
  BY <1>7, <1>8, <1>9, <1>10 DEF MapInductive

\* The time is set: from now on the table is judged by it.
LEMMA SetLoadedAtStep == ASSUME MapInductive, NEW c \in Callers, SetLoadedAt(c) PROVE MapInductive'
<1> DEFINE k == [call[c] EXCEPT !.pc = IF call[c].result # None THEN "done" ELSE "return"]
<1>1. /\ call[c].pc = "stamp" /\ UNCHANGED <<clock, stockMap, file, disturbed, tossed>>
      /\ loadedAt' = call[c].now /\ holder' = None /\ holder = c
      /\ call[c] \in CallRecord /\ MapTypeOK /\ FindsBooks(c) /\ stockMap \in MapAnswers
      /\ None \notin Table /\ Empty \notin Table /\ None # Empty /\ None \notin Callers
      /\ Table \subseteq Int /\ TTL \in Nat \ {0} /\ call[c].now \in Int
  BY MapFacts, MapTimes DEF SetLoadedAt, At, LocksBooks
<1>2. call' = [call EXCEPT ![c] = k]
  BY MapFacts DEF SetLoadedAt, Goes
<1>3. /\ k \in CallRecord /\ k.pc = (IF call[c].result # None THEN "done" ELSE "return")
      /\ k.now = call[c].now /\ k.tried = call[c].tried /\ k.result = call[c].result
  BY <1>1 DEF CallRecord, MapPcs
<1> HIDE DEF k
<1>4. call' \in [Callers -> CallRecord] /\ call'[c] = k /\ \A x \in Callers : x # c => call'[x] = call[x]
  BY <1>2, <1>3, CallChanges
<1>5. MapTypeOK'
  BY <1>1, <1>4 DEF MapTypeOK, CallRecord
<1>6. LoadedBooks'
  <2>1. stockMap \in Table => call[c].now - stockMap <= TTL
    BY <1>1 DEF FindsBooks
  <2>2. stockMap \notin Table => tossed
    BY <1>1 DEF FindsBooks, MapAnswers
  <2> QED
    BY <2>1, <2>2, <1>1 DEF LoadedBooks
<1>7. FindsBooks(c)' /\ LocksBooks(c)' /\ AnswerBooks(c)'
  <2>1. /\ call[c].result # None => call[c].result \in Table /\ call[c].now - call[c].result <= TTL
        /\ call[c].now <= clock /\ clock <= call[c].now + 1
        /\ stockMap \in Table => call[c].now - stockMap <= 2 * TTL + 1
        /\ stockMap # Empty
        /\ stockMap = None => "expired" \in disturbed[c]
    BY <1>1 DEF FindsBooks
  <2>2. call[c].result # None => call[c].now - call[c].result <= 2 * TTL + 1
    <3>1. call[c].result # None => call[c].result \in Int
      BY <2>1, <1>1
    <3> QED
      BY <2>1, <3>1, <1>1
  <2> QED
    BY <2>1, <2>2, <1>1, <1>3, <1>4 DEF FindsBooks, LocksBooks, AnswerBooks
<1>8. ASSUME NEW x \in Callers, x # c PROVE FindsBooks(x)' /\ LocksBooks(x)' /\ AnswerBooks(x)'
  <2>1. holder' = x <=> holder = x
    BY <1>1, <1>8
  <2> QED
    BY <2>1, <1>1, <1>4, <1>8, OthersKeep
<1> QED
  BY <1>5, <1>6, <1>7, <1>8 DEF MapInductive

LEMMA ReturnStep == ASSUME MapInductive, NEW c \in Callers, Return(c) PROVE MapInductive'
<1> DEFINE k == [call[c] EXCEPT !.pc = "done", !.result = stockMap]
<1>1. /\ call[c].pc = "return" /\ UNCHANGED <<clock, stockMap, loadedAt, file, holder, disturbed, tossed>>
      /\ call[c] \in CallRecord /\ MapTypeOK /\ FindsBooks(c) /\ LocksBooks(c) /\ stockMap \in MapAnswers
  BY MapFacts DEF Return, At
<1>2. call' = [call EXCEPT ![c] = k]
  BY MapFacts DEF Return
<1>3. k \in CallRecord /\ k.pc = "done" /\ k.now = call[c].now /\ k.tried = call[c].tried /\ k.result = stockMap
  BY <1>1 DEF CallRecord, MapPcs
<1> HIDE DEF k
<1>4. call'[c] = k
  BY <1>2, <1>3, CallChanges
<1>5. FindsBooks(c)' /\ LocksBooks(c)' /\ AnswerBooks(c)'
  BY <1>1, <1>3, <1>4 DEF FindsBooks, LocksBooks, AnswerBooks, Excused
<1> QED
  BY <1>1, <1>2, <1>3, <1>5, OneCallMoves DEF MapTypeOK

LEMMA AgainStep == ASSUME MapInductive, NEW c \in Callers, Again(c) PROVE MapInductive'
<1>1. /\ call[c].pc = "done" /\ UNCHANGED <<clock, stockMap, loadedAt, file, holder, tossed>>
      /\ call' = [call EXCEPT ![c] = NewCall] /\ disturbed' = [disturbed EXCEPT ![c] = {}]
      /\ MapTypeOK /\ LocksBooks(c)
  BY MapFacts DEF Again, At
<1>2. NewCall \in CallRecord /\ NewCall.pc = "new" /\ NewCall.result = None
  BY StockMapAssumption DEF NewCall, CallRecord, MapPcs, MapAnswers, Table
<1>3. call'[c] = NewCall
  BY <1>1, <1>2, CallChanges
<1>4. FindsBooks(c)' /\ LocksBooks(c)' /\ AnswerBooks(c)'
  BY <1>1, <1>2, <1>3 DEF FindsBooks, LocksBooks, AnswerBooks
<1>5. /\ disturbed' \in [Callers -> SUBSET {"expired", "failed"}]
      /\ \A x \in Callers : x # c => disturbed'[x] = disturbed[x]
  BY <1>1 DEF MapTypeOK
<1> QED
  BY <1>1, <1>2, <1>4, <1>5, OneCallMoves DEF MapTypeOK

LEMMA MapStep == ASSUME MapInductive, [MapNext]_mapVars PROVE MapInductive'
<1>1. CASE UNCHANGED mapVars
  BY <1>1 DEF mapVars, MapInductive, MapTypeOK, LoadedBooks, FindsBooks, LocksBooks, AnswerBooks, Excused, At
<1> QED
  BY <1>1, TickStep, TestStep, ExpireStep, LookStep, LockStep, CheckAgainStep, LoadFileStep, FetchTableStep,
     FetchFailsStep, SetLoadedAtStep, ReturnStep, AgainStep DEF MapNext

LEMMA NamesInInductive == ASSUME MapInductive PROVE StockNamesInv
  BY MapFacts
  DEF MapInductive, AnswerBooks, Excused, StockNamesInv, NoneNeedsAnotherCaller, TablesAgeTwice, FailuresAreRetried,
      HasReturned, At

(* Every caller gets an answer unless another one takes its table away, no  *)
(* table is older than twice its time, and a failed load is tried again,    *)
(* for any number of callers at any steps of the loading (main.py:337-415). *)
THEOREM StockNamesCorrect == MapSpec => []StockNamesInv
<1>1. MapInductive /\ [MapNext]_mapVars => MapInductive'
  BY MapStep
<1> QED
  BY <1>1, MapInitCorrect, NamesInInductive, PTL DEF MapSpec

-----------------------------------------------------------------------------
(* Chip scores.  Beside the margin no stock gets more than 14 quarters of a *)
(* point; the price levels and bins rest on least and largest elements and  *)
(* on division with any width.                                              *)

LEMMA Least ==
  ASSUME NEW S \in SUBSET Nat, S # {}
  PROVE  \E x \in S : \A y \in S : x <= y
<1>1. PICK x \in S : \A y \in S : ~ (<<y, x>> \in OpToRel(<, Nat))
  BY NatLessThanWellFounded, WFMin
<1>2. \A y \in S : ~ (y < x)
  BY <1>1 DEF OpToRel
<1> QED
  BY <1>2

LEMMA MinIsLeast ==
  ASSUME NEW S \in SUBSET Nat, S # {}
  PROVE  Min(S) \in S /\ \A x \in S : Min(S) <= x
  BY Least DEF Min

LEMMA MaxIsGreatest ==
  ASSUME NEW bound \in Nat, NEW S \in SUBSET (0 .. bound), S # {}
  PROVE  Max(S) \in S /\ \A x \in S : x <= Max(S)
<1> DEFINE Gaps == {bound - x : x \in S}
<1>1. Gaps \in SUBSET Nat /\ Gaps # {}
  <2>1. \A x \in 0 .. bound : bound - x \in Nat
    OBVIOUS
  <2> QED
    BY <2>1
<1>2. PICK g \in Gaps : \A h \in Gaps : g <= h
  BY <1>1, Least
<1>3. PICK x \in S : g = bound - x
  BY <1>2
<1>4. ASSUME NEW y \in S PROVE x >= y
  <2>1. bound - x <= bound - y
    BY <1>2, <1>3
  <2> QED
    BY <2>1
<1> QED
  BY <1>4 DEF Max

(* The points of each dimension.                                            *)
LEMMA Bounds ==
  ASSUME NEW s \in Stock
  PROVE  /\ Margin(s) \in {0, 2, 4, 8}
         /\ Density(s) \in {0, 2, 4}
         /\ Winners(s) \in {0, 2, 4}
         /\ CostRise(s) \in 0 .. 2
         /\ Overshoot(s) \in 0 .. 2
         /\ Support(s) \in 0 .. 2
<1>1. Margin(s) \in {0, 2, 4, 8}
  BY DEF Margin
<1>2. Density(s) \in {0, 2, 4}
  BY DEF Density
<1>3. Winners(s) \in {0, 2, 4}
  <2> DEFINE low == IF GoodLowWinners(s) THEN 4 ELSE 0
  <2>1. low \in {0, 4}
    OBVIOUS
  <2> QED
    BY <1>1, <2>1 DEF Winners
<1>4. CostRise(s) \in 0 .. 2
  BY DEF CostRise
<1>5. Overshoot(s) \in 0 .. 2
  BY DEF Overshoot
<1>6. Support(s) \in 0 .. 2
  BY DEF Support
<1> QED
  BY <1>1, <1>2, <1>3, <1>4, <1>5, <1>6

LEMMA ScoresHold ==
  ASSUME NEW s \in Stock
  PROVE  /\ Rating(s) >= 4 => Margin(s) > 0
         /\ Rating(s) = 5 => Margin(s) = 8
         /\ Panic(s) \/ s.density <= 20 => Rating(s) <= 2
         /\ s.winners > 90 /\ Winners(s) > 0 => s.change > 10
<1>1. Points(s) \in Int /\ Points(s) <= Margin(s) + 14
  BY Bounds DEF Points
<1>2. BaseRating(Points(s)) \in 1 .. 5 /\ MaxRating(s) \in {2, 5}
  BY DEF BaseRating, MaxRating
<1>3. Rating(s) <= BaseRating(Points(s)) /\ Rating(s) <= MaxRating(s) /\ Rating(s) \in 1 .. 5
  BY <1>2 DEF Rating
<1>4. Margin(s) = 0 => BaseRating(Points(s)) <= 3
  BY <1>1 DEF BaseRating
<1>5. Margin(s) \in {0, 2, 4} => BaseRating(Points(s)) <= 4
  BY <1>1 DEF BaseRating
<1>6. Margin(s) \in {0, 2, 4, 8}
  BY Bounds
<1>7. Rating(s) >= 4 => Margin(s) > 0
  BY <1>2, <1>3, <1>4, <1>6
<1>8. Rating(s) = 5 => Margin(s) = 8
  BY <1>2, <1>3, <1>5, <1>6
<1>9. Panic(s) \/ s.density <= 20 => Rating(s) <= 2
  <2>1. s.density <= 20 => Density(s) = 0
    BY DEF Density, Stock
  <2> QED
    BY <2>1, <1>3 DEF MaxRating
<1>10. s.winners > 90 /\ Winners(s) > 0 => s.change > 10
  <2>1. s.winners > 90 /\ Winners(s) > 0 => Margin(s) = 8
    BY <1>6 DEF Winners, Stock
  <2>2. Margin(s) = 8 => s.change > 10
    BY DEF Margin
  <2> QED
    BY <2>1, <2>2
<1> QED
  BY <1>7, <1>8, <1>9, <1>10

LEMMA LevelsHold ==
  ASSUME NEW l, l.ranked \in Seq(Nat \ {0}), Len(l.ranked) > 0, l.close \in Nat \ {0}
  PROVE  /\ TakeProfit(l) > 100 * l.close
         /\ StopLoss(l) >= 100 * l.close => \A p \in TopN(l.ranked, 3) : p > l.close
<1>1. /\ DOMAIN l.ranked = 1 .. Len(l.ranked) /\ Len(l.ranked) \in Nat
      /\ \A i \in 1 .. Len(l.ranked) : l.ranked[i] \in Nat \ {0}
  OBVIOUS
<1>2. \A n \in Nat : TopN(l.ranked, n) \subseteq {l.ranked[i] : i \in 1 .. Len(l.ranked)}
  BY <1>1 DEF TopN
<1>3. TakeProfit(l) > 100 * l.close
  <2>1. CASE Resistances(l) = {}
    BY <2>1 DEF TakeProfit
  <2>2. CASE Resistances(l) # {}
    <3>1. Resistances(l) \in SUBSET Nat /\ \A p \in Resistances(l) : p > l.close
      BY <1>1, <1>2 DEF Resistances
    <3>2. Min(Resistances(l)) \in Nat /\ Min(Resistances(l)) > l.close
      BY <2>2, <3>1, MinIsLeast
    <3>3. TakeProfit(l) = 102 * Min(Resistances(l))
      BY <2>2 DEF TakeProfit
    <3> QED
      BY <3>2, <3>3
  <2> QED
    BY <2>1, <2>2
<1>4. ASSUME Supports(l) # {} PROVE StopLoss(l) < 100 * l.close
  <2> DEFINE places == {i \in DOMAIN l.ranked : l.ranked[i] \in Supports(l)}
  <2>1. places \in SUBSET Nat /\ places # {}
    BY <1>1, <1>2, <1>4 DEF Supports
  <2>2. Min(places) \in places
    BY <2>1, MinIsLeast
  <2>3. l.ranked[Min(places)] \in Nat \ {0} /\ l.ranked[Min(places)] <= l.close
    BY <1>1, <2>2 DEF Supports
  <2>4. StopLoss(l) = 93 * l.ranked[Min(places)]
    BY <1>4 DEF StopLoss
  <2> HIDE DEF places
  <2> QED
    BY <2>3, <2>4
<1>5. ASSUME Supports(l) = {} PROVE \A p \in TopN(l.ranked, 3) : p > l.close
  BY <1>1, <1>2, <1>5 DEF Supports
<1>6. StopLoss(l) < 100 * l.close => ~(StopLoss(l) >= 100 * l.close)
  <2> SUFFICES ASSUME StopLoss(l) < 100 * l.close, StopLoss(l) >= 100 * l.close PROVE FALSE
    OBVIOUS
  <2>1. \E x \in Nat : StopLoss(l) = 93 * x
    <3>1. CASE Supports(l) = {}
      BY <1>1, <3>1 DEF StopLoss
    <3>2. CASE Supports(l) # {}
      <4> DEFINE places == {i \in DOMAIN l.ranked : l.ranked[i] \in Supports(l)}
      <4>1. places \in SUBSET Nat /\ places # {}
        BY <1>1, <1>2, <3>2 DEF Supports
      <4>2. Min(places) \in places
        BY <4>1, MinIsLeast
      <4> QED
        BY <1>1, <3>2, <4>2 DEF StopLoss
    <3> QED
      BY <3>1, <3>2
  <2> QED
    BY <2>1
<1> QED
  BY <1>3, <1>4, <1>5, <1>6

LEMMA Division ==
  ASSUME NEW x \in Nat, NEW s \in Nat \ {0}
  PROVE  /\ x \div s \in Nat /\ Floor(x, s) \in Nat
         /\ Floor(x, s) <= x /\ x < Floor(x, s) + s
         /\ Floor(x, s) % s = 0 /\ (Floor(x, s) + s) % s = 0
         /\ x % s # 0 => Floor(x, s) < x
         /\ Ceiling(x, s) \in Nat /\ x <= Ceiling(x, s)
<1>1. \A y \in Nat : /\ y \div s \in Nat /\ y = s * (y \div s) + (y % s) /\ y % s \in 0 .. s - 1
                     /\ Floor(y, s) \in Nat /\ Floor(y, s) <= y /\ y < Floor(y, s) + s
  <2> SUFFICES ASSUME NEW y \in Nat
               PROVE  /\ y \div s \in Nat /\ y = s * (y \div s) + (y % s) /\ y % s \in 0 .. s - 1
                      /\ Floor(y, s) \in Nat /\ Floor(y, s) <= y /\ y < Floor(y, s) + s
    OBVIOUS
  <2>1. y \div s \in Nat
    OBVIOUS
  <2>2. y = s * (y \div s) + (y % s) /\ y % s \in 0 .. s - 1
    OBVIOUS
  <2>3. Floor(y, s) \in Nat /\ Floor(y, s) <= y /\ y < Floor(y, s) + s
    BY <2>1, <2>2 DEF Floor
  <2> QED
    BY <2>1, <2>2, <2>3
<1>2. \A q \in Nat : (q * s) % s = 0
  OBVIOUS
<1>3. Floor(x, s) % s = 0
  BY <1>1, <1>2 DEF Floor
<1>4. (Floor(x, s) + s) % s = 0
  <2>1. Floor(x, s) + s = (x \div s + 1) * s /\ x \div s + 1 \in Nat
    BY <1>1 DEF Floor
  <2> QED
    BY <2>1, <1>2
<1>5. x % s # 0 => Floor(x, s) < x
  BY <1>1 DEF Floor
<1>6. Ceiling(x, s) = Floor(x + s - 1, s) /\ x + s - 1 \in Nat
  BY DEF Ceiling, Floor
<1>7. Ceiling(x, s) \in Nat /\ x <= Ceiling(x, s)
  <2>1. x + s - 1 < Floor(x + s - 1, s) + s /\ Floor(x + s - 1, s) \in Nat
    BY <1>1, <1>6
  <2> QED
    BY <2>1, <1>6
<1> QED
  BY <1>1, <1>3, <1>4, <1>5, <1>7

LEMMA FloorGrows ==
  ASSUME NEW x \in Nat, NEW y \in Nat, x <= y, NEW s \in Nat \ {0}
  PROVE  Floor(x, s) <= Floor(y, s)
<1>1. x \div s \in Nat /\ y \div s \in Nat /\ Floor(x, s) <= x /\ y < Floor(y, s) + s
      /\ Floor(x, s) \in Nat /\ Floor(y, s) \in Nat
  BY Division
<1>2. CASE x \div s <= y \div s
  <2>1. \A p, q \in Nat : p <= q => p * s <= q * s
    OBVIOUS
  <2> QED
    BY <1>1, <1>2, <2>1 DEF Floor
<1>3. CASE y \div s < x \div s
  <2>1. \A p, q \in Nat : p < q => p * s + s <= q * s
    OBVIOUS
  <2>2. Floor(y, s) + s <= Floor(x, s)
    BY <1>1, <1>3, <2>1 DEF Floor
  <2> QED
    BY <1>1, <2>2
<1> QED
  BY <1>1, <1>2, <1>3

LEMMA BinsHold ==
  ASSUME NEW b, b.prices \in SUBSET (1 .. MaxPrice) \ {{}}, b.step \in Nat \ {0},
         NEW p \in b.prices, ~(p = Max(b.prices) /\ p % b.step = 0)
  PROVE  InSomeBin(p, b)
<1> DEFINE s == b.step
           least == Min(b.prices)
           most == Max(b.prices)
           low == Floor(p, s)
<1>0. MaxPrice \in Nat /\ b.prices \in SUBSET (0 .. MaxPrice) /\ b.prices \in SUBSET Nat /\ b.prices # {}
  BY ChipScoresAssumption
<1>1. least \in b.prices /\ least <= p
  BY <1>0, MinIsLeast
<1>2. most \in b.prices /\ p <= most
  BY <1>0, MaxIsGreatest
<1>3. least \in Nat /\ most \in Nat /\ p \in Nat /\ s \in Nat \ {0}
  BY <1>0, <1>1, <1>2
<1> HIDE DEF least, most, s
<1>4. Floor(least, s) <= low /\ Floor(least, s) \in Nat
  BY <1>1, <1>3, FloorGrows, Division
<1>5. /\ low \in Nat /\ low <= p /\ p < low + s /\ low % s = 0 /\ (low + s) % s = 0
      /\ p % s # 0 => low < p
  BY <1>3, Division
<1>6. Ceiling(most, s) \in Nat /\ most <= Ceiling(most, s)
  BY <1>3, Division
<1> HIDE DEF low
<1>7. low < most
  <2>1. CASE p < most
    BY <2>1, <1>3, <1>5
  <2>2. CASE p = most
    <3>1. p % s # 0
      BY <2>2 DEF most, s
    <3> QED
      BY <2>2, <3>1, <1>3, <1>5
  <2> QED
    BY <2>1, <2>2, <1>2, <1>3
<1>8. low \in Floor(least, s) .. Ceiling(most, s) + s - 1
  BY <1>3, <1>4, <1>5, <1>6, <1>7
<1>9. low + s \in Floor(least, s) .. Ceiling(most, s) + s - 1
  BY <1>3, <1>4, <1>5, <1>6, <1>7
<1>10. low \in Edges(b) /\ low + s \in Edges(b)
  BY <1>5, <1>8, <1>9 DEF Edges, least, most, s
<1> QED
  BY <1>5, <1>10 DEF InSomeBin, s

(* The rules about the rating hold of every stock, those about the advice   *)
(* for any positive prices and every number of them, and the bins lose a    *)
(* highest price on an edge only, whatever their width                      *)
(* (chip_deep/analyzer.py:330-772, 1088-1166, 1603-1650).                   *)
THEOREM ChipScoresCorrect == ChipInit => ChipScoresInv
<1> SUFFICES ASSUME ChipInit PROVE ChipScoresInv
  OBVIOUS
<1>1. stock # NoStock => stock \in Stock
  BY ChipScoresAssumption DEF ChipInit
<1>2. StarsNeedBuyers /\ RisksCapTheRating /\ HotPricesNeedBuyers
  BY <1>1, ScoresHold DEF StarsNeedBuyers, RisksCapTheRating, HotPricesNeedBuyers
<1>3. levels.ranked \in Seq(Nat \ {0}) /\ Len(levels.ranked) > 0 /\ levels.close \in Nat \ {0}
  <2>1. CASE levels \in Levels
    BY <2>1, ChipScoresAssumption
  <2>2. CASE levels = Nowhere
    <3>1. <<20>> \in Seq(Nat \ {0}) /\ Len(<<20>>) > 0
      OBVIOUS
    <3>2. levels.ranked = <<20>> /\ levels.close = 20
      BY <2>2 DEF Nowhere
    <3> QED
      BY <3>1, <3>2
  <2> QED
    BY <2>1, <2>2 DEF ChipInit
<1>4. LevelsSurroundThePrice
  BY <1>3, LevelsHold DEF LevelsSurroundThePrice
<1>5. OnlyTheTopEdgeIsLost
  <2>1. CASE binned \in Distributions
    BY <2>1, ChipScoresAssumption, BinsHold DEF OnlyTheTopEdgeIsLost
  <2>2. CASE binned = NoBins
    <3>1. ASSUME NEW p \in {1} PROVE p = Max({1}) /\ p % 1 = 0
      <4>1. Max({1}) = 1
        BY DEF Max
      <4> QED
        BY <4>1
    <3> QED
      BY <2>2, <3>1 DEF OnlyTheTopEdgeIsLost, NoBins
  <2> QED
    BY <2>1, <2>2 DEF ChipInit
<1> QED
  BY <1>2, <1>4, <1>5 DEF ChipScoresInv
=============================================================================
