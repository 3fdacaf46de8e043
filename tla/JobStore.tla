------------------------------ MODULE JobStore ------------------------------
(***************************************************************************)
(* The in-process job store of the API (api/job_store.py,                  *)
(* InMemoryJobStore): a dictionary of job fields, one asyncio.Queue of     *)
(* events per job, and the async generators (streams) that SSE responses   *)
(* iterate.  All three are touched from one event loop; the dictionary and *)
(* the queue table are also touched from worker threads under one lock.    *)
(* A step is what the code does between two awaits.                        *)
(*                                                                         *)
(* The producers that call set_job and emit_event are not part of the      *)
(* store: here they may do anything; module JobRun drives the store as     *)
(* the analysis jobs of api/main.py do.                                    *)
(***************************************************************************)
EXTENDS Naturals, Sequences

CONSTANTS
  Jobs,        \* job ids
  Streams,     \* subscribe() generators, each used for one subscription
  Grace,       \* the 60 s of call_later, in poll intervals of 8 s
  Disconnects, \* may a client close its stream early?
  MaxEvents    \* bound: events per job the producers below emit

ASSUME JobStoreAssumption ==
  /\ Grace \in Nat \ {0}
  /\ Disconnects \in BOOLEAN
  /\ MaxEvents \in Nat

VARIABLES
  status,   \* _jobs[j]["status"], "absent" when _jobs has no entry for j
  created,  \* jobs whose entry holds created_at and user_id
  queueOf,  \* _job_events: the index in buffers of the job's queue, 0 if none
  buffers,  \* the contents of every queue ever made; a generator keeps its
            \* queue object after _job_events has forgotten it
  streams,  \* the local state of each generator
  emitted,  \* history: events emitted per job
  seen,     \* history: events each generator has yielded
  ending    \* history: why each generator ended; "completed" and "failed" are the
            \* statuses a poll may end it with, "overtaken" a poll that read
            \* "completed" with an event in the queue, "cut" the process's death

storeVars  == <<status, created>>
queueVars  == <<queueOf, buffers, emitted>>
streamVars == <<streams, seen, ending>>
vars       == <<status, created, queueOf, buffers, streams, emitted, seen, ending>>

Statuses == {"absent", "pending", "running", "completed", "failed"}
Terminal == {"completed", "failed"}
Kinds    == {"progress", "job.completed", "job.failed"}
TerminalKinds == {"job.completed", "job.failed"}
Event    == [job : Jobs, n : Nat \ {0}, kind : Kinds]

(* pc: idle, waiting in q.get(), expired (the timer of wait_for has         *)
(* cancelled the getter, the generator has not resumed yet), ended (cleanup *)
(* scheduled), gone (cleanup done).  grace: poll intervals until the        *)
(* scheduled _cleanup runs.                                                 *)
StreamPc == {"idle", "waiting", "expired", "ended", "gone"}
Looping  == {"waiting", "expired"}
Endings  == {"open", "event", "overtaken", "disconnect", "cut"} \cup Terminal

TypeOK ==
  /\ status \in [Jobs -> Statuses]
  /\ created \subseteq Jobs
  /\ buffers \in Seq(Seq(Event))
  /\ queueOf \in [Jobs -> 0 .. Len(buffers)]
  /\ streams \in [Streams -> [pc : StreamPc, job : Jobs, queue : 0 .. Len(buffers),
                              grace : 0 .. Grace]]
  /\ emitted \in [Jobs -> Nat]
  /\ seen \in [Streams -> SUBSET Event]
  /\ ending \in [Streams -> Endings]

Init ==
  /\ status = [j \in Jobs |-> "absent"]
  /\ created = {}
  /\ queueOf = [j \in Jobs |-> 0]
  /\ buffers = <<>>
  /\ streams \in [Streams -> [pc : {"idle"}, job : Jobs, queue : {0}, grace : {Grace}]]
  /\ emitted = [j \in Jobs |-> 0]
  /\ seen = [s \in Streams |-> {}]
  /\ ending = [s \in Streams |-> "open"]

-----------------------------------------------------------------------------
(* The operations of the store, as parts of the actions of its callers.    *)

\* set_job merges fields into the entry, making one when there is none.
SetJob(j, st) ==
  /\ status' = [status EXCEPT ![j] = st]
  /\ UNCHANGED created

\* The first set_job of a job also stores created_at, user_id and the rest.
CreateJob(j) ==
  /\ status' = [status EXCEPT ![j] = "pending"]
  /\ created' = created \cup {j}

\* _ensure_queue: the queue a lookup of j returns, made when missing.
Queue(j) == IF queueOf[j] = 0 THEN Len(buffers) + 1 ELSE queueOf[j]
Ensured(j) == IF queueOf[j] = 0 THEN Append(buffers, <<>>) ELSE buffers

\* emit_event, once per kind, within one step of the caller.
Emit(j, kinds) ==
  LET news == [i \in 1 .. Len(kinds) |->
                 [job |-> j, n |-> emitted[j] + i, kind |-> kinds[i]]]
  IN  /\ queueOf' = [queueOf EXCEPT ![j] = Queue(j)]
      /\ buffers' = [Ensured(j) EXCEPT ![Queue(j)] = @ \o news]
      /\ emitted' = [emitted EXCEPT ![j] = @ + Len(kinds)]

\* Variant: a delete that also drains the queue object, as _purge_stale_jobs does.
DeleteJob_Draining(j) ==
  /\ status' = [status EXCEPT ![j] = "absent"]
  /\ created' = created \ {j}
  /\ queueOf' = [queueOf EXCEPT ![j] = 0]
  /\ buffers' = [q \in DOMAIN buffers |-> IF q = queueOf[j] THEN <<>> ELSE buffers[q]]
  /\ UNCHANGED emitted

\* delete_job drops the entry and forgets the queue; generators keep theirs.
DeleteJob(j) ==
  /\ status' = [status EXCEPT ![j] = "absent"]
  /\ created' = created \ {j}
  /\ queueOf' = [queueOf EXCEPT ![j] = 0]
  /\ UNCHANGED <<buffers, emitted>>

-----------------------------------------------------------------------------
(* subscribe(): the steps of one generator.                                *)

\* The generator starts: it looks its queue up once and waits on it.
Subscribe(s) ==
  LET j == streams[s].job
  IN  /\ streams[s].pc = "idle"
      /\ queueOf' = [queueOf EXCEPT ![j] = Queue(j)]
      /\ buffers' = Ensured(j)
      /\ streams' = [streams EXCEPT ![s].pc = "waiting", ![s].queue = Queue(j)]
      /\ UNCHANGED <<status, created, emitted, seen, ending>>

\* The generator leaves its loop; its finally clause calls _schedule_cleanup
\* whatever the reason.
End(s, why) ==
  /\ streams' = [streams EXCEPT ![s].pc = "ended"]
  /\ ending' = [ending EXCEPT ![s] = why]

\* Variant: the newest event first.
Yield_Newest(s) ==
  LET q == streams[s].queue
      e == buffers[q][Len(buffers[q])]
  IN  /\ streams[s].pc = "waiting"
      /\ buffers[q] # <<>>
      /\ buffers' = [buffers EXCEPT ![q] = SubSeq(@, 1, Len(@) - 1)]
      /\ seen' = [seen EXCEPT ![s] = @ \cup {e}]
      /\ IF e.kind \in TerminalKinds
           THEN End(s, "event")
           ELSE UNCHANGED <<streams, ending>>
      /\ UNCHANGED <<status, created, queueOf, emitted>>

\* q.get() returns before the timeout: the event is yielded, and a terminal
\* one ends the loop.
Yield(s) ==
  LET q == streams[s].queue
      e == Head(buffers[q])
  IN  /\ streams[s].pc = "waiting"
      /\ buffers[q] # <<>>
      /\ buffers' = [buffers EXCEPT ![q] = Tail(@)]
      /\ seen' = [seen EXCEPT ![s] = @ \cup {e}]
      /\ IF e.kind \in TerminalKinds
           THEN End(s, "event")
           ELSE UNCHANGED <<streams, ending>>
      /\ UNCHANGED <<status, created, queueOf, emitted>>

\* Variant: the first poll without an event ends the stream.
PollTimeout_GivesUp(s) ==
  /\ streams[s].pc = "expired"
  /\ End(s, "event")
  /\ UNCHANGED <<status, created, queueOf, buffers, emitted, seen>>

\* The generator resumes after the timer: a finished job ends the loop, any
\* other answer (running, or no such job) yields a ping and waits again.  The
\* queue is not asked: what was put since the getter was cancelled stays in it.
PollTimeout(s) ==
  LET answer == status[streams[s].job]
  IN  /\ streams[s].pc = "expired"
      /\ IF answer \in Terminal
           THEN End(s, IF answer = "completed" /\ buffers[streams[s].queue] # <<>>
                         THEN "overtaken" ELSE answer)
           ELSE /\ streams' = [streams EXCEPT ![s].pc = "waiting"]
                /\ UNCHANGED ending
      /\ UNCHANGED <<status, created, queueOf, buffers, emitted, seen>>

\* The client goes away: the generator is closed while it waits.
Disconnect(s) ==
  /\ Disconnects
  /\ streams[s].pc \in Looping
  /\ End(s, "disconnect")
  /\ UNCHANGED <<status, created, queueOf, buffers, emitted, seen>>

\* Variant: the job is deleted as soon as a stream ends.
Cleanup_AtOnce(s) ==
  /\ streams[s].pc = "ended"
  /\ DeleteJob(streams[s].job)
  /\ streams' = [streams EXCEPT ![s].pc = "gone"]
  /\ UNCHANGED <<seen, ending>>

\* The call_later callback of _schedule_cleanup.
Cleanup(s) ==
  /\ streams[s].pc = "ended"
  /\ streams[s].grace = 0
  /\ DeleteJob(streams[s].job)
  /\ streams' = [streams EXCEPT ![s].pc = "gone"]
  /\ UNCHANGED <<seen, ending>>

\* A stream has something to do before the clock may advance: the loop is
\* responsive, so an expired timer is served within the poll interval.
Busy(s) ==
  \/ streams[s].pc = "waiting" /\ buffers[streams[s].queue] # <<>>
  \/ streams[s].pc = "expired"
  \/ streams[s].pc = "ended" /\ streams[s].grace = 0

\* One poll interval passes, and the timers of all waits fire.  That a timer
\* fires while its queue holds an event needs no step of its own: the event
\* was put after the clock stood still, so the timer may as well be first.
Tick ==
  /\ \A s \in Streams : ~Busy(s)
  /\ \E s \in Streams : streams[s].pc \in {"waiting", "ended"}
  /\ streams' = [s \in Streams |->
       CASE streams[s].pc = "waiting" -> [streams[s] EXCEPT !.pc = "expired"]
         [] streams[s].pc = "ended"   -> [streams[s] EXCEPT !.grace = @ - 1]
         [] OTHER                     -> streams[s]]
  /\ UNCHANGED <<status, created, queueOf, buffers, emitted, seen, ending>>

StreamStep(s) ==
  \/ Subscribe(s)
  \/ Yield(s)
  \/ PollTimeout(s)
  \/ Disconnect(s)
  \/ Cleanup(s)

-----------------------------------------------------------------------------
(* Producers that call the store in any order.                             *)

AnySetJob(j) ==
  /\ \/ CreateJob(j)
     \/ \E st \in {"running", "completed", "failed"} : SetJob(j, st)
  /\ UNCHANGED <<queueVars, streamVars>>

AnyEmit(j) ==
  /\ emitted[j] < MaxEvents
  /\ \E k \in Kinds : Emit(j, <<k>>)
  /\ UNCHANGED <<storeVars, streamVars>>

Next ==
  \/ \E j \in Jobs : AnySetJob(j) \/ AnyEmit(j)
  \/ \E s \in Streams : StreamStep(s)
  \/ Tick

Spec == Init /\ [][Next]_vars

-----------------------------------------------------------------------------
(* Every event ever emitted for a job is held exactly where the code put   *)
(* it: yielded by a stream or still in one of the job's queues.  Only the  *)
(* dropping of a queue by delete_job (job_store.py:80-83) takes events out *)
(* of reach of later streams; no interleaving of emit_event, q.get() and   *)
(* the poll timeout loses one.                                             *)
Yielded(j) == {e \in UNION {seen[s] : s \in Streams} : e.job = j}
Waiting(j) == {e \in UNION {{buffers[q][i] : i \in DOMAIN buffers[q]} : q \in DOMAIN buffers} : e.job = j}
NothingVanishes ==
  \A j \in Jobs : {e.n : e \in Yielded(j) \cup Waiting(j)} = 1 .. emitted[j]

(* Why no event is repeated or overtaken, as an inductive invariant.  A     *)
(* queue holds a job's events in emission order; an event waits in one      *)
(* queue at most, and in none once a stream has yielded it; what a stream   *)
(* has yielded is older than what waits in the queue it holds, even when    *)
(* that queue has been replaced in _job_events (job_store.py:87-93,         *)
(* 122-152).                                                                *)
Numbered ==
  \A q \in DOMAIN buffers : \A i \in DOMAIN buffers[q] :
    buffers[q][i].n <= emitted[buffers[q][i].job]
Ordered ==
  \A q \in DOMAIN buffers : \A i, k \in DOMAIN buffers[q] :
    i < k /\ buffers[q][i].job = buffers[q][k].job => buffers[q][i].n < buffers[q][k].n
OneQueue ==
  \A p, q \in DOMAIN buffers : p # q =>
    \A i \in DOMAIN buffers[p] : \A k \in DOMAIN buffers[q] :
      buffers[p][i].job = buffers[q][k].job => buffers[p][i].n # buffers[q][k].n
YieldedOnce ==
  \A s \in Streams : \A e \in seen[s] :
    /\ e.n <= emitted[e.job]
    /\ \A q \in DOMAIN buffers : \A i \in DOMAIN buffers[q] :
         buffers[q][i].job = e.job => buffers[q][i].n # e.n
InTime ==
  \A s \in Streams :
    /\ streams[s].pc = "idle" => seen[s] = {}
    /\ streams[s].pc \in Looping =>
         /\ streams[s].queue \in DOMAIN buffers
         /\ \A e \in seen[s] : \A i \in DOMAIN buffers[streams[s].queue] :
              buffers[streams[s].queue][i].job = e.job
                => e.n < buffers[streams[s].queue][i].n
DeliveryInv == Numbered /\ Ordered /\ OneQueue /\ YieldedOnce /\ InTime

(* The streams see the events of a job in emission order and no event      *)
(* reaches two of them, although several generators may share one queue    *)
(* and a job's queue may be replaced while generators still hold the old   *)
(* one (job_store.py:122-152, subscribe).                                  *)
Log == INSTANCE EventLog WITH Exclusive <- TRUE
EventLogImplemented == Log!Spec

(* The invariant of the store: its types, and the order and place of every  *)
(* undelivered event (job_store.py).                                        *)
StoreInv == TypeOK /\ DeliveryInv
=============================================================================
