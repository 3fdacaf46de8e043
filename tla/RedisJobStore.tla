---------------------------- MODULE RedisJobStore ----------------------------
(***************************************************************************)
(* The job store of deployments with several API processes                 *)
(* (api/job_store_redis.py): job fields in a Redis hash per job, events    *)
(* published on a channel per job.  Every operation is one command to      *)
(* Redis, so anything may happen between two of them.  A stream has two    *)
(* halves: a listener thread, which owns a subscription and moves          *)
(* messages into a queue on the event loop, and the generator that waits   *)
(* on that queue and polls the job's status when the wait times out.       *)
(*                                                                         *)
(* Jobs follow _run_job_inner of api/main.py: fields first, then the       *)
(* event.  A process that starts clears the keys of all processes          *)
(* (main.py:203), one batch of a SCAN at a time; the scheduler deletes the *)
(* key of a scheduled job when the job is over (scheduler/main.py:253).    *)
(***************************************************************************)
EXTENDS Naturals, Sequences

CONSTANTS
  JobIds,      \* job ids
  Streams,   \* subscribe() generators, each used once
  MaxEvents, \* bound: progress events of a job
  Clears     \* may a process start while jobs run?

ASSUME RedisAssumption == MaxEvents \in Nat /\ Clears \in BOOLEAN

VARIABLES
  hashes,   \* the status field of each job's hash, "absent" without the key
  run,      \* the step each job has reached in the process that runs it
  streams,  \* the two halves of each stream and the job it is about
  conn,     \* messages delivered to a listener's connection, not yet read
  queue,    \* the generator's asyncio.Queue
  scan,     \* keys the SCAN of a starting process has returned, not yet deleted
  emitted,  \* history: events published per job
  yielded,  \* history: events each generator has yielded
  since,    \* history: events published before each listener subscribed
  cleared   \* history: jobs whose key was deleted

redisVars == <<hashes, run, streams, conn, queue, scan, emitted, yielded, since, cleared>>

Finals   == {"completed", "failed"}
Looping  == {"waiting", "expired"}   \* in queue.get(), or after the timer of wait_for has cancelled it
RunPc    == {"new", "pending", "running", "stored", "done"}
Kinds    == {"progress", "verdict"}
Event    == [job : JobIds, n : Nat \ {0}, kind : Kinds]

RTypeOK ==
  /\ hashes \in [JobIds -> {"absent", "pending", "running"} \cup Finals]
  /\ run \in [JobIds -> RunPc]
  /\ streams \in [Streams -> [pc : {"idle", "gone"} \cup Looping, job : JobIds,
                              listener : {"off", "starting", "on", "dead"}]]
  /\ conn \in [Streams -> Seq(Event)]
  /\ queue \in [Streams -> Seq(Event)]
  /\ scan \subseteq JobIds
  /\ emitted \in [JobIds -> Nat]
  /\ yielded \in [Streams -> SUBSET Event]
  /\ since \in [Streams -> Nat]
  /\ cleared \subseteq JobIds

RedisInit ==
  /\ hashes = [j \in JobIds |-> "absent"]
  /\ run = [j \in JobIds |-> "new"]
  /\ streams \in [Streams -> [pc : {"idle"}, job : JobIds, listener : {"off"}]]
  /\ conn = [s \in Streams |-> <<>>]
  /\ queue = [s \in Streams |-> <<>>]
  /\ scan = {}
  /\ emitted = [j \in JobIds |-> 0]
  /\ yielded = [s \in Streams |-> {}]
  /\ since = [s \in Streams |-> 0]
  /\ cleared = {}

-----------------------------------------------------------------------------
(* Commands: set_job makes the key when it is missing; a message reaches    *)
(* the connections that are subscribed at that moment.                      *)

SetJob(j, st) == hashes' = [hashes EXCEPT ![j] = st]

EmitEvent(j, kind) ==
  LET e == [job |-> j, n |-> emitted[j] + 1, kind |-> kind]
  IN  /\ emitted' = [emitted EXCEPT ![j] = @ + 1]
      /\ conn' = [s \in Streams |->
                    IF streams[s].job = j /\ streams[s].listener = "on"
                      THEN Append(conn[s], e) ELSE conn[s]]

-----------------------------------------------------------------------------
(* A job, in whichever process runs it.                                     *)

JobCreated(j) ==
  /\ run[j] = "new"
  /\ SetJob(j, "pending")
  /\ run' = [run EXCEPT ![j] = "pending"]
  /\ UNCHANGED <<streams, conn, queue, scan, emitted, yielded, since, cleared>>

JobStarts(j) ==
  /\ run[j] = "pending"
  /\ SetJob(j, "running")
  /\ run' = [run EXCEPT ![j] = "running"]
  /\ UNCHANGED <<streams, conn, queue, scan, emitted, yielded, since, cleared>>

JobProgresses(j) ==
  /\ run[j] = "running"
  /\ emitted[j] < MaxEvents
  /\ EmitEvent(j, "progress")
  /\ UNCHANGED <<hashes, run, streams, queue, scan, yielded, since, cleared>>

\* The verdict and its result are stored ...
JobStored(j) ==
  /\ run[j] = "running"
  /\ \E v \in Finals : SetJob(j, v)
  /\ run' = [run EXCEPT ![j] = "stored"]
  /\ UNCHANGED <<streams, conn, queue, scan, emitted, yielded, since, cleared>>

\* ... and then published; after a failure the report row is written between.
JobEnds(j) ==
  /\ run[j] = "stored"
  /\ EmitEvent(j, "verdict")
  /\ run' = [run EXCEPT ![j] = "done"]
  /\ UNCHANGED <<hashes, streams, queue, scan, yielded, since, cleared>>

\* The scheduler deletes the key of its job, whoever still listens.
DeleteJob(j) ==
  /\ run[j] = "done"
  /\ SetJob(j, "absent")
  /\ cleared' = cleared \cup {j}
  /\ UNCHANGED <<run, streams, conn, queue, scan, emitted, yielded, since>>

-----------------------------------------------------------------------------
(* subscribe(): generator and listener.                                     *)

Subscribe(s) ==
  /\ streams[s].pc = "idle"
  /\ hashes[streams[s].job] # "absent"
  /\ streams' = [streams EXCEPT ![s].pc = "waiting", ![s].listener = "starting"]
  /\ UNCHANGED <<hashes, run, conn, queue, scan, emitted, yielded, since, cleared>>

\* The thread's pubsub.subscribe takes effect; what was published before is
\* not delivered.
ListenerSubscribes(s) ==
  /\ streams[s].listener = "starting"
  /\ streams' = [streams EXCEPT ![s].listener = "on"]
  /\ since' = [since EXCEPT ![s] = emitted[streams[s].job]]
  /\ UNCHANGED <<hashes, run, conn, queue, scan, emitted, yielded, cleared>>

\* Variant: the message goes to the head of the queue.
ListenerReads_Head(s) ==
  /\ streams[s].listener = "on"
  /\ conn[s] # <<>>
  /\ conn' = [conn EXCEPT ![s] = Tail(@)]
  /\ queue' = [queue EXCEPT ![s] = <<Head(conn[s])>> \o @]
  /\ UNCHANGED <<hashes, run, streams, scan, emitted, yielded, since, cleared>>

\* Variant: only the newest message of a batch is kept.
ListenerReads_Newest(s) ==
  /\ streams[s].listener = "on"
  /\ conn[s] # <<>>
  /\ conn' = [conn EXCEPT ![s] = <<>>]
  /\ queue' = [queue EXCEPT ![s] = Append(@, conn[s][Len(conn[s])])]
  /\ UNCHANGED <<hashes, run, streams, scan, emitted, yielded, since, cleared>>

\* get_message returns and the loop is asked to put the payload.
ListenerReads(s) ==
  /\ streams[s].listener = "on"
  /\ conn[s] # <<>>
  /\ conn' = [conn EXCEPT ![s] = Tail(@)]
  /\ queue' = [queue EXCEPT ![s] = Append(@, Head(conn[s]))]
  /\ UNCHANGED <<hashes, run, streams, scan, emitted, yielded, since, cleared>>

\* Any exception of the connection ends the thread, with a debug line.
ListenerFails(s) ==
  /\ streams[s].listener \in {"starting", "on"}
  /\ streams' = [streams EXCEPT ![s].listener = "dead"]
  /\ conn' = [conn EXCEPT ![s] = <<>>]
  /\ UNCHANGED <<hashes, run, queue, scan, emitted, yielded, since, cleared>>

\* The generator's finally clause: the thread is told to stop and joined.
Left(s) ==
  /\ streams' = [streams EXCEPT ![s].pc = "gone", ![s].listener = "off"]
  /\ conn' = [conn EXCEPT ![s] = <<>>]

Yield(s) ==
  /\ streams[s].pc = "waiting"
  /\ queue[s] # <<>>
  /\ queue' = [queue EXCEPT ![s] = Tail(@)]
  /\ yielded' = [yielded EXCEPT ![s] = @ \cup {Head(queue[s])}]
  /\ IF Head(queue[s]).kind = "verdict" THEN Left(s) ELSE UNCHANGED <<streams, conn>>
  /\ UNCHANGED <<hashes, run, scan, emitted, since, cleared>>

\* The timer cancels the getter; the generator resumes later.
WaitExpires(s) ==
  /\ streams[s].pc = "waiting"
  /\ queue[s] = <<>>
  /\ streams' = [streams EXCEPT ![s].pc = "expired"]
  /\ UNCHANGED <<hashes, run, conn, queue, scan, emitted, yielded, since, cleared>>

WaitsAgain(s) == streams' = [streams EXCEPT ![s].pc = "waiting"] /\ UNCHANGED conn

\* Variant: a poll that finds a verdict waits for the event that tells it.
PollTimeout_Waits(s) ==
  /\ streams[s].pc = "expired"
  /\ WaitsAgain(s)
  /\ UNCHANGED <<hashes, run, queue, scan, emitted, yielded, since, cleared>>

\* The generator resumes: a verdict ends the stream, whatever has been queued
\* since; any other answer, or none, yields a ping and waits again.
PollTimeout(s) ==
  /\ streams[s].pc = "expired"
  /\ IF hashes[streams[s].job] \in Finals THEN Left(s) ELSE WaitsAgain(s)
  /\ UNCHANGED <<hashes, run, queue, scan, emitted, yielded, since, cleared>>

Disconnect(s) ==
  /\ streams[s].pc \in Looping
  /\ Left(s)
  /\ UNCHANGED <<hashes, run, queue, scan, emitted, yielded, since, cleared>>

-----------------------------------------------------------------------------
(* clear() of a process that starts: SCAN returns keys, which are then      *)
(* deleted whatever has been written to them in between.                    *)

ScanKeys ==
  /\ Clears
  /\ scan = {}
  /\ scan' = {j \in JobIds : hashes[j] # "absent"}
  /\ scan' # {}
  /\ UNCHANGED <<hashes, run, streams, conn, queue, emitted, yielded, since, cleared>>

DeleteKeys ==
  /\ scan # {}
  /\ hashes' = [j \in JobIds |-> IF j \in scan THEN "absent" ELSE hashes[j]]
  /\ cleared' = cleared \cup scan
  /\ scan' = {}
  /\ UNCHANGED <<run, streams, conn, queue, emitted, yielded, since>>

RedisStep(j) ==
  JobCreated(j) \/ JobStarts(j) \/ JobProgresses(j) \/ JobStored(j) \/ JobEnds(j) \/ DeleteJob(j)
Listener(s) == ListenerSubscribes(s) \/ ListenerReads(s)
Timer(s)    == WaitExpires(s) \/ PollTimeout(s)

RedisNext ==
  \/ \E j \in JobIds : RedisStep(j)
  \/ \E s \in Streams : \/ Subscribe(s) \/ Listener(s) \/ ListenerFails(s)
                        \/ Yield(s) \/ Timer(s) \/ Disconnect(s)
  \/ ScanKeys
  \/ DeleteKeys

RedisSpec == RedisInit /\ [][RedisNext]_redisVars

(* The event loop serves every generator (a queued event or the timer of    *)
(* its wait), and a listener thread that has not failed is scheduled.  Nothing  *)
(* is assumed of jobs, clients or the connection.                           *)
RedisFairSpec ==
  /\ RedisSpec
  /\ \A s \in Streams : WF_redisVars(Yield(s)) /\ WF_redisVars(Timer(s)) /\ WF_redisVars(Listener(s))

-----------------------------------------------------------------------------
(* A stream sees the events of a job in the order they were published and   *)
(* none twice, through two hand-overs, although each stream gets its own    *)
(* copy (job_store_redis.py:106-166).                                       *)
Log == INSTANCE EventLog WITH Exclusive <- FALSE, Jobs <- JobIds, seen <- yielded
BroadcastImplemented == Log!Spec

(* A stream whose listener is subscribed and alive misses nothing that is   *)
(* published from then on: every such event has been yielded, is queued on  *)
(* the loop or is on the connection.  What came before, the subscription    *)
(* has lost for good (job_store_redis.py:113, 137).                         *)
Held(q) == {q[i].n : i \in DOMAIN q}
AttachedMissNothing ==
  \A s \in Streams : streams[s].listener = "on" =>
    {e.n : e \in yielded[s]} \cup Held(queue[s]) \cup Held(conn[s])
      = since[s] + 1 .. emitted[streams[s].job]

(* Whoever has seen a job's last event finds its verdict when it asks for   *)
(* the result, unless the key is deleted: main.py stores the fields before  *)
(* it publishes (2219-2243, 2246-2267).                                     *)
ResultIsThere ==
  \A s \in Streams : \A e \in yielded[s] :
    e.kind = "verdict" /\ e.job \notin cleared => hashes[e.job] \in Finals

\* The verdict was published while the listener was subscribed.
VerdictDelivered(s) ==
  LET j == streams[s].job IN run[j] = "done" /\ streams[s].listener = "on" /\ since[s] < emitted[j]

(* Lost events, a listener that died or one that subscribed too late never  *)
(* keep a stream open: once the verdict is stored, every stream of the job  *)
(* ends.  A stream to which the verdict was not delivered needs the key for *)
(* that, and polls for ever when the key is deleted under it                *)
(* (job_store_redis.py:151-168, scheduler/main.py:252-253).                 *)
StreamsEnd ==
  \A s \in Streams :
    (streams[s].pc \in Looping /\ hashes[streams[s].job] \in Finals)
      ~> (streams[s].pc = "gone" \/ (streams[s].job \in cleared /\ ~VerdictDelivered(s)))

(* The invariant of the store: nothing is lost while a listener is          *)
(* attached, and results are there before they are announced                *)
(* (job_store_redis.py).                                                    *)
RedisInv == RTypeOK /\ AttachedMissNothing /\ ResultIsThere
=============================================================================
