----------------------------- MODULE AkshareLock -----------------------------
(***************************************************************************)
(* The lock around every call of the akshare library, _AkshareLock in      *)
(* tradingagents/dataflows/providers/cn_akshare_provider.py: Total permits *)
(* for all threads, of which the threads of scheduled analyses may take    *)
(* ScheduledMax.  A job that times out leaves its thread behind, perhaps   *)
(* for ever in a call; a thread that has waited too long takes the permits *)
(* of such holders back.  The 120 seconds after which a holder counts as   *)
(* stale pass at any moment of its call.                                   *)
(***************************************************************************)
EXTENDS Integers, FiniteSets

CONSTANTS
  Threads,       \* threads that call akshare
  Total,         \* permits
  ScheduledMax   \* permits open to scheduled analyses

ASSUME LockAssumption ==
  /\ IsFiniteSet(Threads)
  /\ Total \in Nat /\ ScheduledMax \in Nat

VARIABLES
  total,      \* value of the semaphore _total
  scheduled,  \* value of the semaphore _scheduled
  holders,    \* threads in _holders
  stale,      \* those that have held their permit for too long
  caller,     \* thread -> where it is, and whether it is a scheduled task
  reclaimed   \* history: threads in a call without a permit

lockVars == <<total, scheduled, holders, stale, caller, reclaimed>>

\* The semaphore waited for and the attempt, the call, and its two ends.
Waiting == {"scheduled", "total"} \X {"first", "reclaim", "second"}
Places  == Waiting \cup {"idle", "register", "calling", "releasing"} \X {"-"}
At(place) == <<place, "-">>

LockTypeOK ==
  /\ total \in Int /\ scheduled \in Int
  /\ holders \subseteq Threads /\ stale \subseteq Threads /\ reclaimed \subseteq Threads
  /\ caller \in [Threads -> [pc : Places, task : BOOLEAN]]

LockInit ==
  /\ total = Total /\ scheduled = ScheduledMax
  /\ holders = {} /\ stale = {} /\ reclaimed = {}
  /\ caller = [t \in Threads |-> [pc |-> At("idle"), task |-> FALSE]]

-----------------------------------------------------------------------------
MoveTo(t, place) == caller' = [caller EXCEPT ![t].pc = place]

\* A with statement: a scheduled task takes two semaphores, in this order.
EnterCall(t, task) ==
  /\ caller[t].pc = At("idle")
  /\ caller' = [caller EXCEPT ![t] =
       [pc |-> <<IF task THEN "scheduled" ELSE "total", "first">>, task |-> task]]
  /\ UNCHANGED <<total, scheduled, holders, stale, reclaimed>>

AcquireScheduled(t) ==
  /\ caller[t].pc \in {<<"scheduled", "first">>, <<"scheduled", "second">>}
  /\ scheduled > 0
  /\ scheduled' = scheduled - 1
  /\ MoveTo(t, <<"total", "first">>)
  /\ UNCHANGED <<total, holders, stale, reclaimed>>

AcquireTotal(t) ==
  /\ caller[t].pc \in {<<"total", "first">>, <<"total", "second">>}
  /\ total > 0
  /\ total' = total - 1
  /\ MoveTo(t, At("register"))
  /\ UNCHANGED <<scheduled, holders, stale, reclaimed>>

\* The 60 seconds of the first attempt are over.
FirstWaitEnds(t) ==
  /\ \/ caller[t].pc = <<"scheduled", "first">> /\ scheduled <= 0
     \/ caller[t].pc = <<"total", "first">> /\ total <= 0
  /\ MoveTo(t, <<caller[t].pc[1], "reclaim">>)
  /\ UNCHANGED <<total, scheduled, holders, stale, reclaimed>>

\* _reclaim_stale, under the mutex of _holders; then ten seconds more.
ReclaimStale(t) ==
  /\ caller[t].pc \in {<<"scheduled", "reclaim">>, <<"total", "reclaim">>}
  /\ LET zombies == holders \cap stale
     IN  /\ holders' = holders \ zombies
         /\ total' = total + Cardinality(zombies)
         /\ scheduled' = scheduled + Cardinality({h \in zombies : caller[h].task})
         /\ reclaimed' = reclaimed \cup zombies
  /\ MoveTo(t, <<caller[t].pc[1], "second">>)
  /\ UNCHANGED stale

\* Variant: a task that gives up keeps the scheduled permit.
SecondWaitEnds_Keeps(t) ==
  /\ \/ caller[t].pc = <<"scheduled", "second">> /\ scheduled <= 0
     \/ caller[t].pc = <<"total", "second">> /\ total <= 0
  /\ MoveTo(t, At("idle"))
  /\ UNCHANGED <<total, scheduled, holders, stale, reclaimed>>

\* The TimeoutError; a task that waited for _total returns _scheduled.
SecondWaitEnds(t) ==
  /\ \/ /\ caller[t].pc = <<"scheduled", "second">> /\ scheduled <= 0
        /\ UNCHANGED scheduled
     \/ /\ caller[t].pc = <<"total", "second">> /\ total <= 0
        /\ scheduled' = scheduled + (IF caller[t].task THEN 1 ELSE 0)
  /\ MoveTo(t, At("idle"))
  /\ UNCHANGED <<total, holders, stale, reclaimed>>

Register(t) ==
  /\ caller[t].pc = At("register")
  /\ holders' = holders \cup {t}
  /\ stale' = stale \ {t}
  /\ MoveTo(t, At("calling"))
  /\ UNCHANGED <<total, scheduled, reclaimed>>

GrowStale(t) ==
  /\ t \in holders /\ t \notin stale
  /\ stale' = stale \cup {t}
  /\ UNCHANGED <<total, scheduled, holders, caller, reclaimed>>

\* The call ends: who is no longer among the holders has nothing to release.
ExitCall(t) ==
  /\ caller[t].pc = At("calling")
  /\ holders' = holders \ {t} /\ stale' = stale \ {t} /\ reclaimed' = reclaimed \ {t}
  /\ MoveTo(t, IF t \in holders THEN At("releasing") ELSE At("idle"))
  /\ UNCHANGED <<total, scheduled>>

Release(t) ==
  /\ caller[t].pc = At("releasing")
  /\ total' = total + 1
  /\ scheduled' = scheduled + (IF caller[t].task THEN 1 ELSE 0)
  /\ MoveTo(t, At("idle"))
  /\ UNCHANGED <<holders, stale, reclaimed>>

LockNext ==
  \E t \in Threads :
    \/ \E task \in BOOLEAN : EnterCall(t, task)
    \/ AcquireScheduled(t) \/ AcquireTotal(t)
    \/ FirstWaitEnds(t) \/ ReclaimStale(t) \/ SecondWaitEnds(t)
    \/ Register(t) \/ GrowStale(t) \/ ExitCall(t) \/ Release(t)

LockSpec == LockInit /\ [][LockNext]_lockVars

-----------------------------------------------------------------------------
\* Threads that a permit of a semaphore is out for.
WithTotal == {t \in Threads : \/ caller[t].pc \in {At("register"), At("releasing")}
                              \/ caller[t].pc = At("calling") /\ t \in holders}
WithScheduled ==
  {t \in Threads : caller[t].task /\ (t \in WithTotal \/ caller[t].pc \in {"total"} \X {"first", "reclaim", "second"})}

(* Each permit is free or out for exactly one thread, however waits, calls,  *)
(* reclaims and late ends of reclaimed calls interleave: no permit is lost   *)
(* with a zombie, and none is released twice (cn_akshare_provider.py:58-116).*)
PermitsAddUp ==
  /\ total + Cardinality(WithTotal) = Total
  /\ scheduled + Cardinality(WithScheduled) = ScheduledMax
  /\ total >= 0 /\ scheduled >= 0

(* More calls than permits are under way only because calls that went stale  *)
(* had their permits reclaimed; of the calls with a permit at most           *)
(* ScheduledMax belong to scheduled tasks, so the others stay open to users  *)
(* (the comment at cn_akshare_provider.py:14-21).                            *)
OnlyZombiesExceed ==
  LET calling == {t \in Threads : caller[t].pc = At("calling")}
  IN  /\ Cardinality(calling \ stale) <= Total
      /\ Cardinality({t \in calling \ stale : caller[t].task}) <= ScheduledMax
      /\ calling \ holders = reclaimed /\ reclaimed \subseteq stale

(* The invariant of the lock: permits add up and only reclaimed calls       *)
(* exceed them (cn_akshare_provider.py).                                    *)
PermitsInv == LockTypeOK /\ PermitsAddUp /\ OnlyZombiesExceed
=============================================================================
