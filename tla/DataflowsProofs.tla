--------------------------- MODULE DataflowsProofs ---------------------------
(***************************************************************************)
(* Proofs about the layer below the agents' tools (tradingagents/          *)
(* dataflows): the data pools that jobs share, the permits of the akshare  *)
(* lock, the trading calendar and the order of the vendors.  The           *)
(* components share no state; each part stands by itself.                  *)
(***************************************************************************)
EXTENDS DataCollector, AkshareLock, TradeCalendar, VendorRouting, FiniteSetTheorems,
        SequenceTheorems, TLAPS

-----------------------------------------------------------------------------
(* The data pools, for any number of jobs and keys.  Whatever the jobs do, *)
(* counts are exact and nobody fetches a key that somebody is fetching:    *)
(* the lock of a key is made once, and a fetcher holds it and has found no *)
(* pool.  The counts protect the pools: while a job still has to evict a   *)
(* key, an eviction by another leaves the pool, and every pool belongs to  *)
(* a job that will evict its key, to one that gave up waiting for it or to *)
(* one that has collected under a key it does not hold.                    *)

JobType    == [pc : JobPc, key : Keys, ticker : Keys, dry : BOOLEAN, late : BOOLEAN]
Working    == {"start", "lock", "fetch", "read"}
HoldingPcs == {"collect", "wait", "use", "evict"}

(* The lock of a key is one object for ever; who is at it has looked it up. *)
KeyLocks ==
  /\ \A k, l \in Keys : locks[k] # 0 /\ locks[k] = locks[l] => k = l
  /\ \A j \in Jobs : threads[j].pc \in {"lock", "fetch"} =>
       threads[j].lock # 0 /\ threads[j].lock = locks[jobs[j].ticker]

(* Who fetches a key holds its lock, is alone, and has found no pool.       *)
Fetchers ==
  /\ \A j \in Jobs : threads[j].pc = "fetch" =>
       threads[j].lock \in held /\ cache[jobs[j].ticker] = 0
  /\ \A i, j \in Jobs :
       /\ threads[i].pc = "fetch" /\ threads[j].pc = "fetch"
       /\ jobs[i].ticker = jobs[j].ticker
       => i = j

(* Evictions of dry runs can only make a count too small.                   *)
Counts ==
  /\ \A k \in Keys : refs[k] <= Cardinality(Holds(k))
  /\ RefcountExact
  /\ \A j \in Jobs : jobs[j].dry => jobs[j].pc \in {"new", "evict", "over"}

SafeInv == CollectorTypeOK /\ KeyLocks /\ Fetchers /\ Counts

(* A thread that works is waited for, or was given up; and every pool has a *)
(* job that will evict its key, or one that nothing makes evict it.         *)
Awaited ==
  \A j \in Jobs : /\ threads[j].pc \in Working => jobs[j].pc = "wait" \/ jobs[j].late
                  /\ jobs[j].pc \in {"new", "ref", "collect"} => threads[j].pc = "none"
Owned   == \A k \in Keys : cache[k] # 0 =>
             Holds(k) # {} \/ \E j \in Jobs : jobs[j].ticker = k /\ (jobs[j].late \/ Astray(j))
Returned ==
  \A j \in Jobs :
    /\ jobs[j].pc \in {"wait", "use"} /\ threads[j].pc = "returned"
    /\ Referenced(jobs[j].ticker) /\ ~Astray(j)
    => cache[jobs[j].ticker] # 0 /\ cache[jobs[j].ticker] = threads[j].got

PoolInv == SafeInv /\ Awaited /\ Owned /\ Returned

-----------------------------------------------------------------------------
(* Types, and what no step changes.                                        *)

LEMMA JobStepTypes ==
  ASSUME CollectorTypeOK, NEW j \in Jobs, JobStep(j)
  PROVE  CollectorTypeOK'
<1> USE DEF CollectorTypeOK
<1>1. jobs' \in [Jobs -> JobType]
  <2>1. jobs \in [Jobs -> JobType]
    BY DEF JobType
  <2>2. \/ \E pc \in JobPc : jobs' = [jobs EXCEPT ![j].pc = pc]
        \/ jobs' = [jobs EXCEPT ![j].pc = "use", ![j].late = TRUE]
    BY DEF JobStep, Enter, Ref, SkipCollect, StartCollect, Collected, WaitTimesOut, Used, Raise,
           Evict, Advance, JobPc
  <2>3. ASSUME NEW pc \in JobPc PROVE [jobs EXCEPT ![j].pc = pc] \in [Jobs -> JobType]
    BY <2>1 DEF JobType
  <2>4. [jobs EXCEPT ![j].pc = "use", ![j].late = TRUE] \in [Jobs -> JobType]
    BY <2>1 DEF JobType, JobPc
  <2> QED
    BY <2>2, <2>3, <2>4
<1>2. threads' \in [Jobs -> [pc : ThreadPc, lock : 0 .. made, got : Nat]]
  BY DEF JobStep, Enter, Ref, SkipCollect, StartCollect, Collected, WaitTimesOut, Used, Raise,
         Evict, Move, ThreadPc
<1>3. UNCHANGED <<locks, made, held, fetches>>
  BY DEF JobStep, Enter, Ref, SkipCollect, StartCollect, Collected, WaitTimesOut, Used, Raise,
         Evict, poolVars
<1>4. cache' \in [Keys -> Nat] /\ refs' \in [Keys -> Nat]
  BY DEF JobStep, Enter, Ref, SkipCollect, StartCollect, Collected, WaitTimesOut, Used, Raise,
         Evict, poolVars
<1> QED
  BY <1>1, <1>2, <1>3, <1>4 DEF JobType

LEMMA ThreadStepTypes ==
  ASSUME CollectorTypeOK, NEW j \in Jobs, KeyLocks, ThreadStep(j)
  PROVE  CollectorTypeOK'
<1> USE DEF CollectorTypeOK
<1>1. CASE GetKeyLock(j)
  <2>1. locks[jobs[j].ticker] \in 0 .. made
    OBVIOUS
  <2>2. made' \in Nat /\ made' >= made /\ locks' \in [Keys -> 0 .. made']
    BY <1>1, <2>1 DEF GetKeyLock
  <2>3. threads' = [threads EXCEPT ![j].pc = "lock", ![j].lock = locks'[jobs[j].ticker]]
    BY <1>1 DEF GetKeyLock
  <2>4. threads' \in [Jobs -> [pc : ThreadPc, lock : 0 .. made', got : Nat]]
    <3>1. 0 .. made \subseteq 0 .. made' /\ locks'[jobs[j].ticker] \in 0 .. made'
      BY <2>2
    <3>2. threads \in [Jobs -> [pc : ThreadPc, lock : 0 .. made', got : Nat]]
      BY <3>1
    <3> QED
      BY <2>3, <3>1, <3>2 DEF ThreadPc
  <2>5. held' \subseteq 1 .. made' /\ UNCHANGED <<cache, refs, fetches, jobs>>
    BY <1>1, <2>2 DEF GetKeyLock
  <2> QED
    BY <2>2, <2>4, <2>5
<1>2. CASE EnterLock(j)
  <2>1. threads' \in [Jobs -> [pc : ThreadPc, lock : 0 .. made, got : Nat]]
    BY <1>2 DEF EnterLock, Move, ThreadPc
  <2>2. threads[j].lock \in 1 .. made
    BY <1>2 DEF EnterLock, Move, KeyLocks
  <2> QED
    BY <1>2, <2>1, <2>2 DEF EnterLock
<1>3. CASE Fetched(j)
  BY <1>3 DEF Fetched, Move, ThreadPc
<1>4. CASE FetchRaises(j)
  BY <1>4 DEF FetchRaises, Move, ThreadPc
<1>5. CASE ReadBack(j)
  <2>1. cache[jobs[j].ticker] \in Nat
    OBVIOUS
  <2>2. threads' \in [Jobs -> [pc : ThreadPc, lock : 0 .. made, got : Nat]]
    <3>1. PICK pc \in {"raised", "returned"}, c \in Nat :
            threads' = [threads EXCEPT ![j].pc = pc, ![j].got = c]
      BY <1>5, <2>1 DEF ReadBack
    <3> QED
      BY <3>1 DEF ThreadPc
  <2> QED
    BY <1>5, <2>2 DEF ReadBack, poolVars
<1> QED
  BY <1>1, <1>2, <1>3, <1>4, <1>5 DEF ThreadStep

\* A job keeps its key, its ticker and its mode.
LEMMA JobsKept ==
  ASSUME CollectorTypeOK, NEW j \in Jobs, JobStep(j) \/ ThreadStep(j), NEW i \in Jobs
  PROVE  /\ jobs'[i].key = jobs[i].key /\ jobs'[i].ticker = jobs[i].ticker
         /\ jobs'[i].dry = jobs[i].dry /\ (jobs[i].late => jobs'[i].late)
         /\ i # j => jobs'[i] = jobs[i] /\ threads'[i] = threads[i]
<1> USE DEF CollectorTypeOK
<1>1. CASE JobStep(j)
  BY <1>1 DEF JobStep, Enter, Ref, SkipCollect, StartCollect, Collected, WaitTimesOut, Used, Raise,
         Evict, Advance, Move, poolVars
<1>2. CASE ThreadStep(j)
  BY <1>2 DEF ThreadStep, GetKeyLock, EnterLock, Fetched, FetchRaises, ReadBack, Move, poolVars
<1> QED
  BY <1>1, <1>2

LEMMA ReferencedKept ==
  ASSUME CollectorTypeOK, NEW j \in Jobs, JobStep(j) \/ ThreadStep(j), NEW k \in Keys
  PROVE  Referenced(k)' <=> Referenced(k)
  BY JobsKept DEF Referenced

-----------------------------------------------------------------------------
(* Locks and fetchers.                                                     *)

LEMMA JobStepLocks ==
  ASSUME SafeInv, NEW j \in Jobs, JobStep(j)
  PROVE  KeyLocks' /\ Fetchers'
<1> USE DEF SafeInv
<1>1. \A i \in Jobs : threads'[i].pc \in {"lock", "fetch"} => threads'[i] = threads[i]
  BY DEF CollectorTypeOK, JobStep, Enter, Ref, SkipCollect, StartCollect, Collected, WaitTimesOut,
         Used, Raise, Evict, Move
<1>2. UNCHANGED <<locks, held>> /\ \A k \in Keys : cache[k] = 0 => cache'[k] = 0
  BY DEF CollectorTypeOK, JobStep, Enter, Ref, SkipCollect, StartCollect, Collected, WaitTimesOut,
         Used, Raise, Evict, poolVars
<1>3. \A i \in Jobs : jobs[i].ticker \in Keys /\ jobs'[i].ticker = jobs[i].ticker
  BY JobsKept DEF CollectorTypeOK
<1> QED
  BY <1>1, <1>2, <1>3 DEF KeyLocks, Fetchers

LEMMA ThreadStepLocks ==
  ASSUME SafeInv, NEW j \in Jobs, ThreadStep(j)
  PROVE  KeyLocks' /\ Fetchers'
<1> DEFINE k == jobs[j].ticker
<1> USE DEF SafeInv
<1>1. /\ UNCHANGED jobs
      /\ \A i \in Jobs : jobs[i].ticker \in Keys /\ (i # j => threads'[i] = threads[i])
  BY JobsKept DEF CollectorTypeOK, ThreadStep, GetKeyLock, EnterLock, Fetched, FetchRaises, ReadBack
<1>2. CASE GetKeyLock(j)
  <2>1. /\ UNCHANGED <<cache, held>>
        /\ threads'[j].pc = "lock" /\ threads'[j].lock = locks'[k]
    BY <1>2 DEF GetKeyLock, CollectorTypeOK
  <2>2. /\ locks'[k] # 0
        /\ locks[k] # 0 => UNCHANGED locks
        /\ locks[k] = 0 => locks' = [locks EXCEPT ![k] = made + 1]
    BY <1>1, <1>2 DEF GetKeyLock, CollectorTypeOK
  <2>3. \A l \in Keys : locks[l] \in 0 .. made /\ (locks[l] # 0 => locks'[l] = locks[l])
    BY <2>2 DEF CollectorTypeOK
  <2>4. KeyLocks'
    <3>1. \A l, m \in Keys : locks'[l] # 0 /\ locks'[l] = locks'[m] => l = m
      BY <1>1, <2>2, <2>3 DEF KeyLocks, CollectorTypeOK
    <3> QED
      BY <1>1, <2>1, <2>2, <2>3, <3>1 DEF KeyLocks
  <2>5. Fetchers'
    BY <1>1, <2>1 DEF Fetchers
  <2> QED
    BY <2>4, <2>5
<1>3. CASE EnterLock(j)
  <2>1. /\ UNCHANGED <<cache, locks>> /\ threads'[j].lock = threads[j].lock
        /\ threads[j].pc = "lock" /\ threads[j].lock \notin held
    BY <1>3 DEF EnterLock, Move, CollectorTypeOK
  <2>2. \/ cache[k] = 0 /\ held' = held \cup {threads[j].lock}
        \/ threads'[j].pc = "read" /\ UNCHANGED held
    BY <1>3 DEF EnterLock, Move, CollectorTypeOK
  <2>3. KeyLocks'
    BY <1>1, <2>1 DEF KeyLocks
  <2>4. \A i \in Jobs : threads[i].pc = "fetch" => jobs[i].ticker # k
    BY <2>1 DEF KeyLocks, Fetchers
  <2>5. Fetchers'
    BY <1>1, <2>1, <2>2, <2>4 DEF Fetchers
  <2> QED
    BY <2>3, <2>5
<1>4. CASE Fetched(j) \/ FetchRaises(j)
  <2>1. /\ UNCHANGED locks /\ held' = held \ {threads[j].lock}
        /\ threads[j].pc = "fetch" /\ threads'[j].pc \in {"read", "raised"}
        /\ \A l \in Keys : l # k => cache'[l] = cache[l]
    BY <1>4 DEF Fetched, FetchRaises, Move, CollectorTypeOK
  <2>2. KeyLocks'
    BY <1>1, <2>1 DEF KeyLocks
  <2>3. \A i \in Jobs : i # j /\ threads[i].pc = "fetch" =>
          jobs[i].ticker # k /\ threads[i].lock # threads[j].lock
    BY <1>1, <2>1 DEF KeyLocks, Fetchers
  <2>4. Fetchers'
    BY <1>1, <2>1, <2>3 DEF Fetchers
  <2> QED
    BY <2>2, <2>4
<1>5. CASE ReadBack(j)
  <2>1. UNCHANGED <<cache, locks, held>> /\ threads'[j].pc \in {"raised", "returned"}
    BY <1>5 DEF ReadBack, poolVars, CollectorTypeOK
  <2> QED
    BY <1>1, <2>1 DEF KeyLocks, Fetchers
<1> QED
  BY <1>2, <1>3, <1>4, <1>5 DEF ThreadStep

-----------------------------------------------------------------------------
(* Counts.                                                                 *)

LEMMA HoldsFinite ==
  ASSUME NEW k \in Keys
  PROVE  IsFiniteSet(Holds(k)) /\ Cardinality(Holds(k)) \in Nat
  BY DataCollectorAssumption, FS_Subset, FS_CardinalityType, Holds(k) \subseteq Jobs DEF Holds

LEMMA CountsKept ==
  ASSUME SafeInv, NEW j \in Jobs, JobStep(j) \/ ThreadStep(j), UNCHANGED refs,
         \A k \in Keys : Holds(k)' = Holds(k),
         jobs'[j].dry => jobs'[j].pc \in {"new", "evict", "over"}
  PROVE  Counts'
  BY JobsKept, ReferencedKept DEF SafeInv, Counts, RefcountExact

LEMMA RefCounts ==
  ASSUME SafeInv, NEW j \in Jobs, Ref(j)
  PROVE  Counts'
<1> DEFINE k == jobs[j].key
<1>1. /\ JobStep(j) /\ CollectorTypeOK /\ k \in Keys /\ ~jobs[j].dry /\ j \notin Holds(k)
      /\ jobs' = [jobs EXCEPT ![j].pc = "collect"]
      /\ refs' = [refs EXCEPT ![k] = @ + 1]
  BY DEF SafeInv, CollectorTypeOK, Ref, Advance, Counts, Holds, JobStep
<1>2. Holds(k)' = Holds(k) \cup {j} /\ \A l \in Keys \ {k} : Holds(l)' = Holds(l)
  BY <1>1 DEF Holds, CollectorTypeOK
<1>3. Cardinality(Holds(k)') = Cardinality(Holds(k)) + 1
  BY <1>1, <1>2, HoldsFinite, FS_AddElement
<1>4. refs'[k] = refs[k] + 1 /\ \A l \in Keys \ {k} : refs'[l] = refs[l]
  BY <1>1 DEF CollectorTypeOK
<1>5. \A l \in Keys : refs[l] \in Nat /\ Cardinality(Holds(l)) \in Nat
  BY <1>1, HoldsFinite DEF CollectorTypeOK
<1>6. \A l \in Keys : Referenced(l)' <=> Referenced(l)
  BY <1>1, ReferencedKept
<1>7. refs'[k] <= Cardinality(Holds(k)') /\ (Referenced(k) => refs'[k] = Cardinality(Holds(k)'))
  BY <1>1, <1>3, <1>4, <1>5 DEF SafeInv, Counts, RefcountExact
<1>8. \A l \in Keys : refs'[l] <= Cardinality(Holds(l)')
  BY <1>1, <1>2, <1>4, <1>7 DEF SafeInv, Counts
<1>9. RefcountExact'
  BY <1>1, <1>2, <1>4, <1>6, <1>7 DEF SafeInv, Counts, RefcountExact
<1>10. \A i \in Jobs : jobs'[i].dry => jobs'[i].pc \in {"new", "evict", "over"}
  BY <1>1 DEF SafeInv, Counts, CollectorTypeOK
<1> QED
  BY <1>8, <1>9, <1>10 DEF Counts

LEMMA EvictCounts ==
  ASSUME SafeInv, NEW j \in Jobs, Evict(j)
  PROVE  Counts'
<1> DEFINE k == jobs[j].key
<1>1. /\ JobStep(j) /\ CollectorTypeOK /\ k \in Keys
      /\ jobs[j].pc = "evict" /\ jobs' = [jobs EXCEPT ![j].pc = "over"]
      /\ refs[k] \in Nat /\ refs'[k] = (IF refs[k] <= 1 THEN 0 ELSE refs[k] - 1)
      /\ \A l \in Keys \ {k} : refs'[l] = refs[l]
  BY DEF SafeInv, CollectorTypeOK, Evict, Advance, JobStep
<1>2. Holds(k)' = Holds(k) \ {j} /\ \A l \in Keys \ {k} : Holds(l)' = Holds(l)
  BY <1>1 DEF Holds, CollectorTypeOK
<1>3. \A l \in Keys : refs[l] \in Nat /\ Cardinality(Holds(l)) \in Nat
  BY <1>1, HoldsFinite DEF CollectorTypeOK
<1>4. j \in Holds(k) <=> ~jobs[j].dry
  BY <1>1 DEF Holds
<1>5. Cardinality(Holds(k)') = IF jobs[j].dry THEN Cardinality(Holds(k)) ELSE Cardinality(Holds(k)) - 1
  BY <1>1, <1>2, <1>4, HoldsFinite, FS_RemoveElement
<1>6. \A l \in Keys : Referenced(l)' <=> Referenced(l)
  BY <1>1, ReferencedKept
<1>7. jobs[j].dry => ~Referenced(k)
  BY DEF Referenced
<1>8. ~jobs[j].dry => Cardinality(Holds(k)) >= 1
  BY <1>1, <1>3, <1>4, HoldsFinite, FS_EmptySet
<1>9. refs[k] <= Cardinality(Holds(k)) /\ (Referenced(k) => refs[k] = Cardinality(Holds(k)))
  BY <1>1 DEF SafeInv, Counts, RefcountExact
<1>10. refs'[k] <= Cardinality(Holds(k)') /\ (Referenced(k) => refs'[k] = Cardinality(Holds(k)'))
  BY <1>1, <1>3, <1>5, <1>7, <1>8, <1>9
<1>11. \A l \in Keys : refs'[l] <= Cardinality(Holds(l)')
  BY <1>1, <1>2, <1>10 DEF SafeInv, Counts
<1>12. RefcountExact'
  BY <1>1, <1>2, <1>6, <1>10 DEF SafeInv, Counts, RefcountExact
<1>13. \A i \in Jobs : jobs'[i].dry => jobs'[i].pc \in {"new", "evict", "over"}
  BY <1>1 DEF SafeInv, Counts, CollectorTypeOK
<1> QED
  BY <1>11, <1>12, <1>13 DEF Counts

LEMMA StepCounts ==
  ASSUME SafeInv, NEW j \in Jobs, JobStep(j) \/ ThreadStep(j)
  PROVE  Counts'
<1>1. CASE Ref(j) \/ Evict(j)
  BY <1>1, RefCounts, EvictCounts
<1>2. CASE /\ JobStep(j) /\ ~Ref(j) /\ ~Evict(j)
  <2>1. UNCHANGED refs /\ \A i \in Jobs : i # j => jobs'[i] = jobs[i]
    BY <1>2, JobsKept DEF JobStep, Enter, SkipCollect, StartCollect, Collected, WaitTimesOut, Used,
                          Raise, poolVars, SafeInv
  <2>2. /\ jobs'[j].key = jobs[j].key /\ jobs'[j].dry = jobs[j].dry
        /\ jobs[j].dry => jobs[j].pc = "new" /\ jobs'[j].pc = "evict"
        /\ ~jobs[j].dry => (jobs'[j].pc \in HoldingPcs <=> jobs[j].pc \in HoldingPcs)
    BY <1>2 DEF JobStep, Enter, SkipCollect, StartCollect, Collected, WaitTimesOut, Used,
                Raise, Advance, HoldingPcs, SafeInv, CollectorTypeOK, Counts
  <2>3. \A k \in Keys : Holds(k)' = Holds(k)
    BY <2>1, <2>2 DEF Holds, HoldingPcs
  <2> QED
    BY <1>2, <2>1, <2>2, <2>3, CountsKept
<1>3. CASE ThreadStep(j)
  <2>1. UNCHANGED <<refs, jobs>>
    BY <1>3 DEF ThreadStep, GetKeyLock, EnterLock, Fetched, FetchRaises, ReadBack, poolVars
  <2>2. \A k \in Keys : Holds(k)' = Holds(k)
    BY <2>1 DEF Holds
  <2> QED
    BY <1>3, <2>1, <2>2, CountsKept DEF SafeInv, Counts
<1> QED
  BY <1>1, <1>2, <1>3

LEMMA SafeStep ==
  ASSUME SafeInv, [CollectorNext]_collectorVars
  PROVE  SafeInv'
<1>1. ASSUME NEW j \in Jobs, JobStep(j)
      PROVE  SafeInv'
  BY <1>1, JobStepTypes, JobStepLocks, StepCounts DEF SafeInv
<1>2. ASSUME NEW j \in Jobs, ThreadStep(j)
      PROVE  SafeInv'
  BY <1>2, ThreadStepTypes, ThreadStepLocks, StepCounts DEF SafeInv
<1>3. CASE UNCHANGED collectorVars
  BY <1>3 DEF collectorVars, SafeInv, CollectorTypeOK, KeyLocks, Fetchers, Counts, RefcountExact,
              Holds, Referenced
<1> QED
  BY <1>1, <1>2, <1>3 DEF CollectorNext, Idle

LEMMA SafeInit ==
  CollectorInit => SafeInv
<1> SUFFICES ASSUME CollectorInit PROVE SafeInv
  OBVIOUS
<1>1. CollectorTypeOK
  <2>1. jobs \in [Jobs -> [pc : JobPc, key : Keys, ticker : Keys, dry : BOOLEAN, late : BOOLEAN]]
    BY DEF CollectorInit, JobPc
  <2>2. threads \in [Jobs -> [pc : ThreadPc, lock : 0 .. made, got : Nat]]
    BY DEF CollectorInit, ThreadPc
  <2> QED
    BY <2>1, <2>2 DEF CollectorInit, CollectorTypeOK
<1>2. KeyLocks /\ Fetchers
  BY DEF CollectorInit, KeyLocks, Fetchers
<1>3. \A j \in Jobs : jobs[j].pc = "new"
  BY DEF CollectorInit
<1>4. \A k \in Keys : Holds(k) = {} /\ refs[k] = 0
  BY <1>3 DEF CollectorInit, Holds
<1>5. Counts
  BY <1>3, <1>4, FS_EmptySet DEF Counts, RefcountExact
<1> QED
  BY <1>1, <1>2, <1>5 DEF SafeInv

-----------------------------------------------------------------------------
(* Pools.                                                                  *)

\* A key that one job holds is counted more than once exactly when another
\* job holds it too.
LEMMA AnotherHolder ==
  ASSUME NEW k \in Keys, NEW j \in Holds(k)
  PROVE  Cardinality(Holds(k)) > 1 <=> \E i \in Holds(k) : i # j
<1>1. /\ IsFiniteSet(Holds(k) \ {j}) /\ Cardinality(Holds(k) \ {j}) = Cardinality(Holds(k)) - 1
      /\ Cardinality(Holds(k)) \in Nat
  BY HoldsFinite, FS_RemoveElement
<1>2. Cardinality(Holds(k) \ {j}) = 0 <=> Holds(k) \ {j} = {}
  BY <1>1, FS_EmptySet
<1>3. Cardinality(Holds(k) \ {j}) \in Nat
  BY <1>1, FS_CardinalityType
<1> QED
  BY <1>1, <1>2, <1>3

LEMMA WaitersHold ==
  ASSUME PoolInv, NEW i \in Jobs, jobs[i].pc \in {"wait", "use"}, ~Astray(i)
  PROVE  i \in Holds(jobs[i].ticker) /\ jobs[i].ticker \in Keys
  BY DEF PoolInv, SafeInv, CollectorTypeOK, Astray, Counts, Holds

LEMMA AwaitedKept ==
  ASSUME PoolInv, NEW j \in Jobs, JobStep(j) \/ ThreadStep(j)
  PROVE  Awaited'
<1>1. CollectorTypeOK /\ Awaited
  BY DEF PoolInv, SafeInv
<1>2. CASE JobStep(j)
  <2>1. /\ threads'[j].pc \in Working => jobs'[j].pc = "wait" \/ jobs'[j].late
        /\ jobs'[j].pc \in {"new", "ref", "collect"} => threads'[j].pc = "none"
    BY <1>1, <1>2 DEF JobStep, Enter, Ref, SkipCollect, StartCollect, Collected, WaitTimesOut, Used,
                      Raise, Evict, Advance, Move, Awaited, Working, CollectorTypeOK
  <2> QED
    BY <1>1, <1>2, <2>1, JobsKept DEF Awaited
<1>3. CASE ThreadStep(j)
  <2>1. /\ UNCHANGED jobs /\ threads[j].pc \in Working
    BY <1>3 DEF ThreadStep, GetKeyLock, EnterLock, Fetched, FetchRaises, ReadBack, Move, Working
  <2> QED
    BY <1>1, <1>3, <2>1, JobsKept DEF Awaited, Working
<1> QED
  BY <1>2, <1>3

LEMMA EvictPools ==
  ASSUME PoolInv, NEW j \in Jobs, Evict(j)
  PROVE  Owned' /\ Returned'
<1> DEFINE k == jobs[j].key
<1>1. /\ JobStep(j) /\ CollectorTypeOK /\ SafeInv /\ k \in Keys /\ UNCHANGED threads
      /\ jobs[j].pc = "evict" /\ jobs' = [jobs EXCEPT ![j].pc = "over"]
      /\ \A l \in Keys : l # k => cache'[l] = cache[l]
      /\ cache'[k] = IF refs[k] <= 1 THEN 0 ELSE cache[k]
  BY DEF PoolInv, SafeInv, CollectorTypeOK, Evict, Advance, JobStep
<1>2. /\ refs[k] \in Nat /\ Cardinality(Holds(k)) \in Nat /\ refs[k] <= Cardinality(Holds(k))
      /\ Referenced(k) => refs[k] = Cardinality(Holds(k))
  BY <1>1, HoldsFinite DEF SafeInv, CollectorTypeOK, Counts, RefcountExact
<1>3. \A l \in Keys : \A i \in Holds(l) : i # j => i \in Holds(l)'
  BY <1>1 DEF Holds, CollectorTypeOK
<1>4. Owned'
  <2> SUFFICES ASSUME NEW l \in Keys, cache'[l] # 0
               PROVE  \/ Holds(l)' # {}
                      \/ \E i \in Jobs : jobs'[i].ticker = l /\ (jobs'[i].late \/ Astray(i)')
    BY DEF Owned
  <2>1. ASSUME NEW i \in Jobs, jobs[i].ticker = l, jobs[i].late \/ Astray(i)
        PROVE  jobs'[i].ticker = l /\ (jobs'[i].late \/ Astray(i)')
    BY <1>1, <2>1, JobsKept DEF Astray
  <2>2. ASSUME NEW i \in Holds(l), i # j
        PROVE  Holds(l)' # {}
    BY <1>3, <2>2
  <2>3. CASE j \in Holds(l)
    <3>1. l = k /\ refs[k] > 1
      BY <1>1, <1>2, <2>3 DEF Holds
    <3>2. PICK h \in Holds(k) : h # j
      BY <1>2, <2>3, <3>1, AnotherHolder
    <3> QED
      BY <2>2, <3>1, <3>2
  <2>4. cache[l] # 0
    BY <1>1
  <2> QED
    BY <2>1, <2>2, <2>3, <2>4 DEF PoolInv, Owned
<1>5. Returned'
  <2> SUFFICES ASSUME NEW i \in Jobs, jobs'[i].pc \in {"wait", "use"}, threads'[i].pc = "returned",
                      Referenced(jobs[i].ticker)', ~Astray(i)'
               PROVE  cache'[jobs'[i].ticker] # 0 /\ cache'[jobs'[i].ticker] = threads'[i].got
    BY DEF Returned
  <2> DEFINE l == jobs[i].ticker
  <2>1. i # j /\ jobs'[i] = jobs[i] /\ l \in Keys /\ jobs'[i].ticker = l
    BY <1>1 DEF CollectorTypeOK
  <2>2. Referenced(l) /\ ~Astray(i)
    BY <1>1, <2>1, JobsKept DEF Referenced, Astray
  <2>3. cache[l] # 0 /\ cache[l] = threads[i].got /\ i \in Holds(l)
    BY <1>1, <2>1, <2>2, WaitersHold DEF PoolInv, Returned
  <2>4. CASE l # k
    BY <1>1, <2>1, <2>2, <2>3, <2>4
  <2>5. CASE l = k
    <3>1. j \in Holds(k)
      BY <1>1, <2>2, <2>3, <2>5 DEF Referenced, Holds
    <3>2. refs[k] > 1
      BY <1>1, <1>2, <2>1, <2>2, <2>3, <2>5, <3>1, AnotherHolder
    <3> QED
      BY <1>1, <1>2, <2>1, <2>2, <2>3, <2>5, <3>2
  <2> QED
    BY <2>4, <2>5
<1> QED
  BY <1>4, <1>5

LEMMA JobPools ==
  ASSUME PoolInv, NEW j \in Jobs, JobStep(j), ~Evict(j)
  PROVE  Owned' /\ Returned'
<1>1. CollectorTypeOK /\ SafeInv /\ Awaited
  BY DEF PoolInv, SafeInv
<1>2. /\ UNCHANGED cache
      /\ \A i \in Jobs : i # j => jobs'[i] = jobs[i]
      /\ jobs[j].pc \in HoldingPcs => jobs'[j].pc \in HoldingPcs
      /\ threads'[j].pc = "returned" => threads'[j] = threads[j]
      /\ threads'[j].pc = "returned" /\ jobs'[j].pc \in {"wait", "use"} => jobs[j].pc \in {"wait", "use"}
  BY <1>1 DEF JobStep, Enter, Ref, SkipCollect, StartCollect, Collected, WaitTimesOut, Used, Raise,
              Advance, Move, poolVars, HoldingPcs, CollectorTypeOK, Awaited
<1>3. \A k \in Keys : \A i \in Holds(k) : i \in Holds(k)'
  BY <1>1, <1>2, JobsKept DEF Holds, HoldingPcs
<1>4. Owned'
  <2>1. \A k \in Keys : Holds(k) # {} => Holds(k)' # {}
    BY <1>3
  <2>2. \A i \in Jobs : /\ jobs'[i].ticker = jobs[i].ticker
                        /\ jobs[i].late \/ Astray(i) => jobs'[i].late \/ Astray(i)'
    BY <1>1, JobsKept DEF Astray
  <2> QED
    BY <1>2, <2>1, <2>2 DEF PoolInv, Owned
<1>5. \A i \in Jobs : jobs[i].ticker \in Keys
  BY <1>1 DEF CollectorTypeOK
<1>6. Returned'
  BY <1>1, <1>2, <1>5, JobsKept, ReferencedKept DEF PoolInv, Returned, Astray
<1> QED
  BY <1>4, <1>6

LEMMA ThreadPools ==
  ASSUME PoolInv, NEW j \in Jobs, ThreadStep(j)
  PROVE  Owned' /\ Returned'
<1> DEFINE k == jobs[j].ticker
<1>1. /\ CollectorTypeOK /\ SafeInv /\ UNCHANGED jobs
      /\ \A i \in Jobs : jobs[i].ticker \in Keys /\ (i # j => threads'[i] = threads[i])
  BY JobsKept DEF PoolInv, SafeInv, CollectorTypeOK, ThreadStep, GetKeyLock, EnterLock, Fetched,
                  FetchRaises, ReadBack
<1>2. \A l \in Keys : Holds(l)' = Holds(l) /\ (Referenced(l)' <=> Referenced(l))
  BY <1>1 DEF Holds, Referenced
<1>3. CASE Fetched(j)
  <2>1. /\ threads[j].pc = "fetch" /\ threads'[j].pc = "read" /\ cache[k] = 0
        /\ \A l \in Keys : l # k => cache'[l] = cache[l]
    BY <1>1, <1>3 DEF Fetched, Move, SafeInv, CollectorTypeOK, Fetchers
  <2>2. jobs[j].late \/ Astray(j) \/ j \in Holds(k)
    BY <2>1, WaitersHold DEF PoolInv, Awaited, Working
  <2>3. Owned'
    BY <1>1, <1>2, <2>1, <2>2 DEF PoolInv, Owned, Astray
  <2>4. Returned'
    BY <1>1, <1>2, <2>1 DEF PoolInv, Returned, Astray
  <2> QED
    BY <2>3, <2>4
<1>4. CASE ~Fetched(j)
  <2>1. UNCHANGED cache
    BY <1>4 DEF ThreadStep, GetKeyLock, EnterLock, FetchRaises, ReadBack, poolVars
  <2>2. threads'[j].pc = "returned" => cache[k] # 0 /\ threads'[j].got = cache[k]
    BY <1>1, <1>4 DEF ThreadStep, GetKeyLock, EnterLock, FetchRaises, ReadBack, Move, CollectorTypeOK
  <2>3. Owned'
    BY <1>1, <1>2, <2>1 DEF PoolInv, Owned, Astray
  <2>4. Returned'
    BY <1>1, <1>2, <2>1, <2>2 DEF PoolInv, Returned, Astray
  <2> QED
    BY <2>3, <2>4
<1> QED
  BY <1>3, <1>4

LEMMA PoolStep ==
  ASSUME PoolInv, [CollectorNext]_collectorVars
  PROVE  PoolInv'
<1>1. SafeInv'
  BY SafeStep DEF PoolInv
<1>2. ASSUME NEW j \in Jobs, JobStep(j) \/ ThreadStep(j)
      PROVE  PoolInv'
  <2>1. Owned' /\ Returned'
    BY <1>2, EvictPools, JobPools, ThreadPools
  <2> QED
    BY <1>1, <1>2, <2>1, AwaitedKept DEF PoolInv
<1>3. CASE UNCHANGED collectorVars
  BY <1>1, <1>3 DEF collectorVars, PoolInv, Awaited, Owned, Returned, Holds, Referenced, Astray
<1> QED
  BY <1>2, <1>3 DEF CollectorNext, Idle

LEMMA PoolInit == CollectorInit => PoolInv
<1> SUFFICES ASSUME CollectorInit PROVE PoolInv
  OBVIOUS
<1>1. /\ \A j \in Jobs : jobs[j].pc = "new" /\ threads[j].pc = "none"
      /\ \A k \in Keys : cache[k] = 0
  BY DEF CollectorInit
<1> QED
  BY <1>1, SafeInit DEF PoolInv, Awaited, Owned, Returned, Working

-----------------------------------------------------------------------------
(* Theorems.                                                               *)

(* Counts and locks hold up under every fault: the count of a key is the    *)
(* number of jobs that hold it, and no two threads fetch one key at a time  *)
(* (data_collector.py:374-419).                                             *)
THEOREM FetchedOnce == CollectorSpec => [](CollectorTypeOK /\ RefcountExact /\ OneFetch)
<1>1. SafeInv => CollectorTypeOK /\ RefcountExact /\ OneFetch
  BY DEF SafeInv, Counts, Fetchers, OneFetch, Fetching
<1> QED
  BY <1>1, SafeInit, SafeStep, PTL DEF CollectorSpec

(* From the return of its collect to its eviction the key of a job that     *)
(* collects what it holds keeps the pool that collect returned, whatever    *)
(* jobs that have gone astray do to it; and when no job has business with   *)
(* the collector nothing stays cached, except what a thread stored whose    *)
(* job had given up waiting or collected under a key it did not hold        *)
(* (data_collector.py:382, 401-419, main.py:1669-1676, 2269).               *)
THEOREM CollectorCorrect == CollectorSpec => []CollectorInv
<1>1. PoolInv => CollectorInv
  <2> SUFFICES ASSUME PoolInv PROVE CollectorInv
    OBVIOUS
  <2>1. CollectorTypeOK /\ RefcountExact /\ OneFetch
    BY DEF PoolInv, SafeInv, Counts, Fetchers, OneFetch, Fetching
  <2>2. PoolStays
    BY DEF PoolInv, Returned, PoolStays, PoolThere
  <2>3. NothingLeft
    BY DEF PoolInv, Owned, NothingLeft, Holds
  <2> QED
    BY <2>1, <2>2, <2>3 DEF CollectorInv
<1> QED
  BY <1>1, PoolInit, PoolStep, PTL DEF CollectorSpec

-----------------------------------------------------------------------------
(* The akshare lock, for any number of threads and permits.  Each step of  *)
(* a thread t adds t to, or takes t from, the sets WithTotal and           *)
(* WithScheduled, or leaves them alone; ReclaimStale takes the reclaimed   *)
(* threads out of both.  Beside the run's invariant the induction needs to *)
(* know that holders are in a call and that only scheduled tasks wait for  *)
(* the scheduled semaphore.                                                *)

Calling == {t \in Threads : caller[t].pc = At("calling")}

LockInductive ==
  /\ LockTypeOK
  /\ PermitsAddUp
  /\ holders \subseteq Calling
  /\ Calling \ holders = reclaimed /\ reclaimed \subseteq stale
  /\ \A t \in Threads : caller[t].pc \in {"scheduled"} \X {"first", "reclaim", "second"} => caller[t].task

-----------------------------------------------------------------------------
(* Counting.                                                               *)

LEMMA Counted ==
  /\ IsFiniteSet(WithTotal) /\ Cardinality(WithTotal) \in Nat
  /\ IsFiniteSet(WithScheduled) /\ Cardinality(WithScheduled) \in Nat
<1>1. WithTotal \subseteq Threads /\ WithScheduled \subseteq Threads
  BY DEF WithTotal, WithScheduled
<1> QED
  BY <1>1, LockAssumption, FS_Subset, FS_CardinalityType

\* Two sets that agree except perhaps on t.
LEMMA OneApart ==
  ASSUME NEW S, NEW T, NEW t, IsFiniteSet(S), Cardinality(S) \in Nat, T \ {t} = S \ {t}
  PROVE  /\ (t \in S <=> t \in T) => Cardinality(T) = Cardinality(S)
         /\ t \notin S /\ t \in T => Cardinality(T) = Cardinality(S) + 1
         /\ t \in S /\ t \notin T => Cardinality(T) = Cardinality(S) - 1
<1>1. CASE t \in S <=> t \in T
  BY <1>1, S = T
<1>2. CASE t \notin S /\ t \in T
  <2>1. T = S \cup {t}
    BY <1>2
  <2> QED
    BY <1>2, <2>1, FS_AddElement
<1>3. CASE t \in S /\ t \notin T
  <2>1. T = S \ {t}
    BY <1>3
  <2> QED
    BY <1>3, <2>1, FS_RemoveElement
<1> QED
  BY <1>1, <1>2, <1>3

LEMMA SomeLess ==
  ASSUME NEW S, IsFiniteSet(S), NEW T, T \subseteq S
  PROVE  /\ IsFiniteSet(T) /\ Cardinality(T) \in Nat
         /\ Cardinality(S \ T) = Cardinality(S) - Cardinality(T)
<1>1. IsFiniteSet(T)
  BY FS_Subset
<1>2. S \cap T = T
  OBVIOUS
<1>3. Cardinality(S \ T) = Cardinality(S) - Cardinality(S \cap T)
  BY <1>1, FS_Difference
<1> QED
  BY <1>1, <1>2, <1>3, FS_CardinalityType

-----------------------------------------------------------------------------
(* Steps.                                                                  *)

\* A step of t leaves the other threads where they are.
LEMMA Moved ==
  ASSUME LockTypeOK, NEW t \in Threads, NEW place \in Places, MoveTo(t, place)
  PROVE  /\ caller' \in [Threads -> [pc : Places, task : BOOLEAN]]
         /\ caller'[t].pc = place /\ caller'[t].task = caller[t].task
         /\ \A u \in Threads : u # t => caller'[u] = caller[u]
  BY DEF LockTypeOK, MoveTo

\* Then the counted sets change at most in t.
LEMMA OthersStay ==
  ASSUME NEW t \in Threads,
         \A u \in Threads : u # t => caller'[u] = caller[u] /\ (u \in holders' <=> u \in holders)
  PROVE  /\ WithTotal' \ {t} = WithTotal \ {t}
         /\ WithScheduled' \ {t} = WithScheduled \ {t}
         /\ Calling' \ {t} = Calling \ {t}
<1>1. WithTotal' \ {t} = WithTotal \ {t} /\ Calling' \ {t} = Calling \ {t}
  BY DEF WithTotal, Calling
<1>2. \A u \in Threads : u # t => (u \in WithTotal' <=> u \in WithTotal)
  BY <1>1
<1>3. \A u \in Threads : u # t => (u \in WithScheduled' <=> u \in WithScheduled)
  BY <1>2 DEF WithScheduled
<1>4. WithScheduled \subseteq Threads /\ WithScheduled' \subseteq Threads
  BY DEF WithScheduled
<1> QED
  BY <1>1, <1>3, <1>4

\* What t adds to, or takes from, the sets is what the semaphores lose or gain.
LEMMA PermitsStay ==
  ASSUME LockInductive, NEW t \in Threads,
         WithTotal' \ {t} = WithTotal \ {t}, WithScheduled' \ {t} = WithScheduled \ {t},
         \/ (t \in WithTotal <=> t \in WithTotal') /\ total' = total
         \/ t \notin WithTotal /\ t \in WithTotal' /\ total > 0 /\ total' = total - 1
         \/ t \in WithTotal /\ t \notin WithTotal' /\ total' = total + 1,
         \/ (t \in WithScheduled <=> t \in WithScheduled') /\ scheduled' = scheduled
         \/ t \notin WithScheduled /\ t \in WithScheduled' /\ scheduled > 0 /\ scheduled' = scheduled - 1
         \/ t \in WithScheduled /\ t \notin WithScheduled' /\ scheduled' = scheduled + 1
  PROVE  PermitsAddUp' /\ total' \in Int /\ scheduled' \in Int
<1>1. total \in Int /\ scheduled \in Int /\ PermitsAddUp
  BY DEF LockInductive, LockTypeOK
<1>2. total' + Cardinality(WithTotal') = Total /\ total' >= 0 /\ total' \in Int
  BY <1>1, Counted, OneApart, LockAssumption DEF PermitsAddUp
<1>3. scheduled' + Cardinality(WithScheduled') = ScheduledMax /\ scheduled' >= 0 /\ scheduled' \in Int
  BY <1>1, Counted, OneApart, LockAssumption DEF PermitsAddUp
<1> QED
  BY <1>2, <1>3 DEF PermitsAddUp

LEMMA PlacesAre ==
  /\ \A x \in {"idle", "register", "calling", "releasing"} : At(x) \in Places
  /\ \A x \in {"scheduled", "total"}, y \in {"first", "reclaim", "second"} : <<x, y>> \in Places
  BY DEF Places, Waiting, At

LEMMA LockInitCorrect == LockInit => LockInductive
<1> SUFFICES ASSUME LockInit PROVE LockInductive
  OBVIOUS
<1>1. LockTypeOK
  BY LockAssumption, PlacesAre DEF LockInit, LockTypeOK
<1>2. WithTotal = {} /\ WithScheduled = {} /\ Calling = {}
  BY DEF LockInit, WithTotal, WithScheduled, Calling, At
<1>3. PermitsAddUp
  BY <1>2, LockAssumption, FS_EmptySet DEF PermitsAddUp, LockInit
<1> QED
  BY <1>1, <1>2, <1>3 DEF LockInductive, LockInit, At

\* The steps of a thread that neither enters nor leaves the holders.
LEMMA WaitingStep ==
  ASSUME LockInductive, NEW t \in Threads,
         UNCHANGED <<holders, stale, reclaimed>>,
         caller' \in [Threads -> [pc : Places, task : BOOLEAN]],
         \A u \in Threads : u # t => caller'[u] = caller[u],
         t \notin Calling, t \notin Calling',
         caller'[t].pc \in {"scheduled"} \X {"first", "reclaim", "second"} => caller'[t].task,
         \/ (t \in WithTotal <=> t \in WithTotal') /\ total' = total
         \/ t \notin WithTotal /\ t \in WithTotal' /\ total > 0 /\ total' = total - 1
         \/ t \in WithTotal /\ t \notin WithTotal' /\ total' = total + 1,
         \/ (t \in WithScheduled <=> t \in WithScheduled') /\ scheduled' = scheduled
         \/ t \notin WithScheduled /\ t \in WithScheduled' /\ scheduled > 0 /\ scheduled' = scheduled - 1
         \/ t \in WithScheduled /\ t \notin WithScheduled' /\ scheduled' = scheduled + 1
  PROVE  LockInductive'
<1>1. /\ WithTotal' \ {t} = WithTotal \ {t} /\ WithScheduled' \ {t} = WithScheduled \ {t}
      /\ Calling' = Calling
  BY OthersStay
<1>2. PermitsAddUp' /\ total' \in Int /\ scheduled' \in Int
  BY <1>1, PermitsStay
<1>3. LockTypeOK'
  BY <1>2 DEF LockInductive, LockTypeOK
<1>4. \A u \in Threads : caller'[u].pc \in {"scheduled"} \X {"first", "reclaim", "second"} => caller'[u].task
  BY DEF LockInductive
<1> QED
  BY <1>1, <1>2, <1>3, <1>4 DEF LockInductive

LEMMA EnterCallStep ==
  ASSUME LockInductive, NEW t \in Threads, NEW task \in BOOLEAN, EnterCall(t, task)
  PROVE  LockInductive'
<1>1. LockTypeOK
  BY DEF LockInductive
<1>2. /\ caller' \in [Threads -> [pc : Places, task : BOOLEAN]]
      /\ caller'[t].pc = <<IF task THEN "scheduled" ELSE "total", "first">> /\ caller'[t].task = task
      /\ \A u \in Threads : u # t => caller'[u] = caller[u]
  BY <1>1, PlacesAre DEF EnterCall, LockTypeOK
<1>3. /\ t \notin WithTotal /\ t \notin WithTotal' /\ t \notin Calling /\ t \notin Calling'
      /\ t \notin WithScheduled /\ t \notin WithScheduled'
  BY <1>2 DEF EnterCall, WithTotal, WithScheduled, Calling, At
<1> QED
  BY <1>2, <1>3, WaitingStep DEF EnterCall

LEMMA AcquireScheduledStep ==
  ASSUME LockInductive, NEW t \in Threads, AcquireScheduled(t)
  PROVE  LockInductive'
<1>1. LockTypeOK /\ caller[t].task
  BY DEF LockInductive, AcquireScheduled
<1>2. /\ caller' \in [Threads -> [pc : Places, task : BOOLEAN]]
      /\ caller'[t].pc = <<"total", "first">> /\ caller'[t].task = caller[t].task
      /\ \A u \in Threads : u # t => caller'[u] = caller[u]
  BY <1>1, PlacesAre, Moved DEF AcquireScheduled
<1>3. t \notin WithTotal /\ t \notin WithTotal' /\ t \notin Calling /\ t \notin Calling'
  BY <1>2 DEF AcquireScheduled, WithTotal, Calling, At
<1>4. t \notin WithScheduled
  BY <1>3 DEF AcquireScheduled, WithScheduled
<1>5. caller'[t].task /\ caller'[t].pc \in {"total"} \X {"first", "reclaim", "second"}
  BY <1>1, <1>2
<1>6. t \in WithScheduled'
  BY <1>5 DEF WithScheduled
<1> QED
  BY <1>2, <1>3, <1>4, <1>5, <1>6, WaitingStep DEF AcquireScheduled

LEMMA AcquireTotalStep ==
  ASSUME LockInductive, NEW t \in Threads, AcquireTotal(t)
  PROVE  LockInductive'
<1>1. LockTypeOK
  BY DEF LockInductive
<1>2. /\ caller' \in [Threads -> [pc : Places, task : BOOLEAN]]
      /\ caller'[t].pc = At("register") /\ caller'[t].task = caller[t].task
      /\ \A u \in Threads : u # t => caller'[u] = caller[u]
  BY <1>1, PlacesAre, Moved DEF AcquireTotal
<1>3. /\ t \notin WithTotal /\ t \in WithTotal' /\ t \notin Calling /\ t \notin Calling'
      /\ (t \in WithScheduled <=> t \in WithScheduled')
  BY <1>2 DEF AcquireTotal, WithTotal, WithScheduled, Calling, At
<1> QED
  BY <1>2, <1>3, WaitingStep DEF AcquireTotal, At

LEMMA FirstWaitEndsStep ==
  ASSUME LockInductive, NEW t \in Threads, FirstWaitEnds(t)
  PROVE  LockInductive'
<1>1. LockTypeOK /\ <<caller[t].pc[1], "reclaim">> \in Places
  BY PlacesAre DEF LockInductive, FirstWaitEnds
<1>2. /\ caller' \in [Threads -> [pc : Places, task : BOOLEAN]]
      /\ caller'[t].pc = <<caller[t].pc[1], "reclaim">> /\ caller'[t].task = caller[t].task
      /\ \A u \in Threads : u # t => caller'[u] = caller[u]
  BY <1>1, Moved DEF FirstWaitEnds
<1>3. /\ t \notin WithTotal /\ t \notin WithTotal' /\ t \notin Calling /\ t \notin Calling'
      /\ (t \in WithScheduled <=> t \in WithScheduled')
  BY <1>2 DEF FirstWaitEnds, WithTotal, WithScheduled, Calling, At
<1>4. caller'[t].pc \in {"scheduled"} \X {"first", "reclaim", "second"} => caller'[t].task
  BY <1>2 DEF LockInductive, FirstWaitEnds
<1> QED
  BY <1>2, <1>3, <1>4, WaitingStep DEF FirstWaitEnds

LEMMA SecondWaitEndsStep ==
  ASSUME LockInductive, NEW t \in Threads, SecondWaitEnds(t)
  PROVE  LockInductive'
<1>1. LockTypeOK
  BY DEF LockInductive
<1>2. /\ caller' \in [Threads -> [pc : Places, task : BOOLEAN]]
      /\ caller'[t].pc = At("idle") /\ caller'[t].task = caller[t].task
      /\ \A u \in Threads : u # t => caller'[u] = caller[u]
  BY <1>1, PlacesAre, Moved DEF SecondWaitEnds
<1>3. /\ t \notin WithTotal /\ t \notin WithTotal' /\ t \notin Calling /\ t \notin Calling'
      /\ t \notin WithScheduled'
  BY <1>2 DEF SecondWaitEnds, WithTotal, WithScheduled, Calling, At
<1>4. \/ t \notin WithScheduled /\ scheduled' = scheduled
      \/ t \in WithScheduled /\ scheduled' = scheduled + 1
  BY <1>1 DEF SecondWaitEnds, WithTotal, WithScheduled, LockTypeOK, At
<1> QED
  BY <1>2, <1>3, <1>4, WaitingStep DEF SecondWaitEnds, At

LEMMA ReleaseStep ==
  ASSUME LockInductive, NEW t \in Threads, Release(t)
  PROVE  LockInductive'
<1>1. LockTypeOK
  BY DEF LockInductive
<1>2. /\ caller' \in [Threads -> [pc : Places, task : BOOLEAN]]
      /\ caller'[t].pc = At("idle") /\ caller'[t].task = caller[t].task
      /\ \A u \in Threads : u # t => caller'[u] = caller[u]
  BY <1>1, PlacesAre, Moved DEF Release
<1>3. /\ t \in WithTotal /\ t \notin WithTotal' /\ t \notin Calling /\ t \notin Calling'
      /\ t \notin WithScheduled' /\ (t \in WithScheduled <=> caller[t].task)
  BY <1>2 DEF Release, WithTotal, WithScheduled, Calling, At
<1>4. \/ t \notin WithScheduled /\ scheduled' = scheduled
      \/ t \in WithScheduled /\ scheduled' = scheduled + 1
  BY <1>1, <1>3 DEF Release, LockTypeOK
<1> QED
  BY <1>2, <1>3, <1>4, WaitingStep DEF Release, At

LEMMA RegisterStep ==
  ASSUME LockInductive, NEW t \in Threads, Register(t)
  PROVE  LockInductive'
<1>1. LockTypeOK
  BY DEF LockInductive
<1>2. /\ caller' \in [Threads -> [pc : Places, task : BOOLEAN]]
      /\ caller'[t].pc = At("calling") /\ caller'[t].task = caller[t].task
      /\ \A u \in Threads : u # t => caller'[u] = caller[u]
  BY <1>1, PlacesAre, Moved DEF Register
<1>3. holders' = holders \cup {t} /\ UNCHANGED <<total, scheduled, reclaimed>> /\ stale' = stale \ {t}
  BY DEF Register
<1>4. /\ t \in WithTotal /\ t \in WithTotal' /\ t \notin Calling
      /\ (t \in WithScheduled <=> t \in WithScheduled')
  BY <1>2, <1>3 DEF Register, WithTotal, WithScheduled, Calling, At
<1>5. /\ WithTotal' \ {t} = WithTotal \ {t} /\ WithScheduled' \ {t} = WithScheduled \ {t}
      /\ Calling' \ {t} = Calling \ {t}
  BY <1>2, <1>3, OthersStay
<1>6. Calling' = Calling \cup {t}
  BY <1>2, <1>5 DEF Calling
<1>7. PermitsAddUp' /\ LockTypeOK'
  BY <1>1, <1>2, <1>3, <1>4, <1>5, PermitsStay DEF LockTypeOK
<1>8. Calling' \ holders' = reclaimed' /\ reclaimed' \subseteq stale' /\ holders' \subseteq Calling'
  BY <1>3, <1>4, <1>6 DEF LockInductive
<1>9. \A u \in Threads : caller'[u].pc \in {"scheduled"} \X {"first", "reclaim", "second"} => caller'[u].task
  BY <1>2 DEF LockInductive, At
<1> QED
  BY <1>7, <1>8, <1>9 DEF LockInductive

LEMMA GrowStaleStep ==
  ASSUME LockInductive, NEW t \in Threads, GrowStale(t)
  PROVE  LockInductive'
<1>1. WithTotal' = WithTotal /\ Calling' = Calling
  BY DEF GrowStale, WithTotal, Calling
<1>2. WithScheduled' = WithScheduled
  BY <1>1 DEF GrowStale, WithScheduled
<1>3. LockTypeOK' /\ PermitsAddUp'
  BY <1>1, <1>2 DEF GrowStale, LockInductive, LockTypeOK, PermitsAddUp
<1> QED
  BY <1>1, <1>3 DEF GrowStale, LockInductive

LEMMA ExitCallStep ==
  ASSUME LockInductive, NEW t \in Threads, ExitCall(t)
  PROVE  LockInductive'
<1> DEFINE place == IF t \in holders THEN At("releasing") ELSE At("idle")
<1>1. LockTypeOK
  BY DEF LockInductive
<1>2. /\ caller' \in [Threads -> [pc : Places, task : BOOLEAN]]
      /\ caller'[t].pc = place /\ caller'[t].task = caller[t].task
      /\ \A u \in Threads : u # t => caller'[u] = caller[u]
  BY <1>1, PlacesAre, Moved DEF ExitCall
<1>3. /\ holders' = holders \ {t} /\ stale' = stale \ {t} /\ reclaimed' = reclaimed \ {t}
      /\ UNCHANGED <<total, scheduled>>
  BY DEF ExitCall
<1>4. t \in Calling /\ t \notin Calling'
  BY <1>2 DEF ExitCall, Calling, At
<1>5. t \in WithTotal <=> t \in WithTotal'
  BY <1>2, <1>3 DEF ExitCall, WithTotal, At
<1>6. t \in WithScheduled <=> t \in WithScheduled'
  BY <1>2, <1>5 DEF ExitCall, WithScheduled, At
<1>7. /\ WithTotal' \ {t} = WithTotal \ {t} /\ WithScheduled' \ {t} = WithScheduled \ {t}
      /\ Calling' \ {t} = Calling \ {t}
  BY <1>2, <1>3, OthersStay
<1>8. PermitsAddUp' /\ LockTypeOK'
  BY <1>1, <1>2, <1>3, <1>5, <1>6, <1>7, PermitsStay DEF LockTypeOK
<1>9. Calling' \ holders' = reclaimed' /\ reclaimed' \subseteq stale' /\ holders' \subseteq Calling'
  BY <1>3, <1>4, <1>7 DEF LockInductive
<1>10. \A u \in Threads : caller'[u].pc \in {"scheduled"} \X {"first", "reclaim", "second"} => caller'[u].task
  BY <1>2 DEF LockInductive, At
<1> QED
  BY <1>8, <1>9, <1>10 DEF LockInductive

\* The reclaimed threads leave both sets, and each semaphore gains as many.
LEMMA ReclaimStaleStep ==
  ASSUME LockInductive, NEW t \in Threads, ReclaimStale(t)
  PROVE  LockInductive'
<1> DEFINE zombies == holders \cap stale
           tasks   == {h \in zombies : caller[h].task}
<1>1. LockTypeOK /\ <<caller[t].pc[1], "second">> \in Places
  BY PlacesAre DEF LockInductive, ReclaimStale
<1>2. /\ caller' \in [Threads -> [pc : Places, task : BOOLEAN]]
      /\ caller'[t].pc = <<caller[t].pc[1], "second">> /\ caller'[t].task = caller[t].task
      /\ \A u \in Threads : u # t => caller'[u] = caller[u]
  BY <1>1, Moved DEF ReclaimStale
<1>3. /\ holders' = holders \ zombies /\ reclaimed' = reclaimed \cup zombies /\ UNCHANGED stale
      /\ total' = total + Cardinality(zombies) /\ scheduled' = scheduled + Cardinality(tasks)
  BY DEF ReclaimStale
<1>4. t \notin Calling /\ t \notin Calling' /\ t \notin WithTotal /\ t \notin WithTotal'
  BY <1>2 DEF ReclaimStale, Calling, WithTotal, At
<1>5. Calling' = Calling
  BY <1>2, <1>4 DEF Calling
<1>6. zombies \subseteq Calling /\ Calling \subseteq Threads
  BY DEF LockInductive, Calling
<1>7. WithTotal' = WithTotal \ zombies /\ zombies \subseteq WithTotal
  <2>1. \A u \in Threads : u # t => (u \in WithTotal' <=> u \in WithTotal /\ u \notin zombies)
    BY <1>2, <1>3, <1>6 DEF WithTotal, Calling, At
  <2>2. zombies \subseteq WithTotal
    BY <1>6 DEF WithTotal, Calling
  <2>3. WithTotal \subseteq Threads /\ WithTotal' \subseteq Threads
    BY DEF WithTotal
  <2> QED
    BY <1>4, <2>1, <2>2, <2>3
<1>8. WithScheduled' = WithScheduled \ tasks /\ tasks \subseteq WithScheduled
  <2>1. t \in WithScheduled <=> t \in WithScheduled'
    BY <1>2, <1>4 DEF ReclaimStale, WithScheduled
  <2>2. t \notin zombies
    BY <1>4, <1>6
  <2>3. \A u \in zombies : caller[u].pc \notin {"total"} \X {"first", "reclaim", "second"}
    BY <1>6 DEF Calling, At
  <2>4. \A u \in Threads : u # t => (u \in WithScheduled' <=> u \in WithScheduled /\ u \notin tasks)
    BY <1>2, <1>7, <2>3 DEF WithScheduled
  <2>5. tasks \subseteq WithScheduled
    BY <1>6, <1>7 DEF WithScheduled
  <2>6. WithScheduled \subseteq Threads /\ WithScheduled' \subseteq Threads
    BY DEF WithScheduled
  <2> QED
    BY <2>1, <2>2, <2>4, <2>5, <2>6
<1>9. total' \in Int /\ total' >= 0 /\ total' + Cardinality(WithTotal') = Total
  <2>1. /\ Cardinality(zombies) \in Nat
        /\ Cardinality(WithTotal') = Cardinality(WithTotal) - Cardinality(zombies)
    BY <1>7, Counted, SomeLess
  <2> QED
    BY <1>1, <1>3, <2>1, Counted, LockAssumption DEF LockInductive, LockTypeOK, PermitsAddUp
<1>10. scheduled' \in Int /\ scheduled' >= 0 /\ scheduled' + Cardinality(WithScheduled') = ScheduledMax
  <2>1. /\ Cardinality(tasks) \in Nat
        /\ Cardinality(WithScheduled') = Cardinality(WithScheduled) - Cardinality(tasks)
    BY <1>8, Counted, SomeLess
  <2> QED
    BY <1>1, <1>3, <2>1, Counted, LockAssumption DEF LockInductive, LockTypeOK, PermitsAddUp
<1>11. LockTypeOK' /\ PermitsAddUp'
  BY <1>1, <1>2, <1>3, <1>9, <1>10 DEF LockTypeOK, PermitsAddUp
<1>12. Calling' \ holders' = reclaimed' /\ reclaimed' \subseteq stale' /\ holders' \subseteq Calling'
  BY <1>3, <1>5, <1>6 DEF LockInductive
<1>13. \A u \in Threads : caller'[u].pc \in {"scheduled"} \X {"first", "reclaim", "second"} => caller'[u].task
  BY <1>2 DEF LockInductive, ReclaimStale
<1> QED
  BY <1>11, <1>12, <1>13 DEF LockInductive

-----------------------------------------------------------------------------
LEMMA LockStepCorrect == LockInductive /\ [LockNext]_lockVars => LockInductive'
<1> SUFFICES ASSUME LockInductive, [LockNext]_lockVars PROVE LockInductive'
  OBVIOUS
<1>1. CASE UNCHANGED lockVars
  <2>1. /\ LockTypeOK' = LockTypeOK /\ WithTotal' = WithTotal /\ Calling' = Calling
    BY <1>1 DEF lockVars, LockTypeOK, WithTotal, Calling
  <2>2. WithScheduled' = WithScheduled
    BY <1>1, <2>1 DEF lockVars, WithScheduled
  <2> QED
    BY <1>1, <2>1, <2>2 DEF lockVars, LockInductive, PermitsAddUp
<1>2. CASE LockNext
  <2>1. PICK t \in Threads :
          \/ \E task \in BOOLEAN : EnterCall(t, task)
          \/ AcquireScheduled(t) \/ AcquireTotal(t)
          \/ FirstWaitEnds(t) \/ ReclaimStale(t) \/ SecondWaitEnds(t)
          \/ Register(t) \/ GrowStale(t) \/ ExitCall(t) \/ Release(t)
    BY <1>2 DEF LockNext
  <2> QED
    BY <2>1, EnterCallStep, AcquireScheduledStep, AcquireTotalStep, FirstWaitEndsStep, ReclaimStaleStep,
       SecondWaitEndsStep, RegisterStep, GrowStaleStep, ExitCallStep, ReleaseStep
<1> QED
  BY <1>1, <1>2

\* Calls that are not stale hold their permits, so there are no more of them.
LEMMA LockInductiveImplies == LockInductive => PermitsInv
<1> SUFFICES ASSUME LockInductive PROVE PermitsInv
  OBVIOUS
<1> DEFINE fresh == Calling \ stale
           tasks == {t \in fresh : caller[t].task}
<1>1. fresh \subseteq WithTotal
  BY DEF LockInductive, Calling, WithTotal
<1>2. tasks \subseteq WithScheduled
  BY <1>1 DEF WithScheduled, Calling
<1>3. Cardinality(fresh) <= Total
  BY <1>1, Counted, FS_Subset, FS_CardinalityType, LockAssumption DEF LockInductive, PermitsAddUp, LockTypeOK
<1>4. Cardinality(tasks) <= ScheduledMax
  BY <1>2, Counted, FS_Subset, FS_CardinalityType, LockAssumption DEF LockInductive, PermitsAddUp, LockTypeOK
<1> QED
  BY <1>3, <1>4 DEF LockInductive, PermitsInv, OnlyZombiesExceed, Calling

(* For any number of threads and permits, each permit is free or out for    *)
(* exactly one thread, and only calls whose permits were reclaimed make the *)
(* calls under way exceed the permits (cn_akshare_provider.py, _AkshareLock).*)
THEOREM LockCorrect == LockSpec => []PermitsInv
<1>1. LockInit => LockInductive
  BY LockInitCorrect
<1>2. LockInductive /\ [LockNext]_lockVars => LockInductive'
  BY LockStepCorrect
<1>3. LockInductive => PermitsInv
  BY LockInductiveImplies
<1> QED
  BY <1>1, <1>2, <1>3, PTL DEF LockSpec

-----------------------------------------------------------------------------
(* The trading calendar, for every table, every set of days and every      *)
(* request.  The invariant of the binary search: positions below lo hold   *)
(* days before the argument, positions from hi on do not; the walk back    *)
(* has passed days of weekends only.                                       *)

Phases == {"", "closed", "pre_open", "in_session", "lunch_break", "post_close"}
Modes  == {"", "pre_market", "intraday", "post_market", "closed", "t_plus_1", "forward_look", "historical"}
Contexts == [session : Phases, mode : Modes, asOf : Int]

CalendarTypeOK ==
  /\ today \in Days
  /\ loaded \in BOOLEAN
  /\ dates \in Seq(Int) /\ Sorted(dates)
  /\ search \in [pc : {"idle", "halve", "back", "done"}, day : Int, lo : Nat, hi : Nat, result : Int]
  /\ job \in [pc : {"none", "searching", "resolved", "built"}, asked : Int, date : Int,
              context : Contexts]

\* Before the first call nothing has been asked.
NothingEarly == ~loaded => dates = <<>> /\ search.pc = "idle" /\ job.pc = "none"

SearchInv ==
  /\ search.pc = "halve" =>
       /\ search.lo <= search.hi /\ search.hi <= Len(dates) /\ search.result = search.day
       /\ \A i \in 1 .. Len(dates) : i <= search.lo => dates[i] < search.day
       /\ \A i \in 1 .. Len(dates) : i > search.hi => dates[i] >= search.day
  /\ search.pc = "back" =>
       /\ \A i \in 1 .. Len(dates) : dates[i] >= search.day
       /\ search.result <= search.day
       /\ \A between \in search.result .. search.day - 1 : ~Weekday(between)
  /\ SearchFindsPrevious

JobInv ==
  /\ ResolvedDatesStayOpen
  /\ job.pc \in {"none", "searching", "resolved"} => job.context.session = ""
  /\ ContextIsConsistent

CalendarInductive == CalendarTypeOK /\ NothingEarly /\ SearchInv /\ JobInv

-----------------------------------------------------------------------------
LEMMA EmptyTable == <<>> \in Seq(Int) /\ Sorted(<<>>)
  BY DEF Sorted

LEMMA CalendarInitCorrect == CalendarInit => CalendarInductive
<1> SUFFICES ASSUME CalendarInit PROVE CalendarInductive
  OBVIOUS
<1>1. CalendarTypeOK
  <2>1. search \in [pc : {"idle", "halve", "back", "done"}, day : Int, lo : Nat, hi : Nat, result : Int]
    BY DEF CalendarInit, NoSearch
  <2>2. NoContext \in Contexts
    BY DEF NoContext, Contexts, Phases, Modes
  <2>3. job \in [pc : {"none", "searching", "resolved", "built"}, asked : Int, date : Int,
                 context : Contexts]
    BY <2>2 DEF CalendarInit
  <2> QED
    BY <2>1, <2>3, EmptyTable DEF CalendarInit, CalendarTypeOK
<1> QED
  BY <1>1 DEF CalendarInit, CalendarInductive, NothingEarly, SearchInv, JobInv, NoSearch, NoContext,
     SearchFindsPrevious, ResolvedDatesStayOpen, ContextIsConsistent

LEMMA LoadDatesStep == ASSUME CalendarInductive, LoadDates PROVE CalendarInductive'
<1>1. CalendarTypeOK'
  <2>1. dates' \in Seq(Int) /\ Sorted(dates')
    BY CalendarAssumption, EmptyTable DEF CalendarInductive, CalendarTypeOK, LoadDates
  <2> QED
    BY <2>1 DEF CalendarInductive, CalendarTypeOK, LoadDates
<1>2. search.pc = "idle" /\ job.pc = "none"
  BY DEF CalendarInductive, NothingEarly, LoadDates
<1> QED
  BY <1>1, <1>2 DEF LoadDates, CalendarInductive, NothingEarly, SearchInv, JobInv,
     SearchFindsPrevious, ResolvedDatesStayOpen, ContextIsConsistent

LEMMA NextDayStep == ASSUME CalendarInductive, NextDay PROVE CalendarInductive'
<1>1. CalendarTypeOK' /\ NothingEarly'
  BY DEF CalendarInductive, CalendarTypeOK, NothingEarly, NextDay
<1>2. SearchInv' /\ ResolvedDatesStayOpen'
  BY DEF CalendarInductive, SearchInv, JobInv, SearchFindsPrevious, IsPrevious, Weekday, ResolvedDatesStayOpen,
         TradingDay, NextDay
<1>3. ContextIsConsistent'
  BY CalendarAssumption DEF CalendarInductive, CalendarTypeOK, Contexts, JobInv, ContextIsConsistent, NextDay
<1> QED
  BY <1>1, <1>2, <1>3 DEF CalendarInductive, JobInv, NextDay

\* The two ways a search starts.
LEMMA Started ==
  ASSUME CalendarInductive, NEW day \in Int, StartSearch(day), UNCHANGED <<dates, today, loaded>>
  PROVE  /\ SearchInv'
         /\ search' \in [pc : {"idle", "halve", "back", "done"}, day : Int, lo : Nat, hi : Nat, result : Int]
<1>1. dates \in Seq(Int) /\ Len(dates) \in Nat
  BY DEF CalendarInductive, CalendarTypeOK
<1>2. search' \in [pc : {"idle", "halve", "back", "done"}, day : Int, lo : Nat, hi : Nat, result : Int]
  BY <1>1 DEF StartSearch
<1>3. CASE dates = <<>>
  BY <1>3 DEF StartSearch, SearchInv, SearchFindsPrevious
<1>4. CASE dates # <<>>
  BY <1>1, <1>4 DEF StartSearch, SearchInv, SearchFindsPrevious
<1> QED
  BY <1>2, <1>3, <1>4

LEMMA ResolveDateStep == ASSUME CalendarInductive, NEW day \in Asked, ResolveDate(day) PROVE CalendarInductive'
<1>1. day \in Int
  BY CalendarAssumption
<1>2. SearchInv' /\ CalendarTypeOK'
  <2>1. CASE TradingDay(day)
    BY <1>1, <2>1 DEF ResolveDate, CalendarInductive, CalendarTypeOK, SearchInv, SearchFindsPrevious, IsPrevious,
                      Weekday
  <2>2. CASE ~TradingDay(day)
    BY <1>1, <2>2, Started DEF ResolveDate, CalendarInductive, CalendarTypeOK
  <2> QED
    BY <2>1, <2>2
<1>3. JobInv'
  BY <1>1 DEF ResolveDate, CalendarInductive, CalendarTypeOK, JobInv, ResolvedDatesStayOpen, ContextIsConsistent,
              TradingDay
<1> QED
  BY <1>2, <1>3 DEF CalendarInductive, NothingEarly, ResolveDate

LEMMA AskPreviousStep == ASSUME CalendarInductive, AskPrevious PROVE CalendarInductive'
<1>1. today \in Int
  BY CalendarAssumption DEF CalendarInductive, CalendarTypeOK
<1>2. SearchInv' /\ CalendarTypeOK'
  BY <1>1, Started DEF AskPrevious, CalendarInductive, CalendarTypeOK
<1>3. JobInv'
  BY DEF AskPrevious, CalendarInductive, JobInv, ResolvedDatesStayOpen, ContextIsConsistent, TradingDay
<1> QED
  BY <1>2, <1>3 DEF CalendarInductive, NothingEarly, AskPrevious

LEMMA HalveStep == ASSUME CalendarInductive, Halve PROVE CalendarInductive'
<1> DEFINE mid == (search.lo + search.hi) \div 2
<1>1. /\ dates \in Seq(Int) /\ Len(dates) \in Nat /\ Sorted(dates)
      /\ search.lo \in Nat /\ search.hi \in Nat /\ search.day \in Int
      /\ search.pc = "halve" /\ search.lo < search.hi /\ search.hi <= Len(dates)
  BY DEF CalendarInductive, CalendarTypeOK, SearchInv, Halve
<1>2. mid \in Nat /\ search.lo <= mid /\ mid < search.hi
  BY <1>1
<1>3. mid + 1 \in 1 .. Len(dates) /\ dates[mid + 1] \in Int
  BY <1>1, <1>2
<1>4. search' = IF dates[mid + 1] < search.day THEN [search EXCEPT !.lo = mid + 1]
                ELSE [search EXCEPT !.hi = mid]
  BY DEF Halve
<1>5. UNCHANGED <<today, loaded, dates, job>>
  BY DEF Halve
<1> HIDE DEF mid
<1>6. CalendarTypeOK'
  <2>1. search' \in [pc : {"idle", "halve", "back", "done"}, day : Int, lo : Nat, hi : Nat, result : Int]
    BY <1>2, <1>4 DEF CalendarInductive, CalendarTypeOK
  <2> QED
    BY <1>5, <2>1 DEF CalendarInductive, CalendarTypeOK
<1>7. SearchInv'
  <2>1. CASE dates[mid + 1] < search.day
    <3>1. \A i \in 1 .. Len(dates) : i <= mid + 1 => dates[i] < search.day
      BY <1>1, <1>3, <2>1 DEF Sorted
    <3> QED
      BY <1>1, <1>2, <1>4, <1>5, <2>1, <3>1 DEF CalendarInductive, CalendarTypeOK, SearchInv, SearchFindsPrevious
  <2>2. CASE ~(dates[mid + 1] < search.day)
    <3>1. \A i \in 1 .. Len(dates) : i > mid => dates[i] >= search.day
      BY <1>1, <1>2, <1>3, <2>2 DEF Sorted
    <3> QED
      BY <1>1, <1>2, <1>4, <1>5, <2>2, <3>1 DEF CalendarInductive, CalendarTypeOK, SearchInv, SearchFindsPrevious
  <2> QED
    BY <2>1, <2>2
<1>8. JobInv'
  BY <1>5 DEF CalendarInductive, JobInv, ResolvedDatesStayOpen, ContextIsConsistent, TradingDay
<1> QED
  BY <1>1, <1>5, <1>6, <1>7, <1>8 DEF CalendarInductive, NothingEarly

LEMMA FoundStep == ASSUME CalendarInductive, Found PROVE CalendarInductive'
<1>1. /\ dates \in Seq(Int) /\ Len(dates) \in Nat /\ Sorted(dates)
      /\ search.lo \in Nat /\ search.hi \in Nat /\ search.day \in Int /\ search.result \in Int
      /\ search.pc = "halve" /\ search.lo = search.hi /\ search.hi <= Len(dates)
      /\ \A i \in 1 .. Len(dates) : i <= search.lo => dates[i] < search.day
      /\ \A i \in 1 .. Len(dates) : i > search.lo => dates[i] >= search.day
  BY DEF CalendarInductive, CalendarTypeOK, SearchInv, Found
<1>2. UNCHANGED <<today, loaded, dates, job>>
  BY DEF Found
<1>3. JobInv' /\ NothingEarly'
  BY <1>1, <1>2 DEF CalendarInductive, JobInv, NothingEarly, ResolvedDatesStayOpen, ContextIsConsistent, TradingDay
<1>4. ASSUME search.lo >= 1 PROVE CalendarInductive'
  <2>1. search.lo \in 1 .. Len(dates) /\ dates[search.lo] \in Int
    BY <1>1, <1>4
  <2>2. search' = [search EXCEPT !.pc = "done", !.result = dates[search.lo]]
    BY <1>1, <1>4 DEF Found
  <2>3. CalendarTypeOK'
    BY <1>2, <2>1, <2>2 DEF CalendarInductive, CalendarTypeOK
  <2>4. \A i \in 1 .. Len(dates) : dates[i] < search.day => dates[i] <= dates[search.lo]
    BY <1>1, <2>1 DEF Sorted
  <2>5. IsPrevious(search.day, dates[search.lo])
    BY <1>1, <2>1, <2>4 DEF IsPrevious
  <2>6. IsPrevious(search.day, dates[search.lo])'
    <3>1. search'.day = search.day /\ search'.lo = search.lo
      BY <2>2 DEF CalendarInductive, CalendarTypeOK
    <3> QED
      BY <1>2, <2>5, <3>1 DEF IsPrevious
  <2>7. /\ search'.pc = "done" /\ search'.day = search.day
        /\ search'.result = dates[search.lo] /\ search'.lo = search.lo
    BY <2>2 DEF CalendarInductive, CalendarTypeOK
  <2>8. SearchInv'
    BY <1>2, <2>6, <2>7 DEF SearchInv, SearchFindsPrevious
  <2> QED
    BY <1>3, <2>3, <2>8 DEF CalendarInductive
<1>5. ASSUME search.lo < 1 PROVE CalendarInductive'
  <2>1. search' = [search EXCEPT !.pc = "back"]
    BY <1>1, <1>5 DEF Found
  <2>2. CalendarTypeOK'
    BY <1>2, <2>1 DEF CalendarInductive, CalendarTypeOK
  <2>3. search.result = search.day
    BY <1>1 DEF CalendarInductive, SearchInv
  <2>4. SearchInv'
    BY <1>1, <1>2, <1>5, <2>1, <2>3 DEF CalendarInductive, CalendarTypeOK, SearchInv, SearchFindsPrevious
  <2> QED
    BY <1>3, <2>2, <2>4 DEF CalendarInductive
<1> QED
  BY <1>1, <1>4, <1>5

LEMMA StepBackStep == ASSUME CalendarInductive, StepBack PROVE CalendarInductive'
<1>1. /\ dates \in Seq(Int) /\ Len(dates) \in Nat
      /\ search.day \in Int /\ search.result \in Int /\ search.pc = "back"
      /\ search.result <= search.day
      /\ \A i \in 1 .. Len(dates) : dates[i] >= search.day
      /\ \A between \in search.result .. search.day - 1 : ~Weekday(between)
  BY DEF CalendarInductive, CalendarTypeOK, SearchInv, StepBack
<1>2. UNCHANGED <<today, loaded, dates, job>>
  BY DEF StepBack
<1>3. JobInv' /\ NothingEarly'
  BY <1>1, <1>2 DEF CalendarInductive, JobInv, NothingEarly, ResolvedDatesStayOpen, ContextIsConsistent, TradingDay
<1>4. /\ search'.result = search.result - 1 /\ search'.day = search.day
      /\ search'.pc = IF Weekday(search.result - 1) THEN "done" ELSE "back"
      /\ CalendarTypeOK'
  <2>1. CASE Weekday(search.result - 1)
    <3>1. search' = [search EXCEPT !.result = search.result - 1, !.pc = "done"]
      BY <2>1 DEF StepBack
    <3>2. search.result - 1 \in Int
      BY <1>1
    <3>3. search' \in [pc : {"idle", "halve", "back", "done"}, day : Int, lo : Nat, hi : Nat, result : Int]
      BY <3>1, <3>2 DEF CalendarInductive, CalendarTypeOK
    <3>4. CalendarTypeOK'
      BY <1>2, <3>3 DEF CalendarInductive, CalendarTypeOK
    <3> QED
      BY <2>1, <3>1, <3>4 DEF CalendarInductive, CalendarTypeOK
  <2>2. CASE ~Weekday(search.result - 1)
    <3>1. search' = [search EXCEPT !.result = search.result - 1, !.pc = "back"]
      BY <2>2 DEF StepBack
    <3>2. search.result - 1 \in Int
      BY <1>1
    <3>3. search' \in [pc : {"idle", "halve", "back", "done"}, day : Int, lo : Nat, hi : Nat, result : Int]
      BY <3>1, <3>2 DEF CalendarInductive, CalendarTypeOK
    <3>4. CalendarTypeOK'
      BY <1>2, <3>3 DEF CalendarInductive, CalendarTypeOK
    <3> QED
      BY <2>2, <3>1, <3>4 DEF CalendarInductive, CalendarTypeOK
  <2> QED
    BY <2>1, <2>2
<1>5. CASE Weekday(search.result - 1)
  <2>1. IsPrevious(search.day, search.result - 1)
    BY <1>1, <1>5 DEF IsPrevious
  <2>2. SearchFindsPrevious'
    BY <1>2, <1>4, <2>1 DEF SearchFindsPrevious, IsPrevious, Weekday
  <2> QED
    BY <1>3, <1>4, <1>5, <2>2 DEF CalendarInductive, SearchInv
<1>6. CASE ~Weekday(search.result - 1)
  <2>1. \A between \in search.result - 1 .. search.day - 1 : ~Weekday(between)
    BY <1>1, <1>6
  <2>2. SearchInv'
    BY <1>1, <1>2, <1>4, <1>6, <2>1 DEF SearchInv, SearchFindsPrevious, Weekday
  <2> QED
    BY <1>3, <1>4, <2>2 DEF CalendarInductive
<1> QED
  BY <1>5, <1>6

\* A search on behalf of a job has the job's date as its argument.
LEMMA ResolvedStep == ASSUME CalendarInductive, Resolved PROVE CalendarInductive'
<1>1. /\ search.pc = "done" /\ search' = NoSearch /\ UNCHANGED <<today, loaded, dates>>
      /\ dates \in Seq(Int) /\ Len(dates) \in Nat
      /\ search.day \in Int /\ search.result \in Int
      /\ IsPrevious(search.day, search.result)
  BY DEF CalendarInductive, CalendarTypeOK, SearchInv, SearchFindsPrevious, Resolved
<1>2. SearchInv'
  BY <1>1 DEF SearchInv, SearchFindsPrevious, NoSearch
<1>3. search' \in [pc : {"idle", "halve", "back", "done"}, day : Int, lo : Nat, hi : Nat, result : Int]
  BY <1>1 DEF NoSearch
<1>4. CASE job.pc = "searching"
  <2>1. job' = [job EXCEPT !.pc = "resolved", !.date = search.result]
    BY <1>4 DEF Resolved
  <2>2. /\ job'.pc = "resolved" /\ job'.date = search.result
        /\ job'.context = job.context /\ job'.context.session = ""
    BY <1>4, <2>1 DEF CalendarInductive, CalendarTypeOK, JobInv
  <2>3. CalendarTypeOK'
    BY <1>1, <1>3, <2>1 DEF CalendarInductive, CalendarTypeOK
  <2>4. TradingDay(search.result) \/ \A i \in 1 .. Len(dates) : search.result < dates[i]
    BY <1>1 DEF IsPrevious, TradingDay
  <2>5. JobInv'
    BY <1>1, <2>2, <2>4 DEF JobInv, ResolvedDatesStayOpen, ContextIsConsistent, TradingDay, Weekday
  <2> QED
    BY <1>1, <1>2, <2>2, <2>3, <2>5 DEF CalendarInductive, NothingEarly
<1>5. CASE job.pc # "searching"
  <2>1. job' = job
    BY <1>5 DEF Resolved
  <2>2. CalendarTypeOK' /\ JobInv' /\ NothingEarly'
    BY <1>1, <1>3, <2>1 DEF CalendarInductive, CalendarTypeOK, JobInv, NothingEarly, ResolvedDatesStayOpen,
       ContextIsConsistent, TradingDay
  <2> QED
    BY <1>2, <2>2 DEF CalendarInductive
<1> QED
  BY <1>4, <1>5

\* A session fits the date on the day the context is built.
LEMMA BuildContextStep == ASSUME CalendarInductive, BuildContext PROVE CalendarInductive'
<1>1. /\ job.pc = "resolved" /\ UNCHANGED <<today, loaded, dates, search>>
      /\ today \in Int /\ job.date \in Int
  BY CalendarAssumption DEF BuildContext, CalendarInductive, CalendarTypeOK
<1>2. PICK session \in Sessions(job.date), previous \in today - 14 .. today :
        job' = [job EXCEPT !.pc = "built", !.context =
          [session |-> session, mode |-> Mode(job.date, session, previous),
           asOf |-> IF job.date > today THEN today ELSE job.date]]
  BY DEF BuildContext
<1> DEFINE asOf == IF job.date > today THEN today ELSE job.date
           mode == Mode(job.date, session, previous)
<1>3. /\ asOf \in Int /\ asOf <= today
      /\ job.date > today => asOf < job.date
  BY <1>1
<1>4. session \in Phases /\ (session = "closed" => ~TradingDay(job.date))
  BY DEF Sessions, Phases
<1>5. /\ mode \in Modes
      /\ mode = "intraday" => session \in {"in_session", "lunch_break"}
      /\ mode = "forward_look" => job.date > today
  BY <1>1 DEF Mode, Modes
<1> HIDE DEF asOf, mode
<1>6. job' = [job EXCEPT !.pc = "built", !.context = [session |-> session, mode |-> mode, asOf |-> asOf]]
  BY <1>2 DEF asOf, mode
<1>7. [session |-> session, mode |-> mode, asOf |-> asOf] \in Contexts
  BY <1>3, <1>4, <1>5 DEF Contexts
<1>8. /\ job'.pc = "built" /\ job'.date = job.date
      /\ job'.context.session = session /\ job'.context.mode = mode /\ job'.context.asOf = asOf
  BY <1>6 DEF CalendarInductive, CalendarTypeOK
<1>9. CalendarTypeOK'
  BY <1>1, <1>6, <1>7 DEF CalendarInductive, CalendarTypeOK
<1>10. SearchInv' /\ NothingEarly'
  BY <1>1, <1>8 DEF CalendarInductive, SearchInv, NothingEarly, SearchFindsPrevious, IsPrevious, Weekday
<1>11. ResolvedDatesStayOpen'
  BY <1>1, <1>4, <1>8 DEF CalendarInductive, JobInv, ResolvedDatesStayOpen, TradingDay, Weekday
<1>12. ContextIsConsistent'
  BY <1>1, <1>3, <1>4, <1>5, <1>8 DEF ContextIsConsistent
<1> QED
  BY <1>8, <1>9, <1>10, <1>11, <1>12 DEF CalendarInductive, JobInv

LEMMA CalendarStutterStep == ASSUME CalendarInductive, UNCHANGED calVars PROVE CalendarInductive'
  BY DEF CalendarInductive, CalendarTypeOK, NothingEarly, SearchInv, JobInv, SearchFindsPrevious, IsPrevious,
     ResolvedDatesStayOpen, ContextIsConsistent, TradingDay, Weekday, calVars

-----------------------------------------------------------------------------
\* The calendar keeps its promises whatever the vendor publishes and whenever
\* requests come in: searches end at the previous trading day, a resolved date
\* stays open, contexts are consistent (trade_calendar.py, context_utils.py).
THEOREM CalendarCorrect == CalendarSpec => []CalendarInv
<1>1. CalendarInit => CalendarInductive
  BY CalendarInitCorrect
<1>2. CalendarInductive /\ [CalendarNext]_calVars => CalendarInductive'
  <2> SUFFICES ASSUME CalendarInductive, [CalendarNext]_calVars PROVE CalendarInductive'
    OBVIOUS
  <2>1. CASE LoadDates
    BY <2>1, LoadDatesStep
  <2>2. CASE NextDay
    BY <2>2, NextDayStep
  <2>3. CASE AskPrevious
    BY <2>3, AskPreviousStep
  <2>4. CASE Halve
    BY <2>4, HalveStep
  <2>5. CASE Found
    BY <2>5, FoundStep
  <2>6. CASE StepBack
    BY <2>6, StepBackStep
  <2>7. CASE Resolved
    BY <2>7, ResolvedStep
  <2>8. CASE BuildContext
    BY <2>8, BuildContextStep
  <2>9. ASSUME NEW day \in Asked, ResolveDate(day) PROVE CalendarInductive'
    BY <2>9, ResolveDateStep
  <2>10. CASE UNCHANGED calVars
    BY <2>10, CalendarStutterStep
  <2> QED
    BY <2>1, <2>2, <2>3, <2>4, <2>5, <2>6, <2>7, <2>8, <2>9, <2>10 DEF CalendarNext
<1>3. CalendarInductive => CalendarInv
  BY DEF CalendarInductive, SearchInv, JobInv, CalendarInv
<1> QED
  BY <1>1, <1>2, <1>3, PTL DEF CalendarSpec

-----------------------------------------------------------------------------
(* The order of vendors, for any configured one.  A chain ends with every   *)
(* registered vendor in it; as long as the search goes on, or once it       *)
(* failed, no vendor gave an answer.  What a vendor makes of the answers of *)
(* its sources is compared with what the two properties of the router allow *)
(* once, for every vendor, before the steps are looked at.                  *)

Letters == {"pending", "data", "words", "absent", "none", "raises"}

RouteType ==
  /\ chain \in Seq(Vendors)
  /\ results \in Seq(Letters)
  /\ answer \in Letters
  /\ request \in [method : Methods, market : {"cn", "hk", "us"}, token : BOOLEAN]

(* What a vendor that leaves the search open returned.                      *)
Open == {"absent", "none", "raises"}

RouteBooks ==
  /\ ToSet(Registered) \subseteq ToSet(chain)
  /\ Len(results) <= Len(chain)
  /\ answer \in {"pending", "raises"} => \A i \in DOMAIN results : results[i] \in Open
  /\ answer = "raises" => Len(results) = Len(chain)

RouteInv == RouteType /\ RouteBooks /\ ErrorsMoveOn /\ ForeignSymbolsPassOn

LEMMA ResultType ==
  ASSUME NEW v, NEW fund, NEW live, NEW answers
  PROVE  Result(v, fund, live, answers) \in {"data", "words"} \cup Open
<1> DEFINE m == request.method
           k == request.market
           R == {"data", "words"} \cup Open
<1>s. \A a, o : o \in R => Single(a, o) \in R
  BY DEF Single, Open
<1>1. Akshare(m, k, fund, live, answers) \in R
  BY <1>s DEF Akshare, AkshareOfShare, Quotes, RecentDays, PriceTable, First, AnyRows, Open
<1>2. Tushare(m, k, request.token, answers[1]) \in R
  BY <1>s DEF Tushare, TushareCnOnly, Open
<1>3. BaoStock(m, k, answers[1]) \in R
  BY <1>s DEF BaoStock, Open
<1>4. YFinance(m, answers[1]) \in R
  BY <1>s DEF YFinance, YahooIndicators, YahooText, Open
<1>5. AlphaVantage(m, answers[1]) \in R
  BY <1>s DEF AlphaVantage, AlphaIndicators, Open
<1> QED
  BY <1>1, <1>2, <1>3, <1>4, <1>5 DEF Result, Open

(* A vendor all of whose sources raise answers in words only where          *)
(* ErrorsMoveOn names it.                                                   *)
LEMMA RaisesMoveOn ==
  ASSUME NEW v, NEW fund, NEW live,
         NEW answers \in [1 .. 6 -> Answers], ToSet(answers) = {"raises"},
         Result(v, fund, live, answers) = "words"
  PROVE  \/ v \in {"cn_tushare", "yfinance"}
         \/ v = "alpha_vantage" /\ request.method = "indicators"
         \/ v = "cn_akshare" /\ request.method \in MarketWide
         \/ request.method = "quotes" /\ request.market # "cn"
<1>1. \A i \in 1 .. 6 : answers[i] = "raises"
  BY DEF ToSet
<1>2. answers[1] = "raises" /\ answers[2] = "raises"
  BY <1>1
<1>3. ASSUME NEW s, NEW n \in Nat \ {0}, DOMAIN s = 1 .. n, \A i \in 1 .. n : s[i] = "raises"
      PROVE  /\ Stopping(s, "raises") = "raises"
             /\ Stopping(s, "empty") = "raises"
             /\ "rows" \notin ToSet(s)
  <2>1. \E i \in DOMAIN s : s[i] # "empty" /\ \A j \in 1 .. i - 1 : s[j] = "empty"
    <3>1. 1 \in DOMAIN s /\ 1 .. 1 - 1 = {}
      BY <1>3
    <3> QED
      BY <3>1, <1>3
  <2>2. Stopping(s, "empty") = "raises"
    BY <2>1, <1>3 DEF Stopping
  <2> QED
    BY <2>2, <1>3 DEF Stopping, ToSet
<1>4. ASSUME NEW a \in 1 .. 6, NEW b \in a .. 6
      PROVE  /\ Stopping(SubSeq(answers, a, b), "raises") = "raises"
             /\ Stopping(SubSeq(answers, a, b), "empty") = "raises"
             /\ "rows" \notin ToSet(SubSeq(answers, a, b))
  <2>1. /\ DOMAIN SubSeq(answers, a, b) = 1 .. b - a + 1
        /\ \A i \in 1 .. b - a + 1 : SubSeq(answers, a, b)[i] = answers[a + i - 1]
    <3>1. answers \in Seq(Answers)
      <4>1. \E n \in Nat : answers \in [1 .. n -> Answers]
        OBVIOUS
      <4> QED
        BY <4>1, SeqDef
    <3>2. Len(answers) = 6
      BY <3>1
    <3> QED
      BY <3>1, <3>2, <1>4
  <2>2. \A i \in 1 .. b - a + 1 : SubSeq(answers, a, b)[i] = "raises"
    BY <1>1, <2>1, <1>4
  <2>3. b - a + 1 \in Nat \ {0}
    BY <1>4
  <2> DEFINE s == SubSeq(answers, a, b)
             n == b - a + 1
  <2> HIDE DEF s, n
  <2>4. n \in Nat \ {0} /\ DOMAIN s = 1 .. n /\ \A i \in 1 .. n : s[i] = "raises"
    BY <2>1, <2>2, <2>3 DEF s, n
  <2>5. Stopping(s, "raises") = "raises" /\ Stopping(s, "empty") = "raises" /\ "rows" \notin ToSet(s)
    BY <1>3, <2>4
  <2> QED
    BY <2>5 DEF s
<1>5. CASE v = "cn_akshare"
  <2>1. Result(v, fund, live, answers) =
          Akshare(request.method, request.market, fund, live, answers)
    BY <1>5 DEF Result
  <2>2. CASE request.method = "chips"
    BY <2>1, <2>2 DEF Akshare, MarketWide
  <2>3. CASE request.method = "quotes"
    BY <2>1, <2>3, <1>2 DEF Akshare, Quotes, Single, MarketWide
  <2>4. CASE request.method \in MarketWide
    BY <1>5, <2>4
  <2>5. CASE request.method = "global_news"
    <3>1. Akshare(request.method, request.market, fund, live, answers)
            = RecentDays(SubSeq(answers, 1, 4))
      BY <2>5 DEF Akshare, MarketWide
    <3>2. RecentDays(SubSeq(answers, 1, 4)) = "raises"
      BY <1>4 DEF RecentDays, Single
    <3> QED
      BY <2>1, <3>1, <3>2
  <2>6. CASE request.method \notin {"chips", "quotes", "global_news"} \cup MarketWide
    <3>1. First(SubSeq(answers, 3, 6)) = "raises"
      BY <1>4 DEF First, Single
    <3>2. PriceTable(fund, live, answers) = "raises"
      BY <3>1, <1>4 DEF PriceTable
    <3>3. \A n \in 1 .. 6 : AnyRows(SubSeq(answers, 1, n), "raises") = "raises"
      BY <1>4 DEF AnyRows
    <3>4. \A o : Single("raises", o) = o
      BY DEF Single
    <3> QED
      BY <2>1, <2>6, <3>2, <3>3, <3>4, <1>2 DEF Akshare, AkshareOfShare
  <2> QED
    BY <2>2, <2>3, <2>4, <2>5, <2>6
<1>6. CASE v = "alpha_vantage"
  BY <1>6, <1>2 DEF Result, AlphaVantage, Single
<1>7. CASE v = "cn_baostock"
  BY <1>7, <1>2 DEF Result, BaoStock, Single
<1>8. CASE v \notin {"cn_akshare", "alpha_vantage", "cn_baostock", "cn_tushare", "yfinance"}
  BY <1>8 DEF Result
<1> QED
  BY <1>5, <1>6, <1>7, <1>8

(* A Chinese vendor answers in words about a symbol of the United States    *)
(* only where ForeignSymbolsPassOn says so.                                 *)
LEMMA ForeignRaise ==
  ASSUME NEW v \in {"cn_akshare", "cn_tushare", "cn_baostock"}, NEW fund, NEW live, NEW answers,
         request \in [method : Methods, market : {"cn", "hk", "us"}, token : BOOLEAN],
         request.market = "us", request.method \notin Unbound, request.method \notin CnOnly,
         Result(v, fund, live, answers) = "words"
  PROVE  request.method = "quotes" \/ request.token
<1>1. request.method # "chips" /\ request.method \notin MarketWide /\ request.method # "global_news"
      /\ request.method # "hot"
  BY DEF CnOnly, Unbound, MarketWide
<1>2. CASE v = "cn_akshare"
  BY <1>1, <1>2 DEF Result, Akshare, MarketWide, Unbound
<1>3. CASE v = "cn_tushare"
  BY <1>1, <1>3 DEF Result, Tushare
<1>4. CASE v = "cn_baostock"
  BY <1>1, <1>4 DEF Result, BaoStock
<1> QED
  BY <1>2, <1>3, <1>4

(* The chain of vendors ends with every registered one in it.               *)
LEMMA ChainAsksAll ==
  ASSUME NEW c \in Seq(Vendors)
  PROVE  VendorChain(c) \in Seq(Vendors) /\ ToSet(Registered) \subseteq ToSet(VendorChain(c))
<1>1. ASSUME NEW s \in Seq(Vendors), NEW v \in Vendors
      PROVE  /\ AlsoAsk(s, v) \in Seq(Vendors)
             /\ v \in ToSet(AlsoAsk(s, v))
             /\ ToSet(s) \subseteq ToSet(AlsoAsk(s, v))
  <2>1. /\ Append(s, v) \in Seq(Vendors)
        /\ DOMAIN Append(s, v) = 1 .. Len(s) + 1
        /\ Append(s, v)[Len(s) + 1] = v
        /\ \A i \in 1 .. Len(s) : Append(s, v)[i] = s[i]
        /\ DOMAIN s = 1 .. Len(s)
    OBVIOUS
  <2>2. v \in ToSet(Append(s, v)) /\ ToSet(s) \subseteq ToSet(Append(s, v))
    BY <2>1 DEF ToSet
  <2> QED
    BY <2>1, <2>2 DEF AlsoAsk
<1>2. /\ Registered[1] \in Vendors /\ Registered[2] \in Vendors /\ Registered[3] \in Vendors
      /\ Registered[4] \in Vendors /\ Registered[5] \in Vendors /\ Registered[6] \in Vendors
  <2>1. DOMAIN Registered = 1 .. 6
    BY DEF Registered
  <2> QED
    BY <2>1 DEF Vendors, ToSet
<1> DEFINE c1 == AlsoAsk(c, Registered[1])
           c2 == AlsoAsk(c1, Registered[2])
           c3 == AlsoAsk(c2, Registered[3])
           c4 == AlsoAsk(c3, Registered[4])
           c5 == AlsoAsk(c4, Registered[5])
           c6 == AlsoAsk(c5, Registered[6])
<1>a. c6 = VendorChain(c)
  BY DEF VendorChain
<1>3. c1 \in Seq(Vendors) /\ Registered[1] \in ToSet(c1)
  BY <1>1, <1>2
<1>4. c2 \in Seq(Vendors) /\ Registered[2] \in ToSet(c2) /\ ToSet(c1) \subseteq ToSet(c2)
  <2> HIDE DEF c1
  <2> QED BY <1>1, <1>2, <1>3
<1>5. c3 \in Seq(Vendors) /\ Registered[3] \in ToSet(c3) /\ ToSet(c2) \subseteq ToSet(c3)
  <2> HIDE DEF c2
  <2> QED BY <1>1, <1>2, <1>4
<1>6. c4 \in Seq(Vendors) /\ Registered[4] \in ToSet(c4) /\ ToSet(c3) \subseteq ToSet(c4)
  <2> HIDE DEF c3
  <2> QED BY <1>1, <1>2, <1>5
<1>7. c5 \in Seq(Vendors) /\ Registered[5] \in ToSet(c5) /\ ToSet(c4) \subseteq ToSet(c5)
  <2> HIDE DEF c4
  <2> QED BY <1>1, <1>2, <1>6
<1>8. c6 \in Seq(Vendors) /\ Registered[6] \in ToSet(c6) /\ ToSet(c5) \subseteq ToSet(c6)
  <2> HIDE DEF c5
  <2> QED BY <1>1, <1>2, <1>7
<1> HIDE DEF c1, c2, c3, c4, c5, c6
<1>9. ToSet(Registered) = {Registered[1], Registered[2], Registered[3], Registered[4], Registered[5], Registered[6]}
  <2>1. DOMAIN Registered = {1, 2, 3, 4, 5, 6}
    BY DEF Registered
  <2> QED
    BY <2>1 DEF ToSet
<1>b. ToSet(Registered) \subseteq ToSet(c6)
  BY <1>3, <1>4, <1>5, <1>6, <1>7, <1>8, <1>9
<1> QED
  BY <1>8, <1>a, <1>b

LEMMA RouteInitial == RouteInit => RouteInv
<1> SUFFICES ASSUME RouteInit PROVE RouteInv
  OBVIOUS
<1>1. PICK c \in Configured : chain = VendorChain(c)
  BY DEF RouteInit
<1>2. chain \in Seq(Vendors) /\ ToSet(Registered) \subseteq ToSet(chain)
  BY <1>1, ChainAsksAll, RoutingAssumption
<1>3. RouteType
  BY <1>2 DEF RouteType, RouteInit, Letters
<1>4. RouteBooks
  BY <1>2 DEF RouteBooks, RouteInit
<1>5. ErrorsMoveOn /\ ForeignSymbolsPassOn
  BY DEF RouteInit, ErrorsMoveOn, ForeignSymbolsPassOn
<1> QED
  BY <1>3, <1>4, <1>5 DEF RouteInv

LEMMA AskKeeps ==
  ASSUME RouteInv, NEW fund, NEW live, NEW answers \in [1 .. 6 -> Answers],
         AskVendor(fund, live, answers)
  PROVE  RouteInv'
<1> DEFINE vendor == chain[Len(results) + 1]
           result == Result(vendor, fund, live, answers)
<1>0. /\ answer = "pending" /\ Len(results) < Len(chain)
      /\ results' = Append(results, result)
      /\ answer' = IF result \in Open THEN "pending" ELSE result
      /\ errors' = (ToSet(answers) = {"raises"})
      /\ request' = request /\ chain' = chain
  BY DEF AskVendor, Open
<1>1. result \in {"data", "words"} \cup Open
  BY ResultType
<1>2. answer' = "words" => result = "words"
  BY <1>0, <1>1 DEF Open
<1>3. errors' /\ answer' = "words" =>
         \/ vendor \in {"cn_tushare", "yfinance"}
         \/ vendor = "alpha_vantage" /\ request.method = "indicators"
         \/ vendor = "cn_akshare" /\ request.method \in MarketWide
         \/ request.method = "quotes" /\ request.market # "cn"
  BY <1>0, <1>2, RaisesMoveOn
<1>4. /\ vendor \in {"cn_akshare", "cn_tushare", "cn_baostock"}
      /\ request.market = "us" /\ request.method \notin Unbound /\ request.method \notin CnOnly
      /\ answer' = "words"
      => request.method = "quotes" \/ request.token
  BY <1>2, ForeignRaise DEF RouteInv, RouteType
<1> HIDE DEF result
<1>5. /\ results' \in Seq(Letters) /\ Len(results') = Len(results) + 1
      /\ results'[Len(results) + 1] = result
      /\ \A i \in 1 .. Len(results) : results'[i] = results[i]
      /\ DOMAIN results' = 1 .. Len(results) + 1
  <2>1. result \in Letters /\ results \in Seq(Letters)
    BY <1>1 DEF RouteInv, RouteType, Open, Letters
  <2> QED
    BY <1>0, <2>1
<1>6. Answering' = vendor
  BY <1>0, <1>5 DEF Answering
<1>7. RouteType'
  BY <1>0, <1>1, <1>5 DEF RouteInv, RouteType, Open, Letters
<1>8. RouteBooks'
  <2>1. /\ ToSet(Registered) \subseteq ToSet(chain')
        /\ Len(results') <= Len(chain')
    BY <1>0, <1>5 DEF RouteInv, RouteType, RouteBooks, Letters, Open
  <2>2. answer' # "raises"
    BY <1>0, <1>1 DEF Open
  <2>3. ASSUME answer' \in {"pending", "raises"}
        PROVE  \A i \in DOMAIN results' : results'[i] \in Open
    <3>1. result \in Open
      BY <2>3, <1>0, <1>1 DEF Open
    <3>2. \A i \in 1 .. Len(results) : results[i] \in Open
      BY <1>0 DEF RouteInv, RouteBooks, RouteType
    <3>3. Len(results) \in Nat
      BY DEF RouteInv, RouteType
    <3>4. \A i \in 1 .. Len(results) + 1 : i \in 1 .. Len(results) \/ i = Len(results) + 1
      BY <3>3
    <3> QED
      BY <1>5, <3>1, <3>2, <3>4
  <2> QED
    BY <2>1, <2>2, <2>3 DEF RouteBooks
<1>9. ErrorsMoveOn'
  BY <1>0, <1>3, <1>6 DEF ErrorsMoveOn
<1>10. ForeignSymbolsPassOn'
  BY <1>0, <1>4, <1>6 DEF ForeignSymbolsPassOn
<1> QED
  BY <1>7, <1>8, <1>9, <1>10 DEF RouteInv

LEMMA RouteKeeps == RouteInv /\ [RouteNext]_routeVars => RouteInv'
<1> SUFFICES ASSUME RouteInv, [RouteNext]_routeVars PROVE RouteInv'
  OBVIOUS
<1>1. CASE SkipHongKong
  <2>1. RouteType' /\ RouteBooks'
    BY <1>1 DEF SkipHongKong, RouteInv, RouteType, RouteBooks, Letters, Open
  <2>2. ErrorsMoveOn'
    BY <1>1 DEF SkipHongKong, ErrorsMoveOn
  <2>3. ForeignSymbolsPassOn'
    BY <1>1 DEF SkipHongKong, ForeignSymbolsPassOn
  <2> QED
    BY <2>1, <2>2, <2>3 DEF RouteInv
<1>2. CASE NoVendorLeft
  <2>1. RouteType' /\ RouteBooks'
    BY <1>2 DEF NoVendorLeft, RouteInv, RouteType, RouteBooks, Letters, Open
  <2>2. answer' # "words"
    BY <1>2 DEF NoVendorLeft
  <2> QED
    BY <2>1, <2>2 DEF RouteInv, ErrorsMoveOn, ForeignSymbolsPassOn
<1>3. ASSUME NEW fund \in BOOLEAN, NEW live \in BOOLEAN, NEW answers \in [1 .. 6 -> Answers],
             AskVendor(fund, live, answers)
      PROVE  RouteInv'
  BY <1>3, AskKeeps
<1>4. CASE UNCHANGED routeVars
  BY <1>4 DEF routeVars, RouteInv, RouteType, RouteBooks, ErrorsMoveOn, ForeignSymbolsPassOn, Answering
<1> QED
  BY <1>1, <1>2, <1>3, <1>4 DEF RouteNext

(* For any configured order of vendors, unknown names included: a request   *)
(* fails only after every registered vendor was asked in vain, a vendor     *)
(* whose sources all failed ends the search only where listed, and Chinese  *)
(* vendors pass symbols of other countries on (interface.py:91-195).        *)
THEOREM RoutingCorrect == RouteSpec => []RoutingInv
<1>1. RouteInv => RoutingInv
  BY DEF RouteInv, RouteBooks, RoutingInv, FailsOnlyWhenAllFail, Open
<1> QED
  BY RouteInitial, RouteKeeps, <1>1, PTL DEF RouteSpec
=============================================================================
