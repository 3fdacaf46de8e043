--------------------------- MODULE JobStoreProofs ---------------------------
(***************************************************************************)
(* Proofs about JobStore: type correctness, and that the queues of the     *)
(* store implement EventLog for any number of jobs, streams and events.    *)
(***************************************************************************)
EXTENDS JobStore, Integers, TLAPS

(* Looping only names the two control states of a stream's loop. *)
USE DEF Looping

(* What Emit does to the buffers, without sequence operators: the queue of  *)
(* the job grows by one event per kind, every other queue is as before.     *)
Old(j) == IF queueOf[j] = 0 THEN <<>> ELSE buffers[queueOf[j]]

LEMMA EnsuredType ==
  ASSUME TypeOK, NEW j \in Jobs
  PROVE  /\ Ensured(j) \in Seq(Seq(Event))
         /\ Queue(j) \in 1 .. Len(Ensured(j))
         /\ Len(buffers) <= Len(Ensured(j))
         /\ Len(Ensured(j)) \in Nat
         /\ Ensured(j)[Queue(j)] = Old(j)
         /\ Old(j) \in Seq(Event)
         /\ \A q \in 1 .. Len(Ensured(j)) : q # Queue(j) =>
              q \in 1 .. Len(buffers) /\ Ensured(j)[q] = buffers[q]
  BY DEF TypeOK, Ensured, Queue, Old

LEMMA EmitEffect ==
  ASSUME TypeOK, NEW j \in Jobs, NEW kinds \in Seq(Kinds), Emit(j, kinds)
  PROVE  /\ buffers' \in Seq(Seq(Event))
         /\ Len(buffers') = Len(Ensured(j))
         /\ Len(buffers'[Queue(j)]) = Len(Old(j)) + Len(kinds)
         /\ \A i \in 1 .. Len(Old(j)) : buffers'[Queue(j)][i] = Old(j)[i]
         /\ \A i \in Len(Old(j)) + 1 .. Len(Old(j)) + Len(kinds) :
              /\ buffers'[Queue(j)][i].job = j
              /\ buffers'[Queue(j)][i].n = emitted[j] + i - Len(Old(j))
         /\ \A q \in 1 .. Len(buffers') : q # Queue(j) =>
              q \in 1 .. Len(buffers) /\ buffers'[q] = buffers[q]
         /\ emitted' = [emitted EXCEPT ![j] = emitted[j] + Len(kinds)]
         /\ queueOf' = [queueOf EXCEPT ![j] = Queue(j)]
<1> DEFINE news == [i \in 1 .. Len(kinds) |->
                      [job |-> j, n |-> emitted[j] + i, kind |-> kinds[i]]]
<1>1. news \in Seq(Event)
  <2>1. emitted[j] \in Nat /\ Len(kinds) \in Nat
    BY DEF TypeOK
  <2>2. ASSUME NEW i \in 1 .. Len(kinds)
        PROVE  [job |-> j, n |-> emitted[j] + i, kind |-> kinds[i]] \in Event
    BY <2>1, <2>2 DEF Event
  <2> QED
    BY <2>1, <2>2
<1>2. Len(news) = Len(kinds)
  BY DEF TypeOK
<1>3. /\ buffers' = [Ensured(j) EXCEPT ![Queue(j)] = Ensured(j)[Queue(j)] \o news]
      /\ emitted' = [emitted EXCEPT ![j] = emitted[j] + Len(kinds)]
      /\ queueOf' = [queueOf EXCEPT ![j] = Queue(j)]
  BY DEF Emit
<1>4. buffers'[Queue(j)] = Old(j) \o news
  <2>1. Queue(j) \in DOMAIN Ensured(j)
    BY EnsuredType
  <2> QED
    BY <1>3, <2>1, EnsuredType
<1>5. Old(j) \o news \in Seq(Event)
  BY <1>1, EnsuredType
<1>6. buffers' \in Seq(Seq(Event)) /\ Len(buffers') = Len(Ensured(j))
  BY <1>3, <1>5, EnsuredType
<1>7. \A q \in 1 .. Len(buffers') : q # Queue(j) =>
              q \in 1 .. Len(buffers) /\ buffers'[q] = buffers[q]
  BY <1>3, <1>6, EnsuredType
<1>8. /\ Len(Old(j) \o news) = Len(Old(j)) + Len(kinds)
      /\ \A i \in 1 .. Len(Old(j)) : (Old(j) \o news)[i] = Old(j)[i]
      /\ \A i \in Len(Old(j)) + 1 .. Len(Old(j)) + Len(kinds) :
           (Old(j) \o news)[i] = news[i - Len(Old(j))]
  BY <1>1, <1>2, EnsuredType
<1>9. \A i \in 1 .. Len(kinds) : news[i].job = j /\ news[i].n = emitted[j] + i
  OBVIOUS
<1>10. \A i \in Len(Old(j)) + 1 .. Len(Old(j)) + Len(kinds) :
         i - Len(Old(j)) \in 1 .. Len(kinds)
  BY EnsuredType
<1> HIDE DEF news
<1>11. ASSUME NEW i \in Len(Old(j)) + 1 .. Len(Old(j)) + Len(kinds)
       PROVE  /\ buffers'[Queue(j)][i].job = j
              /\ buffers'[Queue(j)][i].n = emitted[j] + i - Len(Old(j))
  <2>1. buffers'[Queue(j)][i] = news[i - Len(Old(j))]
    BY <1>4, <1>8
  <2>2. emitted[j] \in Nat /\ Len(Old(j)) \in Nat /\ i \in Int
    BY EnsuredType DEF TypeOK
  <2> QED
    BY <2>1, <2>2, <1>9, <1>10
<1> QED
  BY <1>3, <1>4, <1>6, <1>7, <1>8, <1>11

-----------------------------------------------------------------------------
(* The invariants hold initially. *)

LEMMA InitInvariants == Init => TypeOK /\ DeliveryInv
<1> SUFFICES ASSUME Init PROVE TypeOK /\ DeliveryInv
  OBVIOUS
<1>1. buffers = <<>> /\ Len(buffers) = 0 /\ DOMAIN buffers = {}
  BY DEF Init
<1>2. TypeOK
  <2>1. buffers \in Seq(Seq(Event)) /\ queueOf \in [Jobs -> 0 .. Len(buffers)]
    BY <1>1 DEF Init
  <2>2. streams \in [Streams -> [pc : StreamPc, job : Jobs, queue : 0 .. Len(buffers),
                                grace : 0 .. Grace]]
    <3>1. SUFFICES ASSUME NEW s \in Streams
                   PROVE  streams[s] \in [pc : StreamPc, job : Jobs, queue : 0 .. Len(buffers),
                                          grace : 0 .. Grace]
      BY DEF Init
    <3>2. streams[s] \in [pc : {"idle"}, job : Jobs, queue : {0}, grace : {Grace}]
      BY DEF Init
    <3>3. {"idle"} \subseteq StreamPc /\ {0} \subseteq 0 .. Len(buffers) /\ {Grace} \subseteq 0 .. Grace
      BY <1>1, JobStoreAssumption DEF StreamPc
    <3> QED
      BY <3>2, <3>3
  <2> QED
    BY <2>1, <2>2 DEF Init, TypeOK, Statuses, Terminal, Endings
<1>3. DeliveryInv
  BY <1>1 DEF Init, DeliveryInv, Numbered, Ordered, OneQueue, YieldedOnce, InTime
<1> QED
  BY <1>2, <1>3

-----------------------------------------------------------------------------
(* Emit: the producers' step. *)

(* The events of a queue before and after an emission. *)
LEMMA EmitEvents ==
  ASSUME TypeOK, Numbered, NEW j \in Jobs, NEW kinds \in Seq(Kinds), Emit(j, kinds)
  PROVE  /\ DOMAIN buffers \subseteq DOMAIN buffers'
         /\ \A q \in DOMAIN buffers' : \A i \in DOMAIN buffers'[q] :
              \/ /\ q \in DOMAIN buffers
                 /\ i \in DOMAIN buffers[q]
                 /\ buffers'[q][i] = buffers[q][i]
              \/ /\ q = Queue(j)
                 /\ i \in Len(Old(j)) + 1 .. Len(Old(j)) + Len(kinds)
                 /\ buffers'[q][i].job = j
                 /\ buffers'[q][i].n = emitted[j] + i - Len(Old(j))
         /\ \A k \in Jobs : emitted[k] \in Nat /\ emitted'[k] \in Nat /\ emitted[k] <= emitted'[k]
         /\ emitted'[j] = emitted[j] + Len(kinds)
<1>1. /\ buffers \in Seq(Seq(Event)) /\ DOMAIN buffers = 1 .. Len(buffers)
      /\ queueOf[j] \in 0 .. Len(buffers) /\ Len(buffers) \in Nat
  BY DEF TypeOK
<1>2. /\ buffers' \in Seq(Seq(Event)) /\ DOMAIN buffers' = 1 .. Len(buffers')
      /\ Len(buffers') = Len(Ensured(j)) /\ Len(buffers) <= Len(buffers')
  BY EmitEffect, EnsuredType
<1>3. ASSUME NEW q \in DOMAIN buffers', NEW i \in DOMAIN buffers'[q], q = Queue(j)
      PROVE  \/ /\ q \in DOMAIN buffers
                /\ i \in DOMAIN buffers[q]
                /\ buffers'[q][i] = buffers[q][i]
             \/ /\ i \in Len(Old(j)) + 1 .. Len(Old(j)) + Len(kinds)
                /\ buffers'[q][i].job = j
                /\ buffers'[q][i].n = emitted[j] + i - Len(Old(j))
  <2>1. i \in 1 .. Len(Old(j)) + Len(kinds)
    BY <1>2, <1>3, EmitEffect
  <2>2. CASE i \in 1 .. Len(Old(j))
    <3>1. queueOf[j] # 0
      BY <2>2 DEF Old
    <3>2. q \in DOMAIN buffers /\ Old(j) = buffers[q]
      BY <1>1, <1>3, <3>1 DEF Old, Queue
    <3>3. i \in DOMAIN buffers[q]
      BY <2>2, <3>2, <1>1
    <3> QED
      BY <1>3, <2>2, <3>2, <3>3, EmitEffect
  <2>3. CASE i \in Len(Old(j)) + 1 .. Len(Old(j)) + Len(kinds)
    BY <1>3, <2>3, EmitEffect
  <2>4. Len(Old(j)) \in Nat /\ Len(kinds) \in Nat
    BY EnsuredType
  <2> QED
    BY <2>1, <2>2, <2>3, <2>4
<1>4. ASSUME NEW q \in DOMAIN buffers', NEW i \in DOMAIN buffers'[q], q # Queue(j)
      PROVE  /\ q \in DOMAIN buffers
             /\ i \in DOMAIN buffers[q]
             /\ buffers'[q][i] = buffers[q][i]
  BY <1>1, <1>2, <1>4, EmitEffect
<1>5. /\ \A k \in Jobs : emitted[k] \in Nat /\ emitted'[k] \in Nat /\ emitted[k] <= emitted'[k]
      /\ emitted'[j] = emitted[j] + Len(kinds)
  <2>1. emitted \in [Jobs -> Nat]
    BY DEF TypeOK
  <2>2. emitted' = [emitted EXCEPT ![j] = emitted[j] + Len(kinds)]
    BY EmitEffect
  <2>3. Len(kinds) \in Nat
    OBVIOUS
  <2> QED
    BY <2>1, <2>2, <2>3
<1> QED
  BY <1>1, <1>2, <1>3, <1>4, <1>5

LEMMA EmitInvariants ==
  ASSUME TypeOK, DeliveryInv, NEW j \in Jobs, NEW kinds \in Seq(Kinds), Emit(j, kinds),
         UNCHANGED <<streams, seen>>
  PROVE  DeliveryInv'
<1> DEFINE Fresh(q, i) == /\ q = Queue(j)
                          /\ i \in Len(Old(j)) + 1 .. Len(Old(j)) + Len(kinds)
                          /\ buffers'[q][i].job = j
                          /\ buffers'[q][i].n = emitted[j] + i - Len(Old(j))
           Stale(q, i) == /\ q \in DOMAIN buffers
                          /\ i \in DOMAIN buffers[q]
                          /\ buffers'[q][i] = buffers[q][i]
<1>1. \A q \in DOMAIN buffers' : \A i \in DOMAIN buffers'[q] : Stale(q, i) \/ Fresh(q, i)
  BY EmitEvents DEF DeliveryInv
<1>2. /\ \A k \in Jobs : emitted[k] \in Nat /\ emitted'[k] \in Nat /\ emitted[k] <= emitted'[k]
      /\ emitted'[j] = emitted[j] + Len(kinds)
      /\ DOMAIN buffers \subseteq DOMAIN buffers'
      /\ Len(Old(j)) \in Nat /\ Len(kinds) \in Nat
  BY EmitEvents, EnsuredType DEF DeliveryInv
<1>3. \A q \in DOMAIN buffers : \A i \in DOMAIN buffers[q] :
        buffers[q][i].job \in Jobs /\ buffers[q][i].n \in Nat
  <2>1. SUFFICES ASSUME NEW q \in DOMAIN buffers, NEW i \in DOMAIN buffers[q]
                 PROVE  buffers[q][i].job \in Jobs /\ buffers[q][i].n \in Nat
    OBVIOUS
  <2>2. buffers[q] \in Seq(Event)
    BY DEF TypeOK
  <2>3. buffers[q][i] \in Event
    BY <2>2
  <2> QED
    BY <2>3 DEF Event
<1>4. \A s \in Streams : \A e \in seen[s] : e.job \in Jobs /\ e.n \in Nat
  BY DEF TypeOK, Event
<1>5. \A q \in DOMAIN buffers' : \A i \in DOMAIN buffers'[q] :
        Fresh(q, i) => emitted[j] < buffers'[q][i].n /\ buffers'[q][i].n <= emitted'[j]
  BY <1>2
<1>6. \A q \in DOMAIN buffers' : \A i \in DOMAIN buffers'[q] :
        Stale(q, i) => buffers'[q][i].n <= emitted[buffers'[q][i].job]
  BY DEF DeliveryInv, Numbered
<1>7. \A q \in DOMAIN buffers' : \A i \in DOMAIN buffers'[q] :
        /\ buffers'[q][i].job \in Jobs /\ buffers'[q][i].n \in Int /\ i \in Int
        /\ Fresh(q, i) => buffers'[q][i].job = j
  <2>1. SUFFICES ASSUME NEW q \in DOMAIN buffers', NEW i \in DOMAIN buffers'[q]
                 PROVE  buffers'[q][i].job \in Jobs /\ buffers'[q][i].n \in Int /\ i \in Int
    OBVIOUS
  <2>2. buffers' \in Seq(Seq(Event))
    BY EmitEffect
  <2>3. buffers'[q] \in Seq(Event)
    BY <2>2
  <2>4. buffers'[q][i] \in Event /\ i \in Int
    BY <2>3
  <2> QED
    BY <2>4 DEF Event
<1>8. \A q, p \in DOMAIN buffers' : \A i \in DOMAIN buffers'[q] : \A k \in DOMAIN buffers'[p] :
        Fresh(q, i) /\ Fresh(p, k) =>
          /\ q = p
          /\ buffers'[q][i].n - i = buffers'[p][k].n - k
  <2>1. SUFFICES ASSUME NEW q \in DOMAIN buffers', NEW p \in DOMAIN buffers',
                        NEW i \in DOMAIN buffers'[q], NEW k \in DOMAIN buffers'[p],
                        Fresh(q, i), Fresh(p, k)
                 PROVE  /\ q = p
                        /\ buffers'[q][i].n - i = buffers'[p][k].n - k
    OBVIOUS
  <2>2. i \in Int /\ k \in Int
    BY <1>7
  <2>3. /\ buffers'[q][i].n = emitted[j] + i - Len(Old(j))
        /\ buffers'[p][k].n = emitted[j] + k - Len(Old(j))
        /\ q = p
    BY <2>1
  <2> QED
    BY <2>2, <2>3, <1>2
<1>9. \A q \in DOMAIN buffers' : \A i, k \in DOMAIN buffers'[q] :
        Fresh(q, i) /\ Stale(q, k) => k < i
  <2>1. ASSUME NEW q \in DOMAIN buffers', NEW i \in DOMAIN buffers'[q], NEW k \in DOMAIN buffers'[q],
               Fresh(q, i), Stale(q, k)
        PROVE  k < i
    <3>1. q = Queue(j) /\ q \in DOMAIN buffers /\ k \in DOMAIN buffers[q]
      BY <2>1
    <3>2. buffers \in Seq(Seq(Event)) /\ queueOf[j] \in 0 .. Len(buffers)
      BY DEF TypeOK
    <3>3. queueOf[j] # 0
      BY <3>1, <3>2 DEF Queue
    <3>4. Old(j) = buffers[q]
      BY <3>1, <3>3 DEF Old, Queue
    <3>5. k \in 1 .. Len(Old(j))
      BY <3>1, <3>2, <3>4
    <3>6. i \in Len(Old(j)) + 1 .. Len(Old(j)) + Len(kinds)
      BY <2>1
    <3> QED
      BY <3>5, <3>6, <1>2
  <2> QED
    BY <2>1
<1> HIDE DEF Fresh
<1>10. Numbered'
  <2>1. SUFFICES ASSUME NEW q \in DOMAIN buffers', NEW i \in DOMAIN buffers'[q]
                 PROVE  buffers'[q][i].n <= emitted'[buffers'[q][i].job]
    BY DEF Numbered
  <2>2. CASE Fresh(q, i)
    BY <2>2, <1>5, <1>7
  <2>3. CASE Stale(q, i)
    BY <2>3, <1>2, <1>6, <1>7
  <2> QED
    BY <2>2, <2>3, <1>1
<1>11. Ordered'
  <2>1. SUFFICES ASSUME NEW q \in DOMAIN buffers', NEW i \in DOMAIN buffers'[q],
                        NEW k \in DOMAIN buffers'[q],
                        i < k, buffers'[q][i].job = buffers'[q][k].job
                 PROVE  buffers'[q][i].n < buffers'[q][k].n
    BY DEF Ordered
  <2>2. CASE Stale(q, i) /\ Stale(q, k)
    BY <2>1, <2>2 DEF DeliveryInv, Ordered
  <2>3. CASE Stale(q, i) /\ Fresh(q, k)
    BY <2>1, <2>3, <1>2, <1>5, <1>6, <1>7
  <2>4. CASE Fresh(q, i) /\ Fresh(q, k)
    BY <2>1, <2>4, <1>7, <1>8
  <2>5. CASE Fresh(q, i) /\ Stale(q, k)
    BY <2>1, <2>5, <1>7, <1>9
  <2> QED
    BY <2>2, <2>3, <2>4, <2>5, <1>1
<1>12. OneQueue'
  <2>1. SUFFICES ASSUME NEW p \in DOMAIN buffers', NEW q \in DOMAIN buffers', p # q,
                        NEW i \in DOMAIN buffers'[p], NEW k \in DOMAIN buffers'[q],
                        buffers'[p][i].job = buffers'[q][k].job
                 PROVE  buffers'[p][i].n # buffers'[q][k].n
    BY DEF OneQueue
  <2>2. CASE Stale(p, i) /\ Stale(q, k)
    BY <2>1, <2>2 DEF DeliveryInv, OneQueue
  <2>3. CASE Stale(p, i) /\ Fresh(q, k)
    BY <2>1, <2>3, <1>2, <1>5, <1>6, <1>7
  <2>4. CASE Fresh(p, i) /\ Fresh(q, k)
    BY <2>1, <2>4, <1>8
  <2>5. CASE Fresh(p, i) /\ Stale(q, k)
    BY <2>1, <2>5, <1>2, <1>5, <1>6, <1>7
  <2> QED
    BY <2>2, <2>3, <2>4, <2>5, <1>1
<1>13. YieldedOnce'
  <2>1. SUFFICES ASSUME NEW s \in Streams, NEW e \in seen[s]
                 PROVE  /\ e.n <= emitted'[e.job]
                        /\ \A q \in DOMAIN buffers' : \A i \in DOMAIN buffers'[q] :
                             buffers'[q][i].job = e.job => buffers'[q][i].n # e.n
    BY DEF YieldedOnce
  <2>2. e.n <= emitted[e.job] /\ e.n <= emitted'[e.job]
    BY <1>2, <1>4 DEF DeliveryInv, YieldedOnce
  <2>3. ASSUME NEW q \in DOMAIN buffers', NEW i \in DOMAIN buffers'[q],
               buffers'[q][i].job = e.job
        PROVE  buffers'[q][i].n # e.n
    <3>1. CASE Stale(q, i)
      BY <2>3, <3>1 DEF DeliveryInv, YieldedOnce
    <3>2. CASE Fresh(q, i)
      BY <2>2, <2>3, <3>2, <1>2, <1>4, <1>5, <1>7
    <3> QED
      BY <3>1, <3>2, <1>1
  <2> QED
    BY <2>2, <2>3
<1>14. InTime'
  <2>1. SUFFICES ASSUME NEW s \in Streams, streams[s].pc \in Looping
                 PROVE  /\ streams[s].queue \in DOMAIN buffers'
                        /\ \A e \in seen[s] : \A i \in DOMAIN buffers'[streams[s].queue] :
                             buffers'[streams[s].queue][i].job = e.job
                               => e.n < buffers'[streams[s].queue][i].n
    BY DEF InTime, DeliveryInv
  <2>2. streams[s].queue \in DOMAIN buffers /\ streams[s].queue \in DOMAIN buffers'
    BY <1>2, <2>1 DEF DeliveryInv, InTime
  <2>3. ASSUME NEW e \in seen[s], NEW i \in DOMAIN buffers'[streams[s].queue],
               buffers'[streams[s].queue][i].job = e.job
        PROVE  e.n < buffers'[streams[s].queue][i].n
    <3>1. CASE Stale(streams[s].queue, i)
      BY <2>1, <2>3, <3>1 DEF DeliveryInv, InTime
    <3>2. CASE Fresh(streams[s].queue, i)
      <4>1. e.n <= emitted[e.job]
        BY DEF DeliveryInv, YieldedOnce
      <4>2. e.job = j /\ emitted[j] < buffers'[streams[s].queue][i].n
        BY <2>2, <2>3, <3>2, <1>5, <1>7
      <4> QED
        BY <4>1, <4>2, <1>2, <1>4, <1>7, <2>2
    <3> QED
      BY <3>1, <3>2, <2>2, <1>1
  <2> QED
    BY <2>2, <2>3
<1> QED
  BY <1>10, <1>11, <1>12, <1>13, <1>14 DEF DeliveryInv

-----------------------------------------------------------------------------
(* Steps that leave the events where they are. *)

(* No event moves or appears; a stream that holds a queue keeps it, and one *)
(* that takes a queue has yielded nothing so far.                           *)
LEMMA KeepDelivery ==
  ASSUME DeliveryInv, UNCHANGED <<seen, emitted>>,
         DOMAIN buffers \subseteq DOMAIN buffers',
         \A q \in DOMAIN buffers' : \A i \in DOMAIN buffers'[q] :
           /\ q \in DOMAIN buffers
           /\ i \in DOMAIN buffers[q]
           /\ buffers'[q][i] = buffers[q][i],
         \A s \in Streams : streams'[s].pc \in Looping =>
           \/ streams[s].pc \in Looping /\ streams'[s].queue = streams[s].queue
           \/ streams[s].pc = "idle" /\ streams'[s].queue \in DOMAIN buffers',
         \A s \in Streams : streams'[s].pc = "idle" => streams[s].pc = "idle"
  PROVE  DeliveryInv'
<1>1. Numbered'
  BY DEF DeliveryInv, Numbered
<1>2. Ordered'
  BY DEF DeliveryInv, Ordered
<1>3. OneQueue'
  BY DEF DeliveryInv, OneQueue
<1>4. YieldedOnce'
  BY DEF DeliveryInv, YieldedOnce
<1>5. InTime'
  <2>1. ASSUME NEW s \in Streams, streams'[s].pc = "idle"
        PROVE  seen'[s] = {}
    BY <2>1 DEF DeliveryInv, InTime
  <2>2. ASSUME NEW s \in Streams, streams'[s].pc \in Looping
        PROVE  /\ streams'[s].queue \in DOMAIN buffers'
               /\ \A e \in seen'[s] : \A i \in DOMAIN buffers'[streams'[s].queue] :
                    buffers'[streams'[s].queue][i].job = e.job
                      => e.n < buffers'[streams'[s].queue][i].n
    <3>1. CASE streams[s].pc = "idle"
      BY <2>2, <3>1 DEF DeliveryInv, InTime
    <3>2. CASE streams[s].pc \in Looping
      BY <2>2, <3>2 DEF DeliveryInv, InTime
    <3> QED
      BY <2>2, <3>1, <3>2
  <2> QED
    BY <2>1, <2>2 DEF InTime
<1> QED
  BY <1>1, <1>2, <1>3, <1>4, <1>5 DEF DeliveryInv

-----------------------------------------------------------------------------
(* Yield: the one step that takes an event out of a queue. *)

LEMMA YieldEvents ==
  ASSUME TypeOK, DeliveryInv, NEW s \in Streams, Yield(s)
  PROVE  LET q == streams[s].queue
             e == Head(buffers[q])
         IN  /\ q \in DOMAIN buffers
             /\ buffers' \in Seq(Seq(Event))
             /\ Len(buffers') = Len(buffers)
             /\ e \in Event
             /\ e = buffers[q][1] /\ 1 \in DOMAIN buffers[q]
             /\ seen' = [seen EXCEPT ![s] = seen[s] \cup {e}]
             /\ \A i \in DOMAIN buffers'[q] :
                  /\ i + 1 \in DOMAIN buffers[q]
                  /\ i \in Nat \ {0}
                  /\ buffers'[q][i] = buffers[q][i + 1]
             /\ \A p \in DOMAIN buffers : p # q => buffers'[p] = buffers[p]
<1> DEFINE q == streams[s].queue
           e == Head(buffers[q])
<1>1. streams[s].pc = "waiting" /\ buffers[q] # <<>>
      /\ buffers' = [buffers EXCEPT ![q] = Tail(buffers[q])]
      /\ seen' = [seen EXCEPT ![s] = seen[s] \cup {e}]
  BY DEF Yield
<1>2. q \in DOMAIN buffers
  BY <1>1 DEF DeliveryInv, InTime
<1>3. buffers \in Seq(Seq(Event)) /\ buffers[q] \in Seq(Event)
  BY <1>2 DEF TypeOK
<1>4. /\ Tail(buffers[q]) \in Seq(Event) /\ e \in Event
      /\ e = buffers[q][1] /\ 1 \in DOMAIN buffers[q]
  BY <1>1, <1>3
<1>5. buffers' \in Seq(Seq(Event)) /\ Len(buffers') = Len(buffers)
  BY <1>1, <1>2, <1>3, <1>4
<1>6. buffers'[q] = Tail(buffers[q]) /\ \A p \in DOMAIN buffers : p # q => buffers'[p] = buffers[p]
  BY <1>1, <1>2, <1>3
<1>7. \A i \in DOMAIN Tail(buffers[q]) :
        /\ i + 1 \in DOMAIN buffers[q]
        /\ i \in Nat \ {0}
        /\ Tail(buffers[q])[i] = buffers[q][i + 1]
  BY <1>1, <1>3
<1> QED
  BY <1>1, <1>2, <1>4, <1>5, <1>6, <1>7

LEMMA YieldInvariants ==
  ASSUME TypeOK, DeliveryInv, NEW s \in Streams, Yield(s)
  PROVE  DeliveryInv'
<1> DEFINE q == streams[s].queue
           e == Head(buffers[q])
<1>1. /\ q \in DOMAIN buffers /\ DOMAIN buffers' = DOMAIN buffers
      /\ e \in Event /\ e = buffers[q][1] /\ 1 \in DOMAIN buffers[q]
      /\ seen' = [seen EXCEPT ![s] = seen[s] \cup {e}]
      /\ seen \in [Streams -> SUBSET Event]
  BY YieldEvents DEF TypeOK
<1>2. \A p \in DOMAIN buffers : \A i \in DOMAIN buffers'[p] :
        \/ p = q /\ i \in Nat \ {0} /\ i + 1 \in DOMAIN buffers[p] /\ buffers'[p][i] = buffers[p][i + 1]
        \/ p # q /\ i \in DOMAIN buffers[p] /\ buffers'[p][i] = buffers[p][i]
  BY YieldEvents
<1>3. emitted' = emitted /\ \A t \in Streams :
        /\ streams'[t].queue = streams[t].queue
        /\ streams'[t].pc = "idle" => streams[t].pc = "idle"
        /\ streams'[t].pc \in Looping => streams[t].pc \in Looping
  <2>1. streams[s].pc \in Looping /\ emitted' = emitted
    BY DEF Yield
  <2>2. \/ streams' = [streams EXCEPT ![s].pc = "ended"]
        \/ streams' = streams
    <3>1. CASE e.kind \in TerminalKinds
      BY <3>1 DEF Yield, End
    <3>2. CASE e.kind \notin TerminalKinds
      BY <3>2 DEF Yield
    <3> QED
      BY <3>1, <3>2
  <2>3. streams \in [Streams -> [pc : StreamPc, job : Jobs, queue : 0 .. Len(buffers),
                                 grace : 0 .. Grace]]
    BY DEF TypeOK
  <2> QED
    BY <2>1, <2>2, <2>3
<1>4. \A p \in DOMAIN buffers : \A i \in DOMAIN buffers[p] :
        buffers[p][i].job \in Jobs /\ buffers[p][i].n \in Nat /\ i \in Nat
  <2>1. SUFFICES ASSUME NEW p \in DOMAIN buffers, NEW i \in DOMAIN buffers[p]
                 PROVE  buffers[p][i].job \in Jobs /\ buffers[p][i].n \in Nat /\ i \in Nat
    OBVIOUS
  <2>2. buffers[p] \in Seq(Event)
    BY DEF TypeOK
  <2>3. buffers[p][i] \in Event /\ i \in Nat
    BY <2>2
  <2> QED
    BY <2>3 DEF Event
<1> HIDE DEF q, e
<1>5. Numbered'
  BY <1>1, <1>2, <1>3 DEF DeliveryInv, Numbered
<1>6. Ordered'
  <2>1. SUFFICES ASSUME NEW p \in DOMAIN buffers, NEW i \in DOMAIN buffers'[p],
                        NEW k \in DOMAIN buffers'[p],
                        i < k, buffers'[p][i].job = buffers'[p][k].job
                 PROVE  buffers'[p][i].n < buffers'[p][k].n
    BY <1>1 DEF Ordered
  <2>2. CASE p = q
    <3>1. /\ i \in Nat /\ k \in Nat /\ i + 1 \in DOMAIN buffers[p] /\ k + 1 \in DOMAIN buffers[p]
          /\ buffers'[p][i] = buffers[p][i + 1] /\ buffers'[p][k] = buffers[p][k + 1]
      BY <2>2, <1>2
    <3>2. i + 1 < k + 1
      BY <2>1, <3>1
    <3> QED
      BY <2>1, <3>1, <3>2 DEF DeliveryInv, Ordered
  <2>3. CASE p # q
    BY <2>1, <2>3, <1>2 DEF DeliveryInv, Ordered
  <2> QED
    BY <2>2, <2>3
<1>7. OneQueue'
  <2>1. SUFFICES ASSUME NEW p \in DOMAIN buffers, NEW r \in DOMAIN buffers, p # r,
                        NEW i \in DOMAIN buffers'[p], NEW k \in DOMAIN buffers'[r],
                        buffers'[p][i].job = buffers'[r][k].job
                 PROVE  buffers'[p][i].n # buffers'[r][k].n
    BY <1>1 DEF OneQueue
  <2>2. PICK i0 \in DOMAIN buffers[p] : buffers'[p][i] = buffers[p][i0]
    BY <1>2
  <2>3. PICK k0 \in DOMAIN buffers[r] : buffers'[r][k] = buffers[r][k0]
    BY <1>2
  <2> QED
    BY <2>1, <2>2, <2>3 DEF DeliveryInv, OneQueue
<1>8. \A t \in Streams : \A d \in seen'[t] : d \in seen[t] \/ (t = s /\ d = e)
  BY <1>1
<1>9. \A p \in DOMAIN buffers : \A i \in DOMAIN buffers'[p] :
        buffers'[p][i].job = e.job =>
          /\ buffers'[p][i].n # e.n
          /\ p = q => e.n < buffers'[p][i].n
  <2>1. SUFFICES ASSUME NEW p \in DOMAIN buffers, NEW i \in DOMAIN buffers'[p],
                        buffers'[p][i].job = e.job
                 PROVE  /\ buffers'[p][i].n # e.n
                        /\ p = q => e.n < buffers'[p][i].n
    OBVIOUS
  <2>2. CASE p = q
    <3>1. i + 1 \in DOMAIN buffers[q] /\ 1 < i + 1 /\ buffers'[p][i] = buffers[q][i + 1]
      BY <2>2, <1>2
    <3>2. buffers[q][1].n < buffers[q][i + 1].n
      BY <2>1, <3>1, <1>1 DEF DeliveryInv, Ordered
    <3> QED
      BY <3>1, <3>2, <1>1, <1>4
  <2>3. CASE p # q
    BY <2>1, <2>3, <1>1, <1>2 DEF DeliveryInv, OneQueue
  <2> QED
    BY <2>2, <2>3
<1>10. YieldedOnce'
  <2>1. SUFFICES ASSUME NEW t \in Streams, NEW d \in seen'[t]
                 PROVE  /\ d.n <= emitted[d.job]
                        /\ \A p \in DOMAIN buffers : \A i \in DOMAIN buffers'[p] :
                             buffers'[p][i].job = d.job => buffers'[p][i].n # d.n
    BY <1>1, <1>3 DEF YieldedOnce
  <2>2. CASE d \in seen[t]
    BY <2>2, <1>2 DEF DeliveryInv, YieldedOnce
  <2>3. CASE d = e
    BY <2>3, <1>1, <1>9 DEF DeliveryInv, Numbered
  <2> QED
    BY <2>2, <2>3, <1>8
<1>11. InTime'
  <2>1. ASSUME NEW t \in Streams, streams'[t].pc = "idle"
        PROVE  seen'[t] = {}
    <3>1. t # s
      BY <2>1, <1>3 DEF Yield
    <3> QED
      BY <2>1, <3>1, <1>1, <1>3 DEF DeliveryInv, InTime
  <2>2. ASSUME NEW t \in Streams, streams'[t].pc \in Looping
        PROVE  /\ streams'[t].queue \in DOMAIN buffers'
               /\ \A d \in seen'[t] : \A i \in DOMAIN buffers'[streams'[t].queue] :
                    buffers'[streams'[t].queue][i].job = d.job
                      => d.n < buffers'[streams'[t].queue][i].n
    <3>1. streams[t].pc \in Looping /\ streams'[t].queue = streams[t].queue
          /\ streams[t].queue \in DOMAIN buffers
      BY <2>2, <1>3 DEF DeliveryInv, InTime
    <3>2. ASSUME NEW d \in seen'[t], NEW i \in DOMAIN buffers'[streams[t].queue],
                 buffers'[streams[t].queue][i].job = d.job
          PROVE  d.n < buffers'[streams[t].queue][i].n
      <4>1. CASE d \in seen[t]
        <5>1. PICK k \in DOMAIN buffers[streams[t].queue] :
                buffers'[streams[t].queue][i] = buffers[streams[t].queue][k]
          BY <3>1, <1>2
        <5> QED
          BY <3>1, <3>2, <4>1, <5>1 DEF DeliveryInv, InTime
      <4>2. CASE t = s /\ d = e
        BY <3>1, <3>2, <4>2, <1>9 DEF q
      <4> QED
        BY <4>1, <4>2, <1>8
    <3> QED
      BY <3>1, <3>2, <1>1
  <2> QED
    BY <2>1, <2>2 DEF InTime
<1> QED
  BY <1>5, <1>6, <1>7, <1>10, <1>11 DEF DeliveryInv

-----------------------------------------------------------------------------
(* Every step of the store preserves both invariants. *)

StreamType == [pc : StreamPc, job : Jobs, queue : 0 .. Len(buffers), grace : 0 .. Grace]

LEMMA WiderStreams ==
  ASSUME TypeOK, Len(buffers') \in Nat, Len(buffers) <= Len(buffers')
  PROVE  /\ [Streams -> StreamType] \subseteq [Streams -> StreamType']
         /\ 0 .. Len(buffers) \subseteq 0 .. Len(buffers')
<1>1. Len(buffers) \in Nat
  BY DEF TypeOK
<1>2. 0 .. Len(buffers) \subseteq 0 .. Len(buffers')
  BY <1>1
<1>3. StreamType \subseteq StreamType'
  BY <1>2 DEF StreamType
<1> QED
  BY <1>2, <1>3

(* How a generator's own step changes its state.                            *)
LEMMA StreamChange ==
  ASSUME streams \in [Streams -> StreamType], NEW s \in Streams,
         NEW pc \in StreamPc
  PROVE  [streams EXCEPT ![s].pc = pc] \in [Streams -> StreamType]
<1>1. [streams[s] EXCEPT !.pc = pc] \in StreamType
  BY DEF StreamType
<1> QED
  BY <1>1

LEMMA EmitType ==
  ASSUME TypeOK, NEW j \in Jobs, NEW kinds \in Seq(Kinds), Emit(j, kinds),
         status' \in [Jobs -> Statuses], created' \subseteq Jobs, UNCHANGED streamVars
  PROVE  TypeOK'
<1>1. /\ buffers' \in Seq(Seq(Event))
      /\ Len(buffers') = Len(Ensured(j))
      /\ emitted' = [emitted EXCEPT ![j] = emitted[j] + Len(kinds)]
      /\ queueOf' = [queueOf EXCEPT ![j] = Queue(j)]
  BY EmitEffect
<1>2. /\ Len(buffers) <= Len(buffers') /\ Len(buffers') \in Nat
      /\ Queue(j) \in 0 .. Len(buffers')
  BY <1>1, EnsuredType
<1>3. queueOf' \in [Jobs -> 0 .. Len(buffers')]
  BY <1>1, <1>2, WiderStreams DEF TypeOK
<1>4. streams' \in [Streams -> StreamType']
  BY <1>2, WiderStreams DEF TypeOK, StreamType, streamVars
<1>5. emitted' \in [Jobs -> Nat]
  <2>1. Len(kinds) \in Nat /\ emitted \in [Jobs -> Nat]
    BY DEF TypeOK
  <2> QED
    BY <1>1, <2>1
<1> QED
  BY <1>1, <1>3, <1>4, <1>5 DEF TypeOK, StreamType, streamVars

LEMMA EmitStep ==
  ASSUME TypeOK, DeliveryInv, NEW j \in Jobs, NEW kinds \in Seq(Kinds), Emit(j, kinds),
         status' \in [Jobs -> Statuses], created' \subseteq Jobs, UNCHANGED streamVars
  PROVE  TypeOK' /\ DeliveryInv'
  BY EmitType, EmitInvariants DEF streamVars

LEMMA SubscribeStep ==
  ASSUME TypeOK, DeliveryInv, NEW s \in Streams, Subscribe(s)
  PROVE  TypeOK' /\ DeliveryInv'
<1> DEFINE j == streams[s].job
<1>1. /\ streams \in [Streams -> StreamType] /\ j \in Jobs
      /\ buffers \in Seq(Seq(Event)) /\ DOMAIN buffers = 1 .. Len(buffers)
  BY DEF TypeOK, StreamType
<1>2. /\ streams[s].pc = "idle"
      /\ queueOf' = [queueOf EXCEPT ![j] = Queue(j)]
      /\ buffers' = Ensured(j)
      /\ streams' = [streams EXCEPT ![s].pc = "waiting", ![s].queue = Queue(j)]
      /\ UNCHANGED <<status, created, emitted, seen, ending>>
  BY DEF Subscribe
<1> HIDE DEF j
<1>3. /\ buffers' \in Seq(Seq(Event)) /\ Queue(j) \in 1 .. Len(buffers')
      /\ Len(buffers) <= Len(buffers') /\ Len(buffers') \in Nat
      /\ DOMAIN buffers' = 1 .. Len(buffers')
      /\ DOMAIN buffers \subseteq DOMAIN buffers'
  BY <1>1, <1>2, EnsuredType
<1>4. TypeOK'
  <2>1. queueOf' \in [Jobs -> 0 .. Len(buffers')]
    BY <1>1, <1>2, <1>3, WiderStreams DEF TypeOK
  <2>2. streams' \in [Streams -> StreamType']
    <3>1. streams \in [Streams -> StreamType']
      BY <1>1, <1>3, WiderStreams
    <3>2. "waiting" \in StreamPc /\ Queue(j) \in 0 .. Len(buffers')
      BY <1>3 DEF StreamPc
    <3> QED
      BY <1>2, <3>1, <3>2 DEF StreamType
  <2> QED
    BY <1>2, <1>3, <2>1, <2>2 DEF TypeOK, StreamType
<1>5. \A q \in DOMAIN buffers' : \A i \in DOMAIN buffers'[q] :
        /\ q \in DOMAIN buffers
        /\ i \in DOMAIN buffers[q]
        /\ buffers'[q][i] = buffers[q][i]
  <2>1. SUFFICES ASSUME NEW q \in DOMAIN buffers', NEW i \in DOMAIN buffers'[q]
                 PROVE  q \in DOMAIN buffers /\ buffers'[q] = buffers[q]
    OBVIOUS
  <2>2. CASE queueOf[j] = 0
    <3>1. buffers' = Append(buffers, <<>>)
      BY <1>2, <2>2 DEF Ensured
    <3> QED
      BY <1>1, <3>1
  <2>3. CASE queueOf[j] # 0
    BY <1>2, <2>3 DEF Ensured
  <2> QED
    BY <2>2, <2>3
<1>6. \A t \in Streams :
        /\ streams'[t].pc \in Looping =>
             \/ streams[t].pc \in Looping /\ streams'[t].queue = streams[t].queue
             \/ streams[t].pc = "idle" /\ streams'[t].queue \in DOMAIN buffers'
        /\ streams'[t].pc = "idle" => streams[t].pc = "idle"
  BY <1>1, <1>2, <1>3 DEF StreamType
<1>7. DeliveryInv'
  BY <1>2, <1>3, <1>5, <1>6, KeepDelivery
<1> QED
  BY <1>4, <1>7

LEMMA YieldStep ==
  ASSUME TypeOK, DeliveryInv, NEW s \in Streams, Yield(s)
  PROVE  TypeOK' /\ DeliveryInv'
<1> DEFINE q == streams[s].queue
           e == Head(buffers[q])
<1>1. /\ buffers' \in Seq(Seq(Event)) /\ Len(buffers') = Len(buffers)
      /\ seen' = [seen EXCEPT ![s] = seen[s] \cup {e}] /\ e \in Event
  BY YieldEvents
<1>2. /\ UNCHANGED <<status, created, queueOf, emitted>>
      /\ \/ /\ streams' = [streams EXCEPT ![s].pc = "ended"]
            /\ ending' = [ending EXCEPT ![s] = "event"]
         \/ /\ streams' = streams
            /\ ending' = ending
  <2>1. CASE e.kind \in TerminalKinds
    BY <2>1 DEF Yield, End
  <2>2. CASE e.kind \notin TerminalKinds
    BY <2>2 DEF Yield
  <2> QED
    BY <2>1, <2>2
<1>3. streams' \in [Streams -> StreamType]
  <2>1. streams \in [Streams -> StreamType] /\ "ended" \in StreamPc
    BY DEF TypeOK, StreamType, StreamPc
  <2>2. [streams EXCEPT ![s].pc = "ended"] \in [Streams -> StreamType]
    BY <2>1, StreamChange
  <2> QED
    BY <1>2, <2>1, <2>2
<1>4. seen' \in [Streams -> SUBSET Event] /\ ending' \in [Streams -> Endings]
  <2>1. /\ seen \in [Streams -> SUBSET Event] /\ ending \in [Streams -> Endings]
        /\ "event" \in Endings
    BY DEF TypeOK, Endings
  <2> HIDE DEF e
  <2> QED
    BY <1>1, <1>2, <2>1
<1>5. TypeOK'
  BY <1>1, <1>2, <1>3, <1>4 DEF TypeOK, StreamType
<1> QED
  BY <1>5, YieldInvariants

(* Steps of a stream, or of all of them, that only change their local state. *)
LEMMA LocalStep ==
  ASSUME TypeOK, DeliveryInv, UNCHANGED <<buffers, emitted, seen>>,
         status' \in [Jobs -> Statuses], created' \subseteq Jobs,
         queueOf' \in [Jobs -> 0 .. Len(buffers)],
         streams' \in [Streams -> StreamType],
         ending' \in [Streams -> Endings],
         \A s \in Streams :
           /\ streams'[s].pc \in Looping =>
                streams[s].pc \in Looping /\ streams'[s].queue = streams[s].queue
           /\ streams'[s].pc = "idle" => streams[s].pc = "idle"
  PROVE  TypeOK' /\ DeliveryInv'
<1>1. TypeOK'
  BY DEF TypeOK, StreamType
<1>2. DeliveryInv'
  BY KeepDelivery
<1> QED
  BY <1>1, <1>2

LEMMA PollTimeoutStep ==
  ASSUME TypeOK, DeliveryInv, NEW s \in Streams, PollTimeout(s)
  PROVE  TypeOK' /\ DeliveryInv'
<1>1. /\ streams \in [Streams -> StreamType] /\ {"ended", "waiting"} \subseteq StreamPc
      /\ ending \in [Streams -> Endings]
      /\ streams[s].job \in Jobs
  BY DEF TypeOK, StreamType, StreamPc
<1>2. /\ UNCHANGED <<status, created, queueOf, buffers, emitted, seen>>
      /\ streams[s].pc = "expired"
  BY DEF PollTimeout
<1>3. CASE status[streams[s].job] \in Terminal
  <2>1. /\ streams' = [streams EXCEPT ![s].pc = "ended"]
        /\ \E why \in {"overtaken"} \cup Terminal : ending' = [ending EXCEPT ![s] = why]
    BY <1>3 DEF PollTimeout, End
  <2>2. streams' \in [Streams -> StreamType]
    BY <1>1, <2>1, StreamChange
  <2>3. ending' \in [Streams -> Endings]
    BY <1>1, <2>1 DEF Endings
  <2>4. \A t \in Streams :
          /\ streams'[t].pc \in Looping =>
               streams[t].pc \in Looping /\ streams'[t].queue = streams[t].queue
          /\ streams'[t].pc = "idle" => streams[t].pc = "idle"
    BY <1>1, <1>2, <2>1 DEF StreamType
  <2> QED
    BY <1>2, <2>2, <2>3, <2>4, LocalStep DEF TypeOK
<1>4. CASE status[streams[s].job] \notin Terminal
  <2>1. streams' = [streams EXCEPT ![s].pc = "waiting"] /\ ending' = ending
    BY <1>4 DEF PollTimeout
  <2>2. streams' \in [Streams -> StreamType]
    BY <1>1, <2>1, StreamChange
  <2>3. \A t \in Streams :
          /\ streams'[t].pc \in Looping =>
               streams[t].pc \in Looping /\ streams'[t].queue = streams[t].queue
          /\ streams'[t].pc = "idle" => streams[t].pc = "idle"
    BY <1>1, <1>2, <2>1 DEF StreamType
  <2> QED
    BY <1>2, <2>1, <2>2, <2>3, LocalStep DEF TypeOK
<1> QED
  BY <1>3, <1>4

LEMMA DisconnectStep ==
  ASSUME TypeOK, DeliveryInv, NEW s \in Streams, Disconnect(s)
  PROVE  TypeOK' /\ DeliveryInv'
<1>1. /\ streams \in [Streams -> StreamType] /\ "ended" \in StreamPc
      /\ ending \in [Streams -> Endings]
  BY DEF TypeOK, StreamType, StreamPc
<1>2. /\ UNCHANGED <<status, created, queueOf, buffers, emitted, seen>>
      /\ streams' = [streams EXCEPT ![s].pc = "ended"]
      /\ ending' = [ending EXCEPT ![s] = "disconnect"]
  BY DEF Disconnect, End
<1>3. streams' \in [Streams -> StreamType]
  BY <1>1, <1>2, StreamChange
<1>4. \A t \in Streams :
        /\ streams'[t].pc \in Looping =>
             streams[t].pc \in Looping /\ streams'[t].queue = streams[t].queue
        /\ streams'[t].pc = "idle" => streams[t].pc = "idle"
  BY <1>1, <1>2 DEF StreamType
<1>5. ending' \in [Streams -> Endings]
  BY <1>1, <1>2 DEF Endings
<1> QED
  BY <1>2, <1>3, <1>4, <1>5, LocalStep DEF TypeOK

LEMMA CleanupStep ==
  ASSUME TypeOK, DeliveryInv, NEW s \in Streams, Cleanup(s)
  PROVE  TypeOK' /\ DeliveryInv'
<1> DEFINE j == streams[s].job
<1>1. /\ streams \in [Streams -> StreamType] /\ "gone" \in StreamPc
      /\ j \in Jobs
      /\ status \in [Jobs -> Statuses] /\ "absent" \in Statuses
      /\ queueOf \in [Jobs -> 0 .. Len(buffers)] /\ 0 \in 0 .. Len(buffers)
      /\ created \subseteq Jobs
  BY DEF TypeOK, StreamType, StreamPc, Statuses
<1>2. /\ streams' = [streams EXCEPT ![s].pc = "gone"]
      /\ status' = [status EXCEPT ![j] = "absent"]
      /\ created' = created \ {j}
      /\ queueOf' = [queueOf EXCEPT ![j] = 0]
      /\ UNCHANGED <<buffers, emitted, seen, ending>>
  BY DEF Cleanup, DeleteJob
<1> HIDE DEF j
<1>3. streams' \in [Streams -> StreamType]
  BY <1>1, <1>2, StreamChange
<1>4. \A t \in Streams :
        /\ streams'[t].pc \in Looping =>
             streams[t].pc \in Looping /\ streams'[t].queue = streams[t].queue
        /\ streams'[t].pc = "idle" => streams[t].pc = "idle"
  BY <1>1, <1>2 DEF StreamType
<1>5. /\ status' \in [Jobs -> Statuses] /\ created' \subseteq Jobs
      /\ queueOf' \in [Jobs -> 0 .. Len(buffers)]
  BY <1>1, <1>2
<1> QED
  BY <1>2, <1>3, <1>4, <1>5, LocalStep DEF TypeOK

LEMMA TickStep ==
  ASSUME TypeOK, DeliveryInv, Tick
  PROVE  TypeOK' /\ DeliveryInv'
<1>1. streams \in [Streams -> StreamType]
  BY DEF TypeOK, StreamType
<1>2. UNCHANGED <<status, created, queueOf, buffers, emitted, seen, ending>>
  BY DEF Tick
<1>3. ASSUME NEW s \in Streams
      PROVE  /\ streams'[s] \in StreamType
             /\ streams'[s].pc \in Looping => streams[s].pc \in Looping
             /\ streams'[s].pc = "idle" => streams[s].pc = "idle"
             /\ streams'[s].queue = streams[s].queue
  <2>1. streams[s] \in StreamType /\ streams[s].pc \in StreamPc /\ streams[s].grace \in 0 .. Grace
    BY <1>1 DEF StreamType
  <2>2. CASE streams[s].pc = "waiting"
    <3>1. streams'[s] = [streams[s] EXCEPT !.pc = "expired"]
      BY <2>2 DEF Tick
    <3> QED
      BY <2>1, <2>2, <3>1 DEF StreamType, StreamPc
  <2>3. CASE streams[s].pc = "ended"
    <3>1. streams'[s] = [streams[s] EXCEPT !.grace = streams[s].grace - 1]
      BY <2>3 DEF Tick
    <3>2. streams[s].grace # 0
      BY <2>3 DEF Tick, Busy
    <3>3. streams[s].grace - 1 \in 0 .. Grace
      BY <2>1, <3>2, JobStoreAssumption
    <3> QED
      BY <2>1, <3>1, <3>3 DEF StreamType
  <2>4. CASE streams[s].pc \notin {"waiting", "ended"}
    <3>1. streams'[s] = streams[s]
      BY <2>4 DEF Tick
    <3> QED
      BY <2>1, <3>1
  <2> QED
    BY <2>2, <2>3, <2>4
<1>4. streams' \in [Streams -> StreamType]
  <2>1. streams' = [s \in Streams |-> streams'[s]]
    BY DEF Tick
  <2> QED
    BY <1>3, <2>1
<1> QED
  BY <1>2, <1>3, <1>4, LocalStep DEF TypeOK

LEMMA SetJobStep ==
  ASSUME TypeOK, DeliveryInv, status' \in [Jobs -> Statuses], created' \subseteq Jobs,
         UNCHANGED <<queueVars, streamVars>>
  PROVE  TypeOK' /\ DeliveryInv'
<1>1. streams' \in [Streams -> StreamType]
  BY DEF TypeOK, StreamType, streamVars
<1> QED
  BY <1>1, LocalStep DEF TypeOK, queueVars, streamVars

LEMMA StreamStepPreserves ==
  ASSUME TypeOK, DeliveryInv, NEW s \in Streams, StreamStep(s)
  PROVE  TypeOK' /\ DeliveryInv'
  BY SubscribeStep, YieldStep, PollTimeoutStep, DisconnectStep, CleanupStep DEF StreamStep

-----------------------------------------------------------------------------
(* The theorems. *)

LEMMA NextPreserves ==
  ASSUME TypeOK, DeliveryInv, [Next]_vars
  PROVE  TypeOK' /\ DeliveryInv'
<1>1. ASSUME NEW j \in Jobs, AnySetJob(j)
      PROVE  TypeOK' /\ DeliveryInv'
  <2>1. status' \in [Jobs -> Statuses] /\ created' \subseteq Jobs
    BY <1>1 DEF AnySetJob, CreateJob, SetJob, TypeOK, Statuses
  <2> QED
    BY <1>1, <2>1, SetJobStep DEF AnySetJob
<1>2. ASSUME NEW j \in Jobs, AnyEmit(j)
      PROVE  TypeOK' /\ DeliveryInv'
  <2>1. PICK k \in Kinds : Emit(j, <<k>>)
    BY <1>2 DEF AnyEmit
  <2>2. <<k>> \in Seq(Kinds)
    OBVIOUS
  <2>3. status' \in [Jobs -> Statuses] /\ created' \subseteq Jobs /\ UNCHANGED streamVars
    BY <1>2 DEF AnyEmit, TypeOK, storeVars
  <2> QED
    BY <2>1, <2>2, <2>3, EmitStep
<1>3. CASE UNCHANGED vars
  <2>1. status' \in [Jobs -> Statuses] /\ created' \subseteq Jobs
        /\ UNCHANGED <<queueVars, streamVars>>
    BY <1>3 DEF vars, TypeOK, queueVars, streamVars
  <2> QED
    BY <2>1, SetJobStep
<1> QED
  BY <1>1, <1>2, <1>3, StreamStepPreserves, TickStep DEF Next

(* The store's state keeps its types: every index of a queue a job or a     *)
(* generator holds is that of a queue that was made, and no grace period    *)
(* is counted below zero (job_store.py:70-167).                             *)
THEOREM TypeCorrect == Spec => []TypeOK
<1>1. Init => TypeOK /\ DeliveryInv
  BY InitInvariants
<1>2. TypeOK /\ DeliveryInv /\ [Next]_vars => TypeOK' /\ DeliveryInv'
  BY NextPreserves
<1> QED
  BY <1>1, <1>2, PTL DEF Spec

(* However the producers, the generators and the deletions interleave,      *)
(* events stay in emission order, in one queue, and behind what their       *)
(* stream has yielded (job_store.py:87-152).                                *)
THEOREM Delivery == Spec => []DeliveryInv
<1>1. Init => TypeOK /\ DeliveryInv
  BY InitInvariants
<1>2. TypeOK /\ DeliveryInv /\ [Next]_vars => TypeOK' /\ DeliveryInv'
  BY NextPreserves
<1> QED
  BY <1>1, <1>2, PTL DEF Spec

(* Both together, the promise the run on the store alone checks             *)
(* (job_store.py:63-167).                                                   *)
THEOREM StoreCorrect == Spec => []StoreInv
<1>1. TypeOK /\ DeliveryInv <=> StoreInv
  BY DEF StoreInv
<1> QED
  BY <1>1, TypeCorrect, Delivery, PTL

(* Every step of the store is a step of EventLog or leaves its state alone: *)
(* an emission, a yield of an event later than all the stream has yielded   *)
(* and new to every stream, or a stutter.                                   *)
LEMMA YieldImplements ==
  ASSUME TypeOK, DeliveryInv, NEW s \in Streams, Yield(s)
  PROVE  \E e \in seen'[s] : Log!Yield(s, e)
<1> DEFINE q == streams[s].queue
           e == Head(buffers[q])
<1>1. /\ q \in DOMAIN buffers /\ e \in Event
      /\ e = buffers[q][1] /\ 1 \in DOMAIN buffers[q]
      /\ seen' = [seen EXCEPT ![s] = seen[s] \cup {e}]
      /\ seen \in [Streams -> SUBSET Event]
  BY YieldEvents DEF TypeOK
<1>2. streams[s].pc \in Looping /\ emitted' = emitted
  BY DEF Yield
<1> HIDE DEF e
<1>3. e.job \in Jobs /\ e.n \in Nat \ {0} /\ emitted[e.job] \in Nat
  BY <1>1 DEF Event, TypeOK
<1>4. e.n <= emitted[e.job]
  BY <1>1 DEF DeliveryInv, Numbered
<1>5. \A d \in seen[s] : d.job = e.job => d.n < e.n
  BY <1>1, <1>2 DEF DeliveryInv, InTime
<1>6. \A t \in Streams : \A d \in seen[t] : d.job = e.job => d.n # e.n
  BY <1>1 DEF DeliveryInv, YieldedOnce
<1>7. e \in seen'[s] /\ e.n \in 1 .. emitted[e.job]
  BY <1>1, <1>3, <1>4
<1> QED
  BY <1>1, <1>2, <1>3, <1>5, <1>6, <1>7 DEF Log!Yield

LEMMA EmitImplements ==
  ASSUME TypeOK, NEW j \in Jobs, NEW kinds \in Seq(Kinds), kinds # <<>>, Emit(j, kinds),
         UNCHANGED seen
  PROVE  Log!Emit(j)
<1>1. emitted' = [emitted EXCEPT ![j] = emitted[j] + Len(kinds)]
  BY EmitEffect
<1>2. emitted \in [Jobs -> Nat] /\ Len(kinds) \in Nat \ {0}
  BY DEF TypeOK
<1>3. emitted'[j] = emitted[j] + Len(kinds)
  BY <1>1, <1>2
<1> QED
  BY <1>1, <1>2, <1>3 DEF Log!Emit

LEMMA NextImplements ==
  ASSUME TypeOK, DeliveryInv, [Next]_vars
  PROVE  [Log!Next]_(Log!logVars)
<1>1. ASSUME NEW j \in Jobs, AnySetJob(j)
      PROVE  UNCHANGED Log!logVars
  BY <1>1 DEF AnySetJob, queueVars, streamVars, Log!logVars
<1>2. ASSUME NEW j \in Jobs, AnyEmit(j)
      PROVE  Log!Next
  <2>1. PICK k \in Kinds : Emit(j, <<k>>)
    BY <1>2 DEF AnyEmit
  <2>2. <<k>> \in Seq(Kinds) /\ <<k>> # <<>> /\ UNCHANGED seen
    BY <1>2 DEF AnyEmit, streamVars
  <2> QED
    BY <2>1, <2>2, EmitImplements DEF Log!Next
<1>3. ASSUME NEW s \in Streams, StreamStep(s)
      PROVE  Log!Next \/ UNCHANGED Log!logVars
  <2>1. CASE Yield(s)
    BY <2>1, YieldImplements DEF Log!Next
  <2>2. CASE ~Yield(s)
    BY <1>3, <2>2 DEF StreamStep, Subscribe, PollTimeout, Disconnect, Cleanup, DeleteJob, Log!logVars
  <2> QED
    BY <2>1, <2>2
<1>4. CASE Tick
  BY <1>4 DEF Tick, Log!logVars
<1>5. CASE UNCHANGED vars
  BY <1>5 DEF vars, Log!logVars
<1> QED
  BY <1>1, <1>2, <1>3, <1>4, <1>5 DEF Next

(* The store implements the event log: a stream sees the events of a job in *)
(* emission order, and no event reaches two streams, for any number of      *)
(* jobs, streams and events (job_store.py:122-152).                         *)
THEOREM Refinement == Spec => EventLogImplemented
<1>1. Init => TypeOK /\ DeliveryInv
  BY InitInvariants
<1>2. TypeOK /\ DeliveryInv /\ [Next]_vars => TypeOK' /\ DeliveryInv'
  BY NextPreserves
<1>3. Init => Log!Init
  BY DEF Init, Log!Init
<1>4. TypeOK /\ DeliveryInv /\ [Next]_vars => [Log!Next]_(Log!logVars)
  BY NextImplements
<1> QED
  BY <1>1, <1>2, <1>3, <1>4, PTL DEF Spec, EventLogImplemented, Log!Spec

-----------------------------------------------------------------------------
(* Where events are.                                                       *)

Queued(q, e) == q \in DOMAIN buffers /\ \E i \in DOMAIN buffers[q] : buffers[q][i] = e
Held(e) == (\E s \in Streams : e \in seen[s]) \/ (\E q \in DOMAIN buffers : Queued(q, e))

\* Event number i of an emission, counted from what job j has emitted before.
IsNews(e, j, kinds, i) == e.job = j /\ e.n = emitted[j] + i /\ e.kind = kinds[i]

LEMMA HeldType ==
  ASSUME TypeOK, NEW e
  PROVE  /\ \A q : Queued(q, e) => e \in Event
         /\ Held(e) => e \in Event
<1>1. \A q : Queued(q, e) => e \in Event
  BY DEF TypeOK, Queued
<1>2. \A s \in Streams : e \in seen[s] => e \in Event
  BY DEF TypeOK
<1> QED
  BY <1>1, <1>2 DEF Held

LEMMA EmitNews ==
  ASSUME TypeOK, NEW j \in Jobs, NEW kinds \in Seq(Kinds), Emit(j, kinds),
         NEW i \in 1 .. Len(kinds)
  PROVE  /\ Len(Old(j)) + i \in DOMAIN buffers'[Queue(j)]
         /\ IsNews(buffers'[Queue(j)][Len(Old(j)) + i], j, kinds, i)
<1> DEFINE news == [k \in 1 .. Len(kinds) |->
                      [job |-> j, n |-> emitted[j] + k, kind |-> kinds[k]]]
<1>1. news \in Seq(Event) /\ Len(news) = Len(kinds)
  <2>1. emitted[j] \in Nat /\ Len(kinds) \in Nat
    BY DEF TypeOK
  <2>2. ASSUME NEW k \in 1 .. Len(kinds)
        PROVE  [job |-> j, n |-> emitted[j] + k, kind |-> kinds[k]] \in Event
    BY <2>1, <2>2 DEF Event
  <2> QED
    BY <2>1, <2>2
<1>2. buffers' = [Ensured(j) EXCEPT ![Queue(j)] = Ensured(j)[Queue(j)] \o news]
  BY DEF Emit
<1>3. buffers'[Queue(j)] = Old(j) \o news
  <2>1. Queue(j) \in DOMAIN Ensured(j)
    BY EnsuredType
  <2> QED
    BY <1>2, <2>1, EnsuredType
<1>4. IsNews(news[i], j, kinds, i)
  BY DEF IsNews
<1> HIDE DEF news
<1>5. Old(j) \in Seq(Event) /\ Len(kinds) \in Nat
  BY EnsuredType
<1>6. Len(Old(j)) + i \in DOMAIN (Old(j) \o news) /\ (Old(j) \o news)[Len(Old(j)) + i] = news[i]
  BY <1>1, <1>5
<1> QED
  BY <1>3, <1>4, <1>6

\* An emission leaves every event where it is and adds the news to one queue.
LEMMA HeldEmit ==
  ASSUME TypeOK, Numbered, NEW j \in Jobs, NEW kinds \in Seq(Kinds), Emit(j, kinds), UNCHANGED seen
  PROVE  /\ \A q, e : Queued(q, e) => Queued(q, e)'
         /\ \A q, e : Queued(q, e)' => \/ Queued(q, e)
                                       \/ q = Queue(j) /\ \E i \in 1 .. Len(kinds) : IsNews(e, j, kinds, i)
         /\ \A i \in 1 .. Len(kinds) : \E q, e : Queued(q, e)' /\ IsNews(e, j, kinds, i)
<1>1. /\ buffers \in Seq(Seq(Event)) /\ DOMAIN buffers = 1 .. Len(buffers) /\ Len(buffers) \in Nat
      /\ Len(kinds) \in Nat /\ Len(Old(j)) \in Nat /\ Old(j) \in Seq(Event)
  <2>1. buffers \in Seq(Seq(Event))
    BY DEF TypeOK
  <2>2. Old(j) \in Seq(Event)
    BY EnsuredType
  <2> QED
    BY <2>1, <2>2
<1>2. /\ buffers' \in Seq(Seq(Event)) /\ DOMAIN buffers' = 1 .. Len(buffers')
      /\ Len(buffers) <= Len(buffers') /\ Len(buffers') \in Nat /\ Queue(j) \in DOMAIN buffers'
  BY EmitEffect, EnsuredType
<1>3. ASSUME NEW q, NEW e, Queued(q, e)
      PROVE  Queued(q, e)'
  <2>1. PICK i \in DOMAIN buffers[q] : q \in DOMAIN buffers /\ buffers[q][i] = e
    BY <1>3 DEF Queued
  <2>2. q \in DOMAIN buffers'
    BY <1>1, <1>2, <2>1
  <2>3. CASE q # Queue(j)
    <3>1. buffers'[q] = buffers[q]
      BY <1>2, <2>2, <2>3, EmitEffect
    <3> QED
      BY <2>1, <2>2, <3>1 DEF Queued
  <2>4. CASE q = Queue(j)
    <3>1. queueOf[j] # 0
      BY <1>1, <2>1, <2>4 DEF Queue
    <3>2. Old(j) = buffers[q]
      BY <2>4, <3>1 DEF Old, Queue
    <3>3. i \in 1 .. Len(Old(j))
      BY <1>1, <2>1, <3>2
    <3>a. buffers'[Queue(j)][i] = Old(j)[i] /\ Len(buffers'[Queue(j)]) = Len(Old(j)) + Len(kinds)
      BY <3>3, EmitEffect
    <3>4. buffers'[q][i] = e /\ Len(buffers'[q]) = Len(Old(j)) + Len(kinds)
      BY <2>1, <2>4, <3>2, <3>a
    <3>5. i \in DOMAIN buffers'[q]
      BY <1>1, <1>2, <2>2, <3>3, <3>4
    <3> QED
      BY <2>2, <3>4, <3>5 DEF Queued
  <2> QED
    BY <2>3, <2>4
<1>4. ASSUME NEW q, NEW e, Queued(q, e)'
      PROVE  \/ Queued(q, e)
             \/ q = Queue(j) /\ \E i \in 1 .. Len(kinds) : IsNews(e, j, kinds, i)
  <2>1. q \in DOMAIN buffers' /\ \E i \in DOMAIN buffers'[q] : buffers'[q][i] = e
    BY <1>4 DEF Queued
  <2>2. PICK i \in DOMAIN buffers'[q] : buffers'[q][i] = e
    BY <2>1
  <2>3. CASE q \in DOMAIN buffers /\ i \in DOMAIN buffers[q] /\ buffers'[q][i] = buffers[q][i]
    BY <2>2, <2>3 DEF Queued
  <2>4. CASE q = Queue(j) /\ i \in Len(Old(j)) + 1 .. Len(Old(j)) + Len(kinds)
    <3> DEFINE k == i - Len(Old(j))
    <3>1. k \in 1 .. Len(kinds) /\ Len(Old(j)) + k = i
      BY <1>1, <2>4
    <3> HIDE DEF k
    <3>2. IsNews(e, j, kinds, k)
      BY <2>2, <2>4, <3>1, EmitNews
    <3> QED
      BY <2>4, <3>1, <3>2
  <2> QED
    BY <2>1, <2>2, <2>3, <2>4, EmitEvents
<1>5. ASSUME NEW i \in 1 .. Len(kinds)
      PROVE  \E q, e : Queued(q, e)' /\ IsNews(e, j, kinds, i)
  <2>1. PICK q : q = Queue(j)
    OBVIOUS
  <2>2. PICK e : e = buffers'[q][Len(Old(j)) + i]
    OBVIOUS
  <2>3. Queued(q, e)'
    BY <1>2, <2>1, <2>2, EmitNews DEF Queued
  <2>4. IsNews(e, j, kinds, i)
    BY <2>1, <2>2, EmitNews
  <2> QED
    BY <2>3, <2>4
<1> QED
  BY <1>3, <1>4, <1>5

\* A yield moves one event from a queue to a stream.
LEMMA HeldYield ==
  ASSUME TypeOK, DeliveryInv, NEW s \in Streams, Yield(s)
  PROVE  /\ \A q, e : Queued(q, e)' => Queued(q, e)
         /\ \A e : Held(e) <=> Held(e)'
<1>1. PICK q : q = streams[s].queue
  OBVIOUS
<1>2. PICK x : x = Head(buffers[q])
  OBVIOUS
<1>3. /\ q \in DOMAIN buffers /\ Len(buffers') = Len(buffers) /\ buffers' \in Seq(Seq(Event))
      /\ x = buffers[q][1] /\ 1 \in DOMAIN buffers[q]
      /\ seen' = [seen EXCEPT ![s] = seen[s] \cup {x}]
      /\ \A i \in DOMAIN buffers'[q] :
           /\ i + 1 \in DOMAIN buffers[q]
           /\ buffers'[q][i] = buffers[q][i + 1]
      /\ \A p \in DOMAIN buffers : p # q => buffers'[p] = buffers[p]
  BY <1>1, <1>2, YieldEvents
<1>4. DOMAIN buffers' = DOMAIN buffers /\ seen \in [Streams -> SUBSET Event]
  BY <1>3 DEF TypeOK
<1>5. \A p, e : Queued(p, e)' => Queued(p, e)
  <2> SUFFICES ASSUME NEW p, NEW e, Queued(p, e)' PROVE Queued(p, e)
    OBVIOUS
  <2>1. p \in DOMAIN buffers /\ \E i \in DOMAIN buffers'[p] : buffers'[p][i] = e
    BY <1>4 DEF Queued
  <2> QED
    BY <1>3, <2>1 DEF Queued
<1>6. \A i \in DOMAIN buffers[q] : i = 1 \/ (i - 1 \in DOMAIN buffers'[q] /\ buffers'[q][i - 1] = buffers[q][i])
  <2>1. buffers[q] \in Seq(Event) /\ buffers \in Seq(Seq(Event))
    BY <1>3 DEF TypeOK
  <2>2. buffers'[q] = Tail(buffers[q]) /\ buffers[q] # <<>>
    BY <1>1, <1>3, <2>1 DEF Yield
  <2> QED
    BY <2>1, <2>2
<1>7. ASSUME NEW p, NEW e, Queued(p, e)
      PROVE  e = x \/ Queued(p, e)'
  <2>1. PICK i \in DOMAIN buffers[p] : p \in DOMAIN buffers /\ buffers[p][i] = e
    BY <1>7 DEF Queued
  <2>2. CASE p # q
    BY <1>3, <1>4, <2>1, <2>2 DEF Queued
  <2>3. CASE p = q
    BY <1>3, <1>4, <1>6, <2>1, <2>3 DEF Queued
  <2> QED
    BY <2>2, <2>3
<1>8. /\ Queued(q, x)
      /\ \A t \in Streams : \A e : e \in seen'[t] => (e \in seen[t] \/ e = x)
  BY <1>3, <1>4 DEF Queued
<1>9. x \in seen'[s] /\ \A t \in Streams : seen[t] \subseteq seen'[t]
  BY <1>3, <1>4
<1>10. \A e : Held(e) => Held(e)'
  BY <1>4, <1>7, <1>9 DEF Held
<1>11. \A e : Held(e)' => Held(e)
  BY <1>3, <1>4, <1>5, <1>8 DEF Held
<1> QED
  BY <1>5, <1>10, <1>11

\* Steps that touch neither the queues nor what was yielded.
LEMMA HeldSame ==
  ASSUME UNCHANGED <<buffers, seen>>
  PROVE  /\ \A q, e : Queued(q, e)' <=> Queued(q, e)
         /\ \A e : Held(e)' <=> Held(e)
<1>1. \A q, e : Queued(q, e)' <=> Queued(q, e)
  BY DEF Queued
<1>2. \A e : Held(e)' <=> Held(e)
  BY <1>1 DEF Held
<1> QED
  BY <1>1, <1>2

\* A subscription may make a queue, an empty one.
LEMMA HeldSubscribe ==
  ASSUME TypeOK, NEW s \in Streams, Subscribe(s)
  PROVE  /\ \A q, e : Queued(q, e)' <=> Queued(q, e)
         /\ \A e : Held(e)' <=> Held(e)
<1>1. PICK j \in Jobs : j = streams[s].job
  BY DEF TypeOK
<1>2. /\ buffers' = IF queueOf[j] = 0 THEN Append(buffers, <<>>) ELSE buffers
      /\ seen' = seen /\ buffers \in Seq(Seq(Event))
  BY <1>1 DEF Subscribe, Ensured, TypeOK
<1>3. CASE queueOf[j] # 0
  BY <1>2, <1>3, HeldSame
<1>4. CASE queueOf[j] = 0
  <2>1. /\ buffers' = Append(buffers, <<>>) /\ DOMAIN buffers = 1 .. Len(buffers)
        /\ Len(buffers) \in Nat
    BY <1>2, <1>4
  <2>2. /\ DOMAIN buffers' = 1 .. Len(buffers) + 1
        /\ \A q \in 1 .. Len(buffers) : buffers'[q] = buffers[q]
        /\ DOMAIN buffers'[Len(buffers) + 1] = {}
    BY <1>2, <2>1
  <2>3. \A q, e : Queued(q, e)' <=> Queued(q, e)
    <3> SUFFICES ASSUME NEW q, NEW e PROVE Queued(q, e)' <=> Queued(q, e)
      OBVIOUS
    <3>1. CASE q \in 1 .. Len(buffers)
      <4>1. q \in DOMAIN buffers /\ q \in DOMAIN buffers' /\ buffers'[q] = buffers[q]
        BY <2>1, <2>2, <3>1
      <4> QED
        BY <4>1 DEF Queued
    <3>2. CASE q \notin 1 .. Len(buffers)
      <4>1. q \notin DOMAIN buffers /\ (q \in DOMAIN buffers' => DOMAIN buffers'[q] = {})
        BY <2>1, <2>2, <3>2
      <4> QED
        BY <4>1 DEF Queued
    <3> QED
      BY <3>1, <3>2
  <2>4. \A q, e : Queued(q, e) => q \in DOMAIN buffers
    BY DEF Queued
  <2>5. \A q, e : Queued(q, e)' => q \in DOMAIN buffers'
    BY DEF Queued
  <2> QED
    BY <1>2, <2>3, <2>4, <2>5 DEF Held
<1> QED
  BY <1>3, <1>4

-----------------------------------------------------------------------------
(* No event vanishes: every number a job has given out is on an event that *)
(* is held somewhere.                                                      *)

NumbersHeld ==
  \A j \in Jobs : \A n \in 1 .. emitted[j] : \E e : Held(e) /\ e.job = j /\ e.n = n

LEMMA NumbersKept ==
  ASSUME NumbersHeld, emitted' = emitted, \A e : Held(e) => Held(e)'
  PROVE  NumbersHeld'
  BY DEF NumbersHeld

LEMMA NumbersEmit ==
  ASSUME TypeOK, DeliveryInv, NumbersHeld, NEW j \in Jobs, NEW kinds \in Seq(Kinds),
         Emit(j, kinds), UNCHANGED seen
  PROVE  NumbersHeld'
<1>1. /\ \A q, e : Queued(q, e) => Queued(q, e)'
      /\ \A i \in 1 .. Len(kinds) : \E q, e : Queued(q, e)' /\ IsNews(e, j, kinds, i)
  BY HeldEmit DEF DeliveryInv
<1>2. /\ emitted' = [emitted EXCEPT ![j] = emitted[j] + Len(kinds)]
      /\ emitted \in [Jobs -> Nat] /\ Len(kinds) \in Nat
  BY EmitEffect DEF TypeOK
<1>3. \A q, e : Queued(q, e)' => Held(e)'
  BY DEF Held, Queued
<1>4. \A e : Held(e) => Held(e)'
  BY <1>1, <1>3 DEF Held
<1>5. ASSUME NEW k \in Jobs, NEW n \in 1 .. emitted'[k]
      PROVE  \E e : Held(e)' /\ e.job = k /\ e.n = n
  <2>1. CASE n \in 1 .. emitted[k]
    BY <1>4, <2>1 DEF NumbersHeld
  <2>2. CASE n \notin 1 .. emitted[k]
    <3>1. k = j /\ n - emitted[j] \in 1 .. Len(kinds) /\ emitted[j] + (n - emitted[j]) = n
      BY <1>2, <1>5, <2>2
    <3>2. PICK i \in 1 .. Len(kinds) : emitted[j] + i = n
      BY <3>1
    <3>3. PICK q, e : Queued(q, e)' /\ IsNews(e, j, kinds, i)
      BY <1>1
    <3> QED
      BY <1>3, <3>1, <3>2, <3>3 DEF IsNews
  <2> QED
    BY <2>1, <2>2
<1> QED
  BY <1>5 DEF NumbersHeld

LEMMA NumbersStream ==
  ASSUME TypeOK, DeliveryInv, NumbersHeld, NEW s \in Streams, StreamStep(s)
  PROVE  NumbersHeld'
<1>1. CASE Subscribe(s)
  BY <1>1, HeldSubscribe, NumbersKept DEF Subscribe
<1>2. CASE Yield(s)
  BY <1>2, HeldYield, NumbersKept DEF Yield
<1>3. CASE PollTimeout(s) \/ Disconnect(s) \/ Cleanup(s)
  <2>1. UNCHANGED <<buffers, seen, emitted>>
    BY <1>3 DEF PollTimeout, Disconnect, Cleanup, DeleteJob
  <2> QED
    BY <2>1, HeldSame, NumbersKept
<1> QED
  BY <1>1, <1>2, <1>3 DEF StreamStep

LEMMA NumbersNext ==
  ASSUME TypeOK, DeliveryInv, NumbersHeld, [Next]_vars
  PROVE  NumbersHeld'
<1>1. ASSUME NEW j \in Jobs, AnyEmit(j)
      PROVE  NumbersHeld'
  <2>1. PICK k \in Kinds : Emit(j, <<k>>)
    BY <1>1 DEF AnyEmit
  <2>2. <<k>> \in Seq(Kinds) /\ UNCHANGED seen
    BY <1>1 DEF AnyEmit, streamVars
  <2> QED
    BY <2>1, <2>2, NumbersEmit
<1>2. ASSUME (\E j \in Jobs : AnySetJob(j)) \/ Tick \/ UNCHANGED vars
      PROVE  NumbersHeld'
  <2>1. UNCHANGED <<buffers, seen, emitted>>
    BY <1>2 DEF AnySetJob, Tick, vars, queueVars, streamVars
  <2> QED
    BY <2>1, HeldSame, NumbersKept
<1> QED
  BY <1>1, <1>2, NumbersStream DEF Next

LEMMA NumbersInit == Init => NumbersHeld
  BY DEF Init, NumbersHeld

\* What the run states with sets: no number is missing and none is made up.
LEMMA HeldIsNothingVanishes ==
  ASSUME TypeOK, DeliveryInv, NumbersHeld
  PROVE  NothingVanishes
<1> SUFFICES ASSUME NEW j \in Jobs
             PROVE  {e.n : e \in Yielded(j) \cup Waiting(j)} = 1 .. emitted[j]
  BY DEF NothingVanishes
<1>1. \A e : e \in Yielded(j) <=> e.job = j /\ \E s \in Streams : e \in seen[s]
  BY DEF Yielded
<1>2. \A e : e \in Waiting(j) <=> e.job = j /\ \E q \in DOMAIN buffers : Queued(q, e)
  BY DEF Waiting, Queued
<1>3. \A e : e \in Yielded(j) \cup Waiting(j) <=> (Held(e) /\ e.job = j)
  BY <1>1, <1>2 DEF Held
<1>4. ASSUME NEW e, Held(e), e.job = j
      PROVE  e.n \in 1 .. emitted[j]
  <2>1. e.n \in Nat \ {0} /\ emitted[j] \in Nat
    BY <1>4, HeldType DEF Event, TypeOK
  <2>2. e.n <= emitted[j]
    BY <1>4 DEF Held, Queued, DeliveryInv, Numbered, YieldedOnce
  <2> QED
    BY <2>1, <2>2
<1>5. \A n \in 1 .. emitted[j] : \E e : Held(e) /\ e.job = j /\ e.n = n
  BY DEF NumbersHeld
<1> QED
  BY <1>3, <1>4, <1>5

(* However emissions, timeouts of q.get(), several generators on one queue  *)
(* and deletions interleave, an event that was emitted has been yielded or  *)
(* is still in a queue that was made for its job (job_store.py:80-152).     *)
THEOREM NoEventIsLost == Spec => []NothingVanishes
<1>1. Init => TypeOK /\ DeliveryInv /\ NumbersHeld
  BY InitInvariants, NumbersInit
<1>2. TypeOK /\ DeliveryInv /\ NumbersHeld /\ [Next]_vars
        => TypeOK' /\ DeliveryInv' /\ NumbersHeld'
  BY NextPreserves, NumbersNext
<1>3. TypeOK /\ DeliveryInv /\ NumbersHeld => NothingVanishes
  BY HeldIsNothingVanishes
<1> QED
  BY <1>1, <1>2, <1>3, PTL DEF Spec

-----------------------------------------------------------------------------
(* No queue serves two jobs: neither through _job_events nor through the   *)
(* reference a generator has kept.                                         *)

OwnEvents == \A s \in Streams : \A e \in seen[s] : e.job = streams[s].job

OneJobPerQueue ==
  \A j, k \in Jobs : queueOf[j] # 0 /\ queueOf[j] = queueOf[k] => j = k
OwnQueue ==
  \A s \in Streams : \A j \in Jobs :
    streams[s].pc \in Looping /\ queueOf[j] = streams[s].queue => j = streams[s].job
RightQueue ==
  \A q, e : Queued(q, e) =>
    /\ \A j \in Jobs : queueOf[j] = q => e.job = j
    /\ \A s \in Streams : streams[s].pc \in Looping /\ streams[s].queue = q => e.job = streams[s].job
Private == OneJobPerQueue /\ OwnQueue /\ RightQueue /\ OwnEvents

LEMMA QueueFacts ==
  ASSUME TypeOK, DeliveryInv
  PROVE  /\ DOMAIN buffers = 1 .. Len(buffers) /\ Len(buffers) \in Nat
         /\ \A q, e : Queued(q, e) => q \in 1 .. Len(buffers)
         /\ \A j \in Jobs : queueOf[j] \in 0 .. Len(buffers)
         /\ \A s \in Streams : streams[s].job \in Jobs
         /\ \A s \in Streams : streams[s].pc \in Looping => streams[s].queue \in 1 .. Len(buffers)
<1>1. DOMAIN buffers = 1 .. Len(buffers) /\ Len(buffers) \in Nat
  BY DEF TypeOK
<1> QED
  BY <1>1 DEF TypeOK, Queued, DeliveryInv, InTime

\* A lookup of the queue of job j, with or without news put into it.
LEMMA PrivateLookup ==
  ASSUME TypeOK, DeliveryInv, Private, NEW j \in Jobs,
         queueOf' = [queueOf EXCEPT ![j] = Queue(j)],
         \A q, e : Queued(q, e)' => (Queued(q, e) \/ (q = Queue(j) /\ e.job = j)),
         UNCHANGED seen,
         \A s \in Streams : streams'[s].job = streams[s].job,
         \A s \in Streams : streams'[s].pc \in Looping =>
           \/ streams[s].pc \in Looping /\ streams'[s].queue = streams[s].queue
           \/ streams[s].job = j /\ streams'[s].queue = Queue(j)
  PROVE  Private'
<1>1. /\ \A k \in Jobs : queueOf'[k] = IF k = j THEN Queue(j) ELSE queueOf[k]
      /\ queueOf[j] # 0 => Queue(j) = queueOf[j]
      /\ queueOf[j] = 0 => Queue(j) = Len(buffers) + 1
  BY DEF TypeOK, Queue
\* Nobody else has the queue that j looks up.
<1>2. /\ \A k \in Jobs : queueOf[k] = Queue(j) => k = j
      /\ \A s \in Streams : streams[s].pc \in Looping /\ streams[s].queue = Queue(j) => streams[s].job = j
      /\ \A e : Queued(Queue(j), e) => e.job = j
      /\ Queue(j) # 0
  <2>1. CASE queueOf[j] = 0
    BY <1>1, <2>1, QueueFacts
  <2>2. CASE queueOf[j] # 0
    BY <1>1, <2>2, QueueFacts DEF Private, OneJobPerQueue, OwnQueue, RightQueue
  <2> QED
    BY <2>1, <2>2
<1>3. OneJobPerQueue'
  BY <1>1, <1>2 DEF Private, OneJobPerQueue
<1>4. OwnQueue'
  BY <1>1, <1>2 DEF Private, OwnQueue
<1>5. RightQueue'
  BY <1>1, <1>2 DEF Private, RightQueue
<1>6. OwnEvents'
  BY DEF Private, OwnEvents
<1> QED
  BY <1>3, <1>4, <1>5, <1>6 DEF Private

\* Steps that give nobody a queue: yields, ends of streams and deletions.
LEMMA PrivateLocal ==
  ASSUME TypeOK, DeliveryInv, Private,
         \A j \in Jobs : queueOf'[j] \in {queueOf[j], 0},
         \A q, e : Queued(q, e)' => Queued(q, e),
         \A s \in Streams : streams'[s].job = streams[s].job,
         \A s \in Streams : streams'[s].pc \in Looping =>
           streams[s].pc \in Looping /\ streams'[s].queue = streams[s].queue,
         \A s \in Streams : \A e \in seen'[s] :
           \/ e \in seen[s]
           \/ streams[s].pc \in Looping /\ Queued(streams[s].queue, e)
  PROVE  Private'
<1>1. OneJobPerQueue'
  BY DEF Private, OneJobPerQueue
<1>2. OwnQueue'
  BY QueueFacts DEF Private, OwnQueue
<1>3. RightQueue'
  BY QueueFacts DEF Private, RightQueue
<1>4. OwnEvents'
  BY DEF Private, RightQueue, OwnEvents
<1> QED
  BY <1>1, <1>2, <1>3, <1>4 DEF Private

LEMMA PrivateEmit ==
  ASSUME TypeOK, DeliveryInv, Private, NEW j \in Jobs, NEW kinds \in Seq(Kinds),
         Emit(j, kinds), UNCHANGED streamVars
  PROVE  Private'
<1>1. /\ queueOf' = [queueOf EXCEPT ![j] = Queue(j)]
      /\ UNCHANGED <<streams, seen>>
  BY DEF Emit, streamVars
<1>2. \A q, e : Queued(q, e)' => (Queued(q, e) \/ (q = Queue(j) /\ e.job = j))
  BY <1>1, HeldEmit DEF DeliveryInv, IsNews
<1> QED
  BY <1>1, <1>2, PrivateLookup

LEMMA PrivateStream ==
  ASSUME TypeOK, DeliveryInv, Private, NEW s \in Streams, StreamStep(s)
  PROVE  Private'
<1>1. streams \in [Streams -> StreamType]
  BY DEF TypeOK, StreamType
<1>2. CASE Subscribe(s)
  <2>1. PICK j \in Jobs : j = streams[s].job
    BY QueueFacts
  <2>2. /\ queueOf' = [queueOf EXCEPT ![j] = Queue(j)]
        /\ streams' = [streams EXCEPT ![s].pc = "waiting", ![s].queue = Queue(j)]
        /\ UNCHANGED seen
    BY <1>2, <2>1 DEF Subscribe
  <2>3. \A t \in Streams : streams'[t].job = streams[t].job
    BY <1>1, <2>2 DEF StreamType
  <2>4. \A t \in Streams : streams'[t].pc \in Looping =>
          \/ streams[t].pc \in Looping /\ streams'[t].queue = streams[t].queue
          \/ streams[t].job = j /\ streams'[t].queue = Queue(j)
    BY <1>1, <2>1, <2>2 DEF StreamType
  <2>5. \A q, e : Queued(q, e)' => Queued(q, e)
    BY <1>2, HeldSubscribe
  <2> QED
    BY <2>2, <2>3, <2>4, <2>5, PrivateLookup
<1>3. CASE Yield(s)
  <2>1. /\ \A t \in Streams : streams'[t].job = streams[t].job
        /\ \A t \in Streams : streams'[t].pc \in Looping =>
             streams[t].pc \in Looping /\ streams'[t].queue = streams[t].queue
    <3>1. streams' = [streams EXCEPT ![s].pc = "ended"] \/ streams' = streams
      BY <1>3 DEF Yield, End
    <3> QED
      BY <1>1, <3>1 DEF StreamType
  <2>2. PICK x : x = Head(buffers[streams[s].queue])
    OBVIOUS
  <2>3. /\ seen' = [seen EXCEPT ![s] = seen[s] \cup {x}]
        /\ streams[s].queue \in DOMAIN buffers /\ 1 \in DOMAIN buffers[streams[s].queue]
        /\ x = buffers[streams[s].queue][1]
    BY <1>3, <2>2, YieldEvents
  <2>4. Queued(streams[s].queue, x) /\ streams[s].pc \in Looping
    BY <1>3, <2>3 DEF Queued, Yield
  <2>5. \A t \in Streams : \A e \in seen'[t] :
          \/ e \in seen[t]
          \/ streams[t].pc \in Looping /\ Queued(streams[t].queue, e)
    BY <2>3, <2>4 DEF TypeOK
  <2>6. queueOf' = queueOf /\ \A q, e : Queued(q, e)' => Queued(q, e)
    BY <1>3, HeldYield DEF Yield
  <2> QED
    BY <2>1, <2>5, <2>6, PrivateLocal
<1>4. CASE PollTimeout(s) \/ Disconnect(s) \/ Cleanup(s)
  <2>1. UNCHANGED <<buffers, seen>>
    BY <1>4 DEF PollTimeout, Disconnect, Cleanup, DeleteJob
  <2>2. \A j \in Jobs : queueOf'[j] \in {queueOf[j], 0}
    BY <1>4 DEF PollTimeout, Disconnect, Cleanup, DeleteJob, TypeOK
  <2>3. /\ \A t \in Streams : streams'[t].job = streams[t].job
        /\ \A t \in Streams : streams'[t].pc \in Looping =>
             streams[t].pc \in Looping /\ streams'[t].queue = streams[t].queue
    <3>1. \/ streams' = [streams EXCEPT ![s].pc = "ended"]
          \/ streams[s].pc = "expired" /\ streams' = [streams EXCEPT ![s].pc = "waiting"]
          \/ streams' = [streams EXCEPT ![s].pc = "gone"]
      BY <1>4 DEF PollTimeout, Disconnect, Cleanup, End
    <3>2. CASE streams' = [streams EXCEPT ![s].pc = "ended"]
      BY <1>1, <3>2 DEF StreamType
    <3>3. CASE streams[s].pc = "expired" /\ streams' = [streams EXCEPT ![s].pc = "waiting"]
      BY <1>1, <3>3 DEF StreamType
    <3>4. CASE streams' = [streams EXCEPT ![s].pc = "gone"]
      BY <1>1, <3>4 DEF StreamType
    <3> QED
      BY <3>1, <3>2, <3>3, <3>4
  <2> QED
    BY <2>1, <2>2, <2>3, HeldSame, PrivateLocal
<1> QED
  BY <1>2, <1>3, <1>4 DEF StreamStep

\* What a poll interval changes of a stream.
LEMMA TickStreams ==
  ASSUME TypeOK, Tick, NEW s \in Streams
  PROVE  /\ \/ streams'[s].pc = streams[s].pc
            \/ streams[s].pc = "waiting" /\ streams'[s].pc = "expired"
         /\ streams'[s].job = streams[s].job
         /\ streams'[s].queue = streams[s].queue
         /\ streams[s].pc # "ended" => streams'[s].grace = streams[s].grace
<1>1. streams[s] \in StreamType
  BY DEF TypeOK, StreamType
<1>2. \/ streams[s].pc = "waiting" /\ streams'[s] = [streams[s] EXCEPT !.pc = "expired"]
      \/ streams[s].pc = "ended" /\ streams'[s] = [streams[s] EXCEPT !.grace = streams[s].grace - 1]
      \/ streams'[s] = streams[s]
  BY DEF Tick
<1> QED
  BY <1>1, <1>2 DEF StreamType

LEMMA PrivateTick ==
  ASSUME TypeOK, DeliveryInv, Private, Tick
  PROVE  Private'
<1>1. UNCHANGED <<queueOf, buffers, seen>>
  BY DEF Tick
<1> QED
  BY <1>1, TickStreams, HeldSame, PrivateLocal

LEMMA PrivateSame ==
  ASSUME TypeOK, DeliveryInv, Private, UNCHANGED <<queueVars, streamVars>>
  PROVE  Private'
<1>1. UNCHANGED <<queueOf, buffers, seen, streams>>
  BY DEF queueVars, streamVars
<1> QED
  BY <1>1, HeldSame, PrivateLocal

LEMMA PrivateNext ==
  ASSUME TypeOK, DeliveryInv, Private, [Next]_vars
  PROVE  Private'
<1>1. ASSUME NEW j \in Jobs, AnyEmit(j)
      PROVE  Private'
  <2>1. PICK k \in Kinds : Emit(j, <<k>>)
    BY <1>1 DEF AnyEmit
  <2>2. <<k>> \in Seq(Kinds) /\ UNCHANGED streamVars
    BY <1>1 DEF AnyEmit
  <2> QED
    BY <2>1, <2>2, PrivateEmit
<1>2. ASSUME (\E j \in Jobs : AnySetJob(j)) \/ UNCHANGED vars
      PROVE  Private'
  <2>1. UNCHANGED <<queueVars, streamVars>>
    BY <1>2 DEF AnySetJob, vars, queueVars, streamVars
  <2> QED
    BY <2>1, PrivateSame
<1> QED
  BY <1>1, <1>2, PrivateStream, PrivateTick DEF Next

LEMMA PrivateInit == Init => Private
<1> SUFFICES ASSUME Init PROVE Private
  OBVIOUS
<1>1. \A q, e : ~Queued(q, e)
  BY DEF Init, Queued
<1>2. \A j \in Jobs : queueOf[j] = 0
  BY DEF Init
<1>3. \A s \in Streams : seen[s] = {} /\ streams[s].pc = "idle"
  BY DEF Init
<1> QED
  BY <1>1, <1>2, <1>3 DEF Private, OneJobPerQueue, OwnQueue, RightQueue, OwnEvents

(* A generator yields events of its own job only, however often queues are  *)
(* replaced behind its back (job_store.py:87-152, subscribe and             *)
(* _ensure_queue).                                                          *)
THEOREM StreamsArePrivate == Spec => []OwnEvents
<1>1. Init => TypeOK /\ DeliveryInv /\ Private
  BY InitInvariants, PrivateInit
<1>2. TypeOK /\ DeliveryInv /\ Private /\ [Next]_vars
        => TypeOK' /\ DeliveryInv' /\ Private'
  BY NextPreserves, PrivateNext
<1>3. Private => OwnEvents
  BY DEF Private
<1> QED
  BY <1>1, <1>2, <1>3, PTL DEF Spec
=============================================================================
