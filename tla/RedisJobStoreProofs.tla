------------------------- MODULE RedisJobStoreProofs -------------------------
(***************************************************************************)
(* Proofs about the Redis job store, for any number of jobs, streams and   *)
(* events, and whether or not processes start in between: a stream whose   *)
(* listener is attached misses nothing, results are stored before they are *)
(* announced, and the store implements EventLog as a broadcast.            *)
(* What a stream has yielded, what its queue holds and what is still on    *)
(* its connection are three pieces of one line of copies of the events of  *)
(* its job, in the order of publication.                                   *)
(***************************************************************************)
EXTENDS RedisJobStore, Integers, TLAPS

Items(q)  == {q[i] : i \in DOMAIN q}
Copies(s) == yielded[s] \cup Items(queue[s]) \cup Items(conn[s])

(* A stream only ever gets copies of what its job has published.            *)
Genuine ==
  \A s \in Streams : \A e \in Copies(s) :
    /\ e.job = streams[s].job /\ e.n <= emitted[e.job]
    /\ e.kind = "verdict" => run[e.job] = "done"

(* The line is in order, through both hand-overs.                           *)
Rising(q)    == \A i, k \in DOMAIN q : i < k => q[i].n < q[k].n
Before(A, B) == \A d \in A : \A e \in B : d.n < e.n
InLine ==
  \A s \in Streams :
    /\ Rising(queue[s]) /\ Rising(conn[s])
    /\ Before(yielded[s], Items(queue[s])) /\ Before(yielded[s], Items(conn[s]))
    /\ Before(Items(queue[s]), Items(conn[s]))

(* A stream that is not attached yet has no copies; one that is not         *)
(* attached has nothing on its connection.                                  *)
Attachment ==
  \A s \in Streams :
    /\ streams[s].pc = "idle" => streams[s].listener = "off"
    /\ streams[s].listener \in {"starting", "on"} => streams[s].pc \in Looping
    /\ streams[s].pc = "idle" \/ streams[s].listener = "starting" => Copies(s) = {}
    /\ streams[s].listener # "on" => conn[s] = <<>>
    /\ since[s] <= emitted[streams[s].job]

(* A verdict stays stored until a starting process clears the key.          *)
Stored ==
  \A j \in JobIds : run[j] \in {"stored", "done"} /\ j \notin cleared => hashes[j] \in Finals

LineInv == RTypeOK /\ Genuine /\ InLine /\ Attachment /\ AttachedMissNothing /\ Stored

-----------------------------------------------------------------------------
(* Sequences as sets of items.                                             *)

LEMMA Popped ==
  ASSUME NEW q \in Seq(Event), q # <<>>
  PROVE  /\ Head(q) \in Event /\ Tail(q) \in Seq(Event)
         /\ Items(q) = {Head(q)} \cup Items(Tail(q))
         /\ Rising(q) => Rising(Tail(q)) /\ Before({Head(q)}, Items(Tail(q)))
<1>1. /\ Len(q) \in Nat \ {0} /\ DOMAIN q = 1 .. Len(q) /\ Head(q) = q[1] /\ q[1] \in Event
      /\ Tail(q) \in Seq(Event) /\ DOMAIN Tail(q) = 1 .. Len(q) - 1
      /\ \A i \in 1 .. Len(q) - 1 : Tail(q)[i] = q[i + 1]
  OBVIOUS
<1>2. Items(q) = {Head(q)} \cup Items(Tail(q))
  <2> DEFINE t == Tail(q)
             h == Head(q)
  <2>1. DOMAIN q = 1 .. Len(q) /\ DOMAIN t = 1 .. Len(q) - 1 /\ Len(q) \in Nat \ {0} /\ h = q[1]
    BY <1>1
  <2>2. \A i \in 1 .. Len(q) - 1 : t[i] = q[i + 1]
    BY <1>1
  <2> HIDE DEF t, h
  <2>3. ASSUME NEW i \in DOMAIN q
        PROVE  q[i] \in {h} \cup Items(t)
    <3>1. CASE i = 1
      BY <2>1, <3>1
    <3>2. CASE i # 1
      <4>1. i - 1 \in DOMAIN t /\ t[i - 1] = q[(i - 1) + 1] /\ (i - 1) + 1 = i
        BY <2>1, <2>2, <3>2
      <4> QED
        BY <4>1 DEF Items
    <3> QED
      BY <3>1, <3>2
  <2>4. ASSUME NEW i \in DOMAIN t
        PROVE  t[i] \in Items(q)
    BY <2>1, <2>2 DEF Items
  <2>5. h \in Items(q)
    BY <2>1 DEF Items
  <2>6. Items(q) = {h} \cup Items(t)
    BY <2>3, <2>4, <2>5 DEF Items
  <2> QED
    BY <2>6 DEF t, h
<1>3. Rising(q) => Rising(Tail(q)) /\ Before({Head(q)}, Items(Tail(q)))
  BY <1>1 DEF Rising, Before, Items
<1> QED
  BY <1>1, <1>2, <1>3

LEMMA Pushed ==
  ASSUME NEW q \in Seq(Event), NEW e \in Event
  PROVE  /\ Append(q, e) \in Seq(Event)
         /\ Items(Append(q, e)) = Items(q) \cup {e}
         /\ Rising(q) /\ Before(Items(q), {e}) => Rising(Append(q, e))
<1>1. /\ Len(q) \in Nat /\ DOMAIN q = 1 .. Len(q)
      /\ Append(q, e) \in Seq(Event) /\ DOMAIN Append(q, e) = 1 .. Len(q) + 1
      /\ \A i \in 1 .. Len(q) : Append(q, e)[i] = q[i]
      /\ Append(q, e)[Len(q) + 1] = e
  OBVIOUS
<1>2. DOMAIN Append(q, e) = DOMAIN q \cup {Len(q) + 1}
  BY <1>1
<1>3. Items(Append(q, e)) = Items(q) \cup {e}
  BY <1>1, <1>2 DEF Items
<1>4. ASSUME Rising(q), Before(Items(q), {e})
      PROVE  Rising(Append(q, e))
  <2> SUFFICES ASSUME NEW i \in 1 .. Len(q) + 1, NEW k \in 1 .. Len(q) + 1, i < k
               PROVE  Append(q, e)[i].n < Append(q, e)[k].n
    BY <1>1 DEF Rising
  <2>1. i \in 1 .. Len(q)
    BY <1>1
  <2>2. CASE k \in 1 .. Len(q)
    BY <1>1, <1>4, <2>1, <2>2 DEF Rising
  <2>3. CASE k = Len(q) + 1
    BY <1>1, <1>4, <2>1, <2>3 DEF Before, Items
  <2> QED
    BY <1>1, <2>2, <2>3
<1> QED
  BY <1>1, <1>3, <1>4

LEMMA Nothing ==
  /\ <<>> \in Seq(Event) /\ Items(<<>>) = {} /\ Rising(<<>>)
  /\ \A A : Before(A, {}) /\ Before({}, A)
  BY DEF Items, Rising, Before

LEMMA ItemsType ==
  ASSUME RTypeOK, NEW s \in Streams
  PROVE  /\ Items(queue[s]) \subseteq Event /\ Items(conn[s]) \subseteq Event
         /\ yielded[s] \subseteq Event /\ Copies(s) \subseteq Event
         /\ queue[s] \in Seq(Event) /\ conn[s] \in Seq(Event) /\ streams[s].job \in JobIds
<1>1. /\ queue[s] \in Seq(Event) /\ conn[s] \in Seq(Event) /\ yielded[s] \subseteq Event
      /\ streams[s].job \in JobIds
  BY DEF RTypeOK
<1>2. \A q \in Seq(Event) : Items(q) \subseteq Event
  BY DEF Items
<1> QED
  BY <1>1, <1>2 DEF Copies

(* Nothing is missing, in terms of copies.                                  *)
NoGaps ==
  \A s \in Streams : streams[s].listener = "on" =>
    {e.n : e \in Copies(s)} = since[s] + 1 .. emitted[streams[s].job]

LEMMA MissingNothing == AttachedMissNothing <=> NoGaps
<1>1. ASSUME NEW s \in Streams
      PROVE  {e.n : e \in yielded[s]} \cup Held(queue[s]) \cup Held(conn[s]) = {e.n : e \in Copies(s)}
  <2>1. \A q : Held(q) = {e.n : e \in Items(q)}
    BY DEF Held, Items
  <2>2. /\ Held(queue[s]) = {e.n : e \in Items(queue[s])}
        /\ Held(conn[s]) = {e.n : e \in Items(conn[s])}
    BY <2>1
  <2> QED
    BY <2>2 DEF Copies
<1> QED
  BY <1>1 DEF AttachedMissNothing, NoGaps

LEMMA MissingNothingNext == AttachedMissNothing' <=> NoGaps'
  BY MissingNothing, PTL

LEMMA OneMore ==
  ASSUME NEW a \in Nat, NEW b \in Nat, a <= b
  PROVE  a + 1 .. b + 1 = (a + 1 .. b) \cup {b + 1}
  OBVIOUS
-----------------------------------------------------------------------------
(* The line of copies of each stream.                                      *)

Lines == Genuine /\ InLine /\ Attachment /\ AttachedMissNothing

\* Steps of jobs that publish nothing, and clear().
LEMMA LinesUntouched ==
  ASSUME LineInv, UNCHANGED <<streams, conn, queue, emitted, yielded, since>>,
         \A j \in JobIds : run[j] = "done" => run'[j] = "done"
  PROVE  Lines'
<1>1. RTypeOK /\ Genuine /\ InLine /\ Attachment /\ AttachedMissNothing
  BY DEF LineInv
<1>2. \A s \in Streams : Copies(s)' = Copies(s) /\ Copies(s) \subseteq Event
  BY <1>1, ItemsType DEF Copies
<1>3. Genuine'
  BY <1>1, <1>2 DEF Genuine, Event
<1>4. InLine' /\ Attachment'
  BY <1>1, <1>2 DEF InLine, Attachment
<1>5. AttachedMissNothing'
  BY <1>1 DEF AttachedMissNothing
<1> QED
  BY <1>3, <1>4, <1>5 DEF Lines

\* A message is appended to the connections that are attached.
LEMMA Published ==
  ASSUME LineInv, NEW j \in JobIds, NEW kind \in Kinds, EmitEvent(j, kind),
         UNCHANGED <<streams, queue, yielded, since>>,
         \A i \in JobIds : run[i] = "done" => run'[i] = "done",
         kind = "verdict" => run'[j] = "done"
  PROVE  /\ conn' \in [Streams -> Seq(Event)] /\ emitted' \in [JobIds -> Nat]
         /\ Lines'
<1> DEFINE e == [job |-> j, n |-> emitted[j] + 1, kind |-> kind]
           Attached(s) == streams[s].job = j /\ streams[s].listener = "on"
<1>1. RTypeOK /\ Genuine /\ InLine /\ Attachment /\ AttachedMissNothing
  BY DEF LineInv
<1>2. /\ e \in Event /\ e.job = j /\ e.n = emitted[j] + 1 /\ e.kind = kind /\ emitted[j] \in Nat
      /\ emitted' = [emitted EXCEPT ![j] = emitted[j] + 1]
      /\ conn' = [s \in Streams |-> IF Attached(s) THEN Append(conn[s], e) ELSE conn[s]]
  BY <1>1 DEF RTypeOK, EmitEvent, Event
<1> HIDE DEF e
<1>3. \A i \in JobIds : emitted[i] \in Nat /\ emitted'[i] = IF i = j THEN emitted[i] + 1 ELSE emitted[i]
  BY <1>1, <1>2 DEF RTypeOK
<1>4. ASSUME NEW s \in Streams, Attached(s)
      PROVE  /\ conn'[s] = Append(conn[s], e) /\ conn'[s] \in Seq(Event)
             /\ Items(conn'[s]) = Items(conn[s]) \cup {e} /\ Copies(s)' = Copies(s) \cup {e}
             /\ \A d \in Copies(s) : d.n < e.n
             /\ Rising(conn'[s])
  <2>1. \A d \in Copies(s) : d \in Event /\ d.n <= emitted[j]
    BY <1>1, <1>4, ItemsType DEF Genuine
  <2>2. \A d \in Copies(s) : d.n < e.n
    BY <1>2, <2>1 DEF Event
  <2>3. conn'[s] = Append(conn[s], e) /\ conn[s] \in Seq(Event)
    BY <1>1, <1>2, <1>4, ItemsType
  <2>4. conn'[s] \in Seq(Event) /\ Items(conn'[s]) = Items(conn[s]) \cup {e}
    BY <1>2, <2>3, Pushed
  <2>5. Rising(conn'[s])
    BY <1>1, <1>2, <2>2, <2>3, Pushed DEF InLine, Before, Copies
  <2>6. Copies(s)' = Copies(s) \cup {e}
    BY <2>4 DEF Copies
  <2> QED
    BY <2>2, <2>3, <2>4, <2>5, <2>6
<1>5. ASSUME NEW s \in Streams, ~Attached(s)
      PROVE  conn'[s] = conn[s] /\ conn'[s] \in Seq(Event) /\ Copies(s)' = Copies(s)
  BY <1>1, <1>2, <1>5, ItemsType DEF Copies
<1>6. conn' \in [Streams -> Seq(Event)]
  BY <1>2, <1>4, <1>5
<1>7. emitted' \in [JobIds -> Nat]
  BY <1>1, <1>2 DEF RTypeOK
<1>8. Genuine'
  <2> SUFFICES ASSUME NEW s \in Streams, NEW d \in Copies(s)'
               PROVE  /\ d.job = streams[s].job /\ d.n <= emitted'[d.job]
                      /\ d.kind = "verdict" => run'[d.job] = "done"
    BY DEF Genuine
  <2>1. CASE d \in Copies(s)
    <3>1. /\ d \in Event /\ d.job = streams[s].job /\ d.job \in JobIds /\ d.n <= emitted[d.job]
          /\ d.kind = "verdict" => run[d.job] = "done"
      BY <1>1, <2>1, ItemsType DEF Genuine
    <3>2. d.n \in Nat
      BY <3>1 DEF Event
    <3> QED
      BY <1>3, <3>1, <3>2
  <2>2. CASE d = e /\ Attached(s)
    BY <1>2, <1>3, <2>2
  <2> QED
    BY <1>4, <1>5, <2>1, <2>2
<1>9. InLine'
  <2> SUFFICES ASSUME NEW s \in Streams
               PROVE  /\ Rising(queue[s]) /\ Rising(conn'[s])
                      /\ Before(yielded[s], Items(queue[s])) /\ Before(yielded[s], Items(conn'[s]))
                      /\ Before(Items(queue[s]), Items(conn'[s]))
    BY DEF InLine
  <2>1. CASE Attached(s)
    <3>1. /\ Rising(queue[s]) /\ Rising(conn'[s]) /\ Items(conn'[s]) = Items(conn[s]) \cup {e}
          /\ Before(yielded[s], Items(queue[s])) /\ Before(yielded[s], Items(conn[s]))
          /\ Before(Items(queue[s]), Items(conn[s]))
      BY <1>1, <1>4, <2>1 DEF InLine
    <3>2. Before(yielded[s], {e}) /\ Before(Items(queue[s]), {e})
      BY <1>4, <2>1 DEF Before, Copies
    <3> QED
      BY <3>1, <3>2 DEF Before
  <2>2. CASE ~Attached(s)
    BY <1>1, <1>5, <2>2 DEF InLine
  <2> QED
    BY <2>1, <2>2
<1>10. Attachment'
  <2> SUFFICES ASSUME NEW s \in Streams
               PROVE  /\ streams[s].pc = "idle" => streams[s].listener = "off"
                      /\ streams[s].listener \in {"starting", "on"} => streams[s].pc \in Looping
                      /\ streams[s].pc = "idle" \/ streams[s].listener = "starting" => Copies(s)' = {}
                      /\ streams[s].listener # "on" => conn'[s] = <<>>
                      /\ since[s] <= emitted'[streams[s].job]
    BY DEF Attachment
  <2>1. since[s] \in Nat /\ streams[s].job \in JobIds
    BY <1>1 DEF RTypeOK
  <2>2. since[s] <= emitted'[streams[s].job]
    BY <1>1, <1>3, <2>1 DEF Attachment
  <2>3. CASE Attached(s)
    BY <1>1, <2>2, <2>3 DEF Attachment
  <2>4. CASE ~Attached(s)
    BY <1>1, <1>5, <2>2, <2>4 DEF Attachment
  <2> QED
    BY <2>3, <2>4
<1>11. AttachedMissNothing'
  <2> SUFFICES ASSUME NEW s \in Streams, streams[s].listener = "on"
               PROVE  {d.n : d \in Copies(s)'} = since[s] + 1 .. emitted'[streams[s].job]
    BY MissingNothingNext DEF NoGaps
  <2>1. {d.n : d \in Copies(s)} = since[s] + 1 .. emitted[streams[s].job]
    BY <1>1, MissingNothing DEF NoGaps
  <2>2. since[s] \in Nat /\ streams[s].job \in JobIds /\ since[s] <= emitted[streams[s].job]
    BY <1>1 DEF RTypeOK, Attachment
  <2>3. CASE Attached(s)
    <3>1. {d.n : d \in Copies(s)'} = {d.n : d \in Copies(s)} \cup {e.n}
      BY <1>4, <2>3
    <3>2. since[s] + 1 .. emitted[j] + 1 = (since[s] + 1 .. emitted[j]) \cup {emitted[j] + 1}
      BY <1>2, <2>2, <2>3, OneMore
    <3> QED
      BY <1>2, <1>3, <2>1, <2>3, <3>1, <3>2
  <2>4. CASE ~Attached(s)
    BY <1>3, <1>5, <2>1, <2>2, <2>4
  <2> QED
    BY <2>3, <2>4
<1> QED
  BY <1>6, <1>7, <1>8, <1>9, <1>10, <1>11 DEF Lines

StreamType == [pc : {"idle", "gone"} \cup Looping, job : JobIds,
               listener : {"off", "starting", "on", "dead"}]

\* A stream starts, and its listener subscribes: there are no copies yet.
LEMMA SubscribeLines ==
  ASSUME LineInv, NEW s \in Streams, Subscribe(s) \/ ListenerSubscribes(s)
  PROVE  /\ streams' \in [Streams -> StreamType] /\ since' \in [Streams -> Nat]
         /\ Lines'
<1>1. /\ RTypeOK /\ Genuine /\ InLine /\ Attachment /\ NoGaps
      /\ UNCHANGED <<run, conn, queue, emitted, yielded>>
  BY MissingNothing DEF LineInv, Subscribe, ListenerSubscribes
<1>2. /\ streams' \in [Streams -> StreamType] /\ since' \in [Streams -> Nat]
      /\ \A t \in Streams : /\ streams'[t].job = streams[t].job /\ emitted[streams[t].job] \in Nat
                            /\ t # s => streams'[t] = streams[t] /\ since'[t] = since[t]
  <2>1. /\ streams \in [Streams -> StreamType] /\ since \in [Streams -> Nat]
        /\ emitted \in [JobIds -> Nat] /\ \A t \in Streams : streams[t].job \in JobIds
    BY <1>1 DEF RTypeOK, StreamType
  <2>2. CASE Subscribe(s)
    BY <2>1, <2>2 DEF Subscribe, StreamType, Looping
  <2>3. CASE ListenerSubscribes(s)
    BY <2>1, <2>3 DEF ListenerSubscribes, StreamType
  <2> QED
    BY <2>2, <2>3
<1>3. \A t \in Streams : Copies(t)' = Copies(t)
  BY <1>1 DEF Copies
<1>4. Copies(s) = {} /\ conn[s] = <<>>
  BY <1>1 DEF Attachment, Subscribe, ListenerSubscribes
<1>5. \/ streams'[s].pc \in Looping /\ streams'[s].listener = "starting" /\ since'[s] = since[s]
      \/ /\ streams'[s].pc \in Looping /\ streams'[s].listener = "on"
         /\ since'[s] = emitted[streams[s].job]
  <2>1. streams \in [Streams -> StreamType] /\ since \in [Streams -> Nat]
    BY <1>1 DEF RTypeOK, StreamType
  <2>2. CASE Subscribe(s)
    BY <2>1, <2>2 DEF Subscribe, StreamType, Looping
  <2>3. CASE ListenerSubscribes(s)
    <3>1. streams[s].pc \in Looping
      BY <1>1, <2>3 DEF ListenerSubscribes, Attachment
    <3> QED
      BY <2>1, <2>3, <3>1 DEF ListenerSubscribes, StreamType
  <2> QED
    BY <2>2, <2>3
<1>6. Genuine' /\ InLine'
  BY <1>1, <1>2, <1>3 DEF Genuine, InLine
<1>7. Attachment'
  BY <1>1, <1>2, <1>3, <1>4, <1>5 DEF Attachment, Looping
<1>8. NoGaps'
  <2> SUFFICES ASSUME NEW t \in Streams, streams'[t].listener = "on"
               PROVE  {e.n : e \in Copies(t)'} = since'[t] + 1 .. emitted'[streams'[t].job]
    BY DEF NoGaps
  <2>1. CASE t # s
    BY <1>1, <1>2, <1>3, <2>1 DEF NoGaps
  <2>2. CASE t = s
    <3>1. {e.n : e \in Copies(t)'} = {}
      BY <1>3, <1>4, <2>2
    <3>2. emitted[streams[s].job] + 1 .. emitted[streams[s].job] = {}
      BY <1>2
    <3> QED
      BY <1>1, <1>2, <1>5, <2>2, <3>1, <3>2
  <2> QED
    BY <2>1, <2>2
<1> QED
  BY <1>2, <1>6, <1>7, <1>8, MissingNothingNext DEF Lines

\* The listener hands the next message over.
LEMMA ReadLines ==
  ASSUME LineInv, NEW s \in Streams, ListenerReads(s)
  PROVE  /\ conn' \in [Streams -> Seq(Event)] /\ queue' \in [Streams -> Seq(Event)]
         /\ Lines'
<1> DEFINE e == Head(conn[s])
<1>1. /\ RTypeOK /\ Genuine /\ InLine /\ Attachment /\ NoGaps
      /\ UNCHANGED <<run, streams, emitted, yielded, since>>
      /\ streams[s].listener = "on" /\ conn[s] # <<>>
      /\ conn' = [conn EXCEPT ![s] = Tail(conn[s])]
      /\ queue' = [queue EXCEPT ![s] = Append(queue[s], e)]
  BY MissingNothing DEF LineInv, ListenerReads
<1>2. /\ conn[s] \in Seq(Event) /\ queue[s] \in Seq(Event) /\ Copies(s) \subseteq Event
  BY <1>1, ItemsType
<1>3. /\ e \in Event /\ Tail(conn[s]) \in Seq(Event) /\ Items(conn[s]) = {e} \cup Items(Tail(conn[s]))
      /\ Rising(Tail(conn[s])) /\ Before({e}, Items(Tail(conn[s])))
  BY <1>1, <1>2, Popped DEF InLine
<1>4. Before(Items(queue[s]), {e}) /\ Before(yielded[s], {e})
  BY <1>1, <1>3 DEF InLine, Before
<1>5. /\ Append(queue[s], e) \in Seq(Event) /\ Items(Append(queue[s], e)) = Items(queue[s]) \cup {e}
      /\ Rising(Append(queue[s], e))
  BY <1>1, <1>2, <1>3, <1>4, Pushed DEF InLine
<1>6. /\ conn' \in [Streams -> Seq(Event)] /\ queue' \in [Streams -> Seq(Event)]
      /\ conn'[s] = Tail(conn[s]) /\ queue'[s] = Append(queue[s], e)
      /\ \A t \in Streams : t # s => conn'[t] = conn[t] /\ queue'[t] = queue[t]
  BY <1>1, <1>3, <1>5 DEF RTypeOK
<1> HIDE DEF e
<1>7. /\ Items(conn[s]) = {e} \cup Items(conn'[s]) /\ Items(queue'[s]) = Items(queue[s]) \cup {e}
      /\ Rising(conn'[s]) /\ Rising(queue'[s]) /\ Before({e}, Items(conn'[s]))
  BY <1>3, <1>5, <1>6
<1>8. ASSUME NEW t \in Streams
      PROVE  Copies(t)' = Copies(t)
  <2>1. CASE t = s
    BY <1>1, <1>7, <2>1 DEF Copies
  <2>2. CASE t # s
    BY <1>1, <1>6, <2>2 DEF Copies
  <2> QED
    BY <2>1, <2>2
<1>9. Genuine'
  BY <1>1, <1>8 DEF Genuine
<1>10. InLine'
  <2> SUFFICES ASSUME NEW t \in Streams
               PROVE  /\ Rising(queue'[t]) /\ Rising(conn'[t])
                      /\ Before(yielded[t], Items(queue'[t])) /\ Before(yielded[t], Items(conn'[t]))
                      /\ Before(Items(queue'[t]), Items(conn'[t]))
    BY <1>1 DEF InLine
  <2>1. CASE t = s
    <3>1. /\ Before(yielded[s], Items(queue[s])) /\ Before(yielded[s], Items(conn[s]))
          /\ Before(Items(queue[s]), Items(conn[s]))
      BY <1>1 DEF InLine
    <3>2. Before(yielded[s], Items(queue'[s])) /\ Before(yielded[s], Items(conn'[s]))
      BY <1>4, <1>7, <3>1 DEF Before
    <3>3. Before(Items(queue'[s]), Items(conn'[s]))
      BY <1>7, <3>1 DEF Before
    <3> QED
      BY <1>7, <2>1, <3>2, <3>3
  <2>2. CASE t # s
    BY <1>1, <1>6, <2>2 DEF InLine
  <2> QED
    BY <2>1, <2>2
<1>11. Attachment'
  BY <1>1, <1>6, <1>8 DEF Attachment
<1>12. NoGaps'
  BY <1>1, <1>8 DEF NoGaps
<1> QED
  BY <1>6, <1>9, <1>10, <1>11, <1>12, MissingNothingNext DEF Lines

\* A listener dies, or a stream ends: what was on the connection is gone.
LEMMA CutLines ==
  ASSUME LineInv, NEW s \in Streams, UNCHANGED <<run, queue, emitted, yielded, since>>,
         conn' = [conn EXCEPT ![s] = <<>>],
         streams' \in [Streams -> StreamType],
         streams'[s].pc # "idle", streams'[s].listener \in {"off", "dead"},
         streams'[s].job = streams[s].job,
         \A t \in Streams : t # s => streams'[t] = streams[t]
  PROVE  conn' \in [Streams -> Seq(Event)] /\ Lines'
<1>1. RTypeOK /\ Genuine /\ InLine /\ Attachment /\ NoGaps
  BY MissingNothing DEF LineInv
<1>2. /\ conn' \in [Streams -> Seq(Event)] /\ conn'[s] = <<>>
      /\ \A t \in Streams : t # s => conn'[t] = conn[t]
  BY <1>1, Nothing DEF RTypeOK
<1>3. \A t \in Streams : Copies(t)' \subseteq Copies(t) /\ (t # s => Copies(t)' = Copies(t))
  BY <1>2, Nothing DEF Copies
<1>4. Genuine'
  BY <1>1, <1>3 DEF Genuine
<1>5. InLine'
  BY <1>1, <1>2, Nothing DEF InLine
<1>6. Attachment'
  BY <1>1, <1>2, <1>3 DEF Attachment
<1>7. NoGaps'
  BY <1>1, <1>3 DEF NoGaps
<1> QED
  BY <1>2, <1>4, <1>5, <1>6, <1>7, MissingNothingNext DEF Lines

LEMMA EndLines ==
  ASSUME LineInv, NEW s \in Streams, ListenerFails(s) \/ Disconnect(s) \/ (PollTimeout(s) /\ Left(s))
  PROVE  /\ conn' \in [Streams -> Seq(Event)] /\ streams' \in [Streams -> StreamType]
         /\ Lines'
<1>1. /\ UNCHANGED <<run, queue, emitted, yielded, since>> /\ conn' = [conn EXCEPT ![s] = <<>>]
      /\ \/ streams' = [streams EXCEPT ![s].listener = "dead"]
         \/ streams' = [streams EXCEPT ![s].pc = "gone", ![s].listener = "off"]
  BY DEF ListenerFails, PollTimeout, Disconnect, Left
<1>2. streams \in [Streams -> StreamType] /\ streams[s].pc # "idle"
  BY DEF LineInv, RTypeOK, StreamType, Attachment, ListenerFails, PollTimeout, Disconnect, Looping
<1>3. /\ streams' \in [Streams -> StreamType] /\ streams'[s].pc # "idle"
      /\ streams'[s].listener \in {"off", "dead"} /\ streams'[s].job = streams[s].job
      /\ \A t \in Streams : t # s => streams'[t] = streams[t]
  BY <1>1, <1>2 DEF StreamType
<1> QED
  BY <1>1, <1>3, CutLines

\* The timer of a wait, and the poll that waits again, leave the line alone.
LEMMA WaitLines ==
  ASSUME LineInv, NEW s \in Streams, WaitExpires(s) \/ (PollTimeout(s) /\ WaitsAgain(s))
  PROVE  streams' \in [Streams -> StreamType] /\ UNCHANGED conn /\ Lines'
<1>1. /\ RTypeOK /\ Genuine /\ InLine /\ Attachment /\ NoGaps
      /\ UNCHANGED <<run, conn, queue, emitted, yielded, since>> /\ streams[s].pc \in Looping
      /\ \E pc \in Looping : streams' = [streams EXCEPT ![s].pc = pc]
  BY MissingNothing DEF LineInv, WaitExpires, PollTimeout, WaitsAgain, Looping
<1>2. PICK pc \in Looping : streams' = [streams EXCEPT ![s].pc = pc]
  BY <1>1
<1>3. streams \in [Streams -> StreamType]
  BY <1>1 DEF RTypeOK, StreamType
<1>4. /\ streams' \in [Streams -> StreamType] /\ streams'[s].pc \in Looping
      /\ \A t \in Streams : /\ streams'[t].job = streams[t].job /\ streams'[t].listener = streams[t].listener
                            /\ t # s => streams'[t] = streams[t]
  BY <1>2, <1>3 DEF StreamType
<1>5. \A t \in Streams : Copies(t)' = Copies(t)
  BY <1>1 DEF Copies
<1>6. Genuine' /\ InLine'
  BY <1>1, <1>4, <1>5 DEF Genuine, InLine
<1>7. Attachment'
  <2> SUFFICES ASSUME NEW t \in Streams
               PROVE  /\ streams'[t].pc = "idle" => streams'[t].listener = "off"
                      /\ streams'[t].listener \in {"starting", "on"} => streams'[t].pc \in Looping
                      /\ streams'[t].pc = "idle" \/ streams'[t].listener = "starting" => Copies(t)' = {}
                      /\ streams'[t].listener # "on" => conn'[t] = <<>>
                      /\ since'[t] <= emitted'[streams'[t].job]
    BY DEF Attachment
  <2>1. CASE t = s
    BY <1>1, <1>4, <1>5, <2>1 DEF Attachment, Looping
  <2>2. CASE t # s
    BY <1>1, <1>4, <1>5, <2>2 DEF Attachment
  <2> QED
    BY <2>1, <2>2
<1>8. NoGaps'
  BY <1>1, <1>4, <1>5 DEF NoGaps
<1> QED
  BY <1>1, <1>4, <1>6, <1>7, <1>8, MissingNothingNext DEF Lines

\* The generator takes the next event out of its queue; a verdict ends it.
LEMMA YieldLines ==
  ASSUME LineInv, NEW s \in Streams, Yield(s)
  PROVE  /\ conn' \in [Streams -> Seq(Event)] /\ queue' \in [Streams -> Seq(Event)]
         /\ streams' \in [Streams -> StreamType] /\ yielded' \in [Streams -> SUBSET Event]
         /\ Lines'
<1> DEFINE e == Head(queue[s])
<1>1. /\ RTypeOK /\ Genuine /\ InLine /\ Attachment /\ NoGaps
      /\ UNCHANGED <<run, emitted, since>>
      /\ streams[s].pc = "waiting" /\ queue[s] # <<>>
      /\ queue' = [queue EXCEPT ![s] = Tail(queue[s])]
      /\ yielded' = [yielded EXCEPT ![s] = yielded[s] \cup {e}]
  BY MissingNothing DEF LineInv, Yield
<1>2. /\ streams \in [Streams -> StreamType]
      /\ \/ UNCHANGED <<streams, conn>>
         \/ /\ streams' = [streams EXCEPT ![s].pc = "gone", ![s].listener = "off"]
            /\ conn' = [conn EXCEPT ![s] = <<>>]
  BY <1>1 DEF Yield, Left, RTypeOK, StreamType
<1>3. /\ streams' \in [Streams -> StreamType] /\ conn' \in [Streams -> Seq(Event)]
      /\ \/ conn'[s] = conn[s] /\ streams'[s] = streams[s]
         \/ conn'[s] = <<>> /\ streams'[s].pc = "gone" /\ streams'[s].listener = "off"
      /\ \A t \in Streams : /\ streams'[t].job = streams[t].job
                            /\ t # s => conn'[t] = conn[t] /\ streams'[t] = streams[t]
  <2>1. conn \in [Streams -> Seq(Event)] /\ <<>> \in Seq(Event)
    BY <1>1, Nothing DEF RTypeOK
  <2>2. CASE UNCHANGED <<streams, conn>>
    BY <1>2, <2>1, <2>2
  <2>3. CASE /\ streams' = [streams EXCEPT ![s].pc = "gone", ![s].listener = "off"]
             /\ conn' = [conn EXCEPT ![s] = <<>>]
    BY <1>2, <2>1, <2>3 DEF StreamType
  <2> QED
    BY <1>2, <2>2, <2>3
<1>4. queue[s] \in Seq(Event)
  BY <1>1, ItemsType
<1>5. /\ e \in Event /\ Tail(queue[s]) \in Seq(Event)
      /\ Items(queue[s]) = {e} \cup Items(Tail(queue[s]))
      /\ Rising(Tail(queue[s])) /\ Before({e}, Items(Tail(queue[s])))
  BY <1>1, <1>4, Popped DEF InLine
<1>6. /\ queue' \in [Streams -> Seq(Event)] /\ yielded' \in [Streams -> SUBSET Event]
      /\ queue'[s] = Tail(queue[s]) /\ yielded'[s] = yielded[s] \cup {e}
      /\ \A t \in Streams : t # s => queue'[t] = queue[t] /\ yielded'[t] = yielded[t]
  BY <1>1, <1>5 DEF RTypeOK
<1> HIDE DEF e
<1>7. /\ Items(queue[s]) = {e} \cup Items(queue'[s]) /\ Rising(queue'[s])
      /\ Before({e}, Items(queue'[s]))
  BY <1>5, <1>6
<1>8. ASSUME NEW t \in Streams
      PROVE  /\ Copies(t)' \subseteq Copies(t)
             /\ t # s \/ conn'[s] = conn[s] => Copies(t)' = Copies(t)
  <2>1. CASE t = s
    BY <1>3, <1>6, <1>7, <2>1, Nothing DEF Copies
  <2>2. CASE t # s
    BY <1>3, <1>6, <2>2 DEF Copies
  <2> QED
    BY <2>1, <2>2
<1>9. Genuine'
  BY <1>1, <1>3, <1>8 DEF Genuine
<1>10. InLine'
  <2> SUFFICES ASSUME NEW t \in Streams
               PROVE  /\ Rising(queue'[t]) /\ Rising(conn'[t])
                      /\ Before(yielded'[t], Items(queue'[t])) /\ Before(yielded'[t], Items(conn'[t]))
                      /\ Before(Items(queue'[t]), Items(conn'[t]))
    BY DEF InLine
  <2>1. CASE t = s
    <3>1. /\ Before(yielded[s], Items(queue[s])) /\ Before(yielded[s], Items(conn[s]))
          /\ Before(Items(queue[s]), Items(conn[s])) /\ Rising(conn[s])
      BY <1>1 DEF InLine
    <3>2. Before(yielded'[s], Items(queue'[s]))
      BY <1>6, <1>7, <3>1 DEF Before
    <3>3. Before(yielded'[s], Items(conn[s])) /\ Before(Items(queue'[s]), Items(conn[s]))
      BY <1>6, <1>7, <3>1 DEF Before
    <3>4. CASE conn'[s] = conn[s]
      BY <1>7, <2>1, <3>1, <3>2, <3>3, <3>4
    <3>5. CASE conn'[s] = <<>>
      BY <1>7, <2>1, <3>2, <3>5, Nothing
    <3> QED
      BY <1>3, <3>4, <3>5
  <2>2. CASE t # s
    BY <1>1, <1>3, <1>6, <2>2 DEF InLine
  <2> QED
    BY <2>1, <2>2
<1>11. streams[s].listener # "starting" /\ streams[s].pc # "idle"
  BY <1>1, <1>7 DEF Attachment, Copies
<1>12. Attachment'
  <2> SUFFICES ASSUME NEW t \in Streams
               PROVE  /\ streams'[t].pc = "idle" => streams'[t].listener = "off"
                      /\ streams'[t].listener \in {"starting", "on"} => streams'[t].pc \in Looping
                      /\ streams'[t].pc = "idle" \/ streams'[t].listener = "starting" => Copies(t)' = {}
                      /\ streams'[t].listener # "on" => conn'[t] = <<>>
                      /\ since[t] <= emitted[streams'[t].job]
    BY <1>1 DEF Attachment
  <2>1. CASE t # s \/ (conn'[s] = conn[s] /\ streams'[s] = streams[s])
    BY <1>1, <1>3, <1>8, <2>1 DEF Attachment
  <2>2. CASE t = s /\ conn'[s] = <<>> /\ streams'[s].pc = "gone" /\ streams'[s].listener = "off"
    BY <1>1, <1>3, <2>2 DEF Attachment
  <2> QED
    BY <1>3, <2>1, <2>2
<1>13. NoGaps'
  <2> SUFFICES ASSUME NEW t \in Streams, streams'[t].listener = "on"
               PROVE  {d.n : d \in Copies(t)'} = since[t] + 1 .. emitted[streams[t].job]
    BY <1>1, <1>3 DEF NoGaps
  <2>1. Copies(t)' = Copies(t) /\ streams[t].listener = "on"
    BY <1>3, <1>8
  <2> QED
    BY <1>1, <2>1 DEF NoGaps
<1> QED
  BY <1>3, <1>6, <1>9, <1>10, <1>12, <1>13, MissingNothingNext DEF Lines

-----------------------------------------------------------------------------
(* Steps.                                                                  *)

LEMMA JobLines ==
  ASSUME LineInv, NEW j \in JobIds, RedisStep(j)
  PROVE  RTypeOK' /\ Lines' /\ Stored'
<1>1. RTypeOK /\ Stored /\ RTypeOK
  BY DEF LineInv
<1>4. CASE DeleteJob(j)
  <2>1. /\ UNCHANGED <<run, streams, conn, queue, scan, emitted, yielded, since>>
        /\ hashes' = [hashes EXCEPT ![j] = "absent"] /\ cleared' = cleared \cup {j}
    BY <1>4 DEF DeleteJob, SetJob
  <2>2. RTypeOK'
    BY <1>1, <2>1 DEF RTypeOK
  <2>3. Stored'
    BY <1>1, <2>1 DEF Stored, RTypeOK
  <2> QED
    BY <2>1, <2>2, <2>3, LinesUntouched
<1>2. CASE JobCreated(j) \/ JobStarts(j) \/ JobStored(j)
  <2>1. /\ UNCHANGED <<streams, conn, queue, scan, emitted, yielded, since, cleared>>
        /\ run[j] \in {"new", "pending", "running"}
    BY <1>2 DEF JobCreated, JobStarts, JobStored
  <2>2. \/ /\ hashes' = [hashes EXCEPT ![j] = "pending"]
           /\ run' = [run EXCEPT ![j] = "pending"]
        \/ /\ hashes' = [hashes EXCEPT ![j] = "running"]
           /\ run' = [run EXCEPT ![j] = "running"]
        \/ /\ \E v \in Finals : hashes' = [hashes EXCEPT ![j] = v]
           /\ run' = [run EXCEPT ![j] = "stored"]
    BY <1>2 DEF JobCreated, JobStarts, JobStored, SetJob
  <2>3. /\ hashes' \in [JobIds -> {"absent", "pending", "running"} \cup Finals]
        /\ run' \in [JobIds -> RunPc]
        /\ \A i \in JobIds : run[i] = "done" => run'[i] = "done"
    <3>1. ASSUME NEW h \in {"pending", "running"} \cup Finals,
                 NEW q \in {"pending", "running", "stored"},
                 hashes' = [hashes EXCEPT ![j] = h], run' = [run EXCEPT ![j] = q]
          PROVE  /\ hashes' \in [JobIds -> {"absent", "pending", "running"} \cup Finals]
                 /\ run' \in [JobIds -> RunPc]
                 /\ \A i \in JobIds : run[i] = "done" => run'[i] = "done"
      <4>1. hashes' \in [JobIds -> {"absent", "pending", "running"} \cup Finals]
        BY <1>1, <3>1 DEF RTypeOK
      <4>2. run' \in [JobIds -> RunPc]
        BY <1>1, <3>1 DEF RTypeOK, RunPc
      <4>3. \A i \in JobIds : run[i] = "done" => i # j /\ run'[i] = run[i]
        BY <1>1, <2>1, <3>1 DEF RTypeOK
      <4> QED
        BY <4>1, <4>2, <4>3
    <3>2. CASE hashes' = [hashes EXCEPT ![j] = "pending"] /\ run' = [run EXCEPT ![j] = "pending"]
      BY <3>1, <3>2
    <3>3. CASE hashes' = [hashes EXCEPT ![j] = "running"] /\ run' = [run EXCEPT ![j] = "running"]
      BY <3>1, <3>3
    <3>4. ASSUME NEW v \in Finals, hashes' = [hashes EXCEPT ![j] = v],
                 run' = [run EXCEPT ![j] = "stored"]
          PROVE  /\ hashes' \in [JobIds -> {"absent", "pending", "running"} \cup Finals]
                 /\ run' \in [JobIds -> RunPc]
                 /\ \A i \in JobIds : run[i] = "done" => run'[i] = "done"
      BY <3>1, <3>4
    <3> QED
      BY <2>2, <3>2, <3>3, <3>4
  <2>4. RTypeOK'
    BY <1>1, <2>1, <2>3 DEF RTypeOK
  <2>5. Stored'
    BY <1>1, <2>1, <2>2 DEF Stored, RTypeOK
  <2> QED
    BY <2>1, <2>3, <2>4, <2>5, LinesUntouched
<1>3. CASE JobProgresses(j) \/ JobEnds(j)
  <2>1. /\ UNCHANGED <<hashes, streams, queue, scan, yielded, since, cleared>>
        /\ \/ EmitEvent(j, "progress") /\ UNCHANGED run
           \/ /\ EmitEvent(j, "verdict") /\ run[j] = "stored"
              /\ run' = [run EXCEPT ![j] = "done"]
    BY <1>3 DEF JobProgresses, JobEnds
  <2>2. /\ run' \in [JobIds -> RunPc]
        /\ \A i \in JobIds : /\ run[i] = "done" => run'[i] = "done"
                             /\ run'[i] \in {"stored", "done"} => run[i] \in {"stored", "done"}
    BY <1>1, <2>1 DEF RTypeOK, RunPc
  <2>3. conn' \in [Streams -> Seq(Event)] /\ emitted' \in [JobIds -> Nat] /\ Lines'
    <3>1. CASE EmitEvent(j, "progress")
      BY <2>1, <2>2, <3>1, Published DEF Kinds
    <3>2. CASE EmitEvent(j, "verdict") /\ run' = [run EXCEPT ![j] = "done"]
      <4>1. run'[j] = "done"
        BY <1>1, <3>2 DEF RTypeOK
      <4> QED
        BY <2>1, <2>2, <3>2, <4>1, Published DEF Kinds
    <3> QED
      BY <2>1, <3>1, <3>2
  <2>4. RTypeOK'
    BY <1>1, <2>1, <2>2, <2>3 DEF RTypeOK
  <2>5. Stored'
    BY <1>1, <2>1, <2>2 DEF Stored
  <2> QED
    BY <2>3, <2>4, <2>5
<1> QED
  BY <1>2, <1>3, <1>4 DEF RedisStep

LEMMA StreamLines ==
  ASSUME LineInv, NEW s \in Streams,
         \/ Subscribe(s) \/ Listener(s) \/ ListenerFails(s)
         \/ Yield(s) \/ Timer(s) \/ Disconnect(s)
  PROVE  RTypeOK' /\ Lines' /\ Stored'
<1>1. RTypeOK /\ Stored
  BY DEF LineInv
<1>2. UNCHANGED <<hashes, run, scan, emitted, cleared>>
  BY DEF Subscribe, Listener, ListenerSubscribes, ListenerReads, ListenerFails, Yield, Timer, WaitExpires,
         PollTimeout, Disconnect
<1>3. Stored'
  BY <1>1, <1>2 DEF Stored
<1>4. CASE Subscribe(s) \/ ListenerSubscribes(s)
  <2>1. UNCHANGED <<conn, queue, yielded>>
    BY <1>4 DEF Subscribe, ListenerSubscribes
  <2> QED
    BY <1>1, <1>2, <1>3, <1>4, <2>1, SubscribeLines DEF RTypeOK, StreamType
<1>5. CASE ListenerReads(s)
  <2>1. UNCHANGED <<streams, yielded, since>>
    BY <1>5 DEF ListenerReads
  <2> QED
    BY <1>1, <1>2, <1>3, <1>5, <2>1, ReadLines DEF RTypeOK
<1>6. CASE ListenerFails(s) \/ Disconnect(s) \/ (PollTimeout(s) /\ Left(s))
  <2>1. UNCHANGED <<queue, yielded, since>>
    BY <1>6 DEF ListenerFails, PollTimeout, Disconnect
  <2> QED
    BY <1>1, <1>2, <1>3, <1>6, <2>1, EndLines DEF RTypeOK, StreamType
<1>8. CASE WaitExpires(s) \/ (PollTimeout(s) /\ WaitsAgain(s))
  <2>1. UNCHANGED <<queue, yielded, since>>
    BY <1>8 DEF WaitExpires, PollTimeout
  <2> QED
    BY <1>1, <1>2, <1>3, <1>8, <2>1, WaitLines DEF RTypeOK, StreamType
<1>9. PollTimeout(s) => Left(s) \/ WaitsAgain(s)
  BY DEF PollTimeout
<1>7. CASE Yield(s)
  <2>1. UNCHANGED since
    BY <1>7 DEF Yield
  <2> QED
    BY <1>1, <1>2, <1>3, <1>7, <2>1, YieldLines DEF RTypeOK, StreamType
<1> QED
  BY <1>4, <1>5, <1>6, <1>7, <1>8, <1>9 DEF Listener, Timer

LEMMA ClearLines ==
  ASSUME LineInv, ScanKeys \/ DeleteKeys
  PROVE  RTypeOK' /\ Lines' /\ Stored'
<1>1. RTypeOK /\ Stored
  BY DEF LineInv
<1>2. UNCHANGED <<run, streams, conn, queue, emitted, yielded, since>>
  BY DEF ScanKeys, DeleteKeys
<1>3. CASE ScanKeys
  <2>1. UNCHANGED <<hashes, cleared>> /\ scan' \subseteq JobIds
    BY <1>3 DEF ScanKeys
  <2> QED
    BY <1>1, <1>2, <2>1, LinesUntouched DEF RTypeOK, Stored
<1>4. CASE DeleteKeys
  <2>1. /\ hashes' = [j \in JobIds |-> IF j \in scan THEN "absent" ELSE hashes[j]]
        /\ cleared' = cleared \cup scan /\ scan' = {} /\ scan \subseteq JobIds
    BY <1>1, <1>4 DEF DeleteKeys, RTypeOK
  <2>2. hashes' \in [JobIds -> {"absent", "pending", "running"} \cup Finals]
    BY <1>1, <2>1 DEF RTypeOK
  <2>3. Stored'
    BY <1>1, <1>2, <2>1 DEF Stored
  <2> QED
    BY <1>1, <1>2, <2>1, <2>2, <2>3, LinesUntouched DEF RTypeOK
<1> QED
  BY <1>3, <1>4

LEMMA LineStep ==
  ASSUME LineInv, [RedisNext]_redisVars
  PROVE  LineInv'
<1>1. CASE UNCHANGED redisVars
  BY <1>1, LinesUntouched DEF redisVars, LineInv, Lines, RTypeOK, Stored
<1> QED
  BY <1>1, JobLines, StreamLines, ClearLines DEF RedisNext, LineInv, Lines

LEMMA LineInit == RedisInit => LineInv
<1> SUFFICES ASSUME RedisInit PROVE LineInv
  OBVIOUS
<1>1. RTypeOK
  <2>1. streams \in [Streams -> StreamType]
    BY DEF RedisInit, StreamType
  <2>2. conn \in [Streams -> Seq(Event)] /\ queue \in [Streams -> Seq(Event)]
    BY Nothing DEF RedisInit
  <2> QED
    BY <2>1, <2>2 DEF RedisInit, RTypeOK, StreamType, RunPc
<1>2. \A s \in Streams : /\ conn[s] = <<>> /\ queue[s] = <<>> /\ yielded[s] = {} /\ Copies(s) = {}
                         /\ streams[s].pc = "idle" /\ streams[s].listener = "off"
                         /\ since[s] = 0 /\ streams[s].job \in JobIds
  BY Nothing DEF RedisInit, Copies
<1>3. Genuine /\ InLine
  BY <1>2, Nothing DEF Genuine, InLine
<1>4. Attachment /\ NoGaps
  BY <1>1, <1>2 DEF Attachment, NoGaps, RTypeOK
<1>5. Stored
  BY DEF RedisInit, Stored
<1> QED
  BY <1>1, <1>3, <1>4, <1>5, MissingNothing DEF LineInv

-----------------------------------------------------------------------------
(* Theorems.                                                               *)

LEMMA LineAlways == RedisSpec => []LineInv
  BY LineInit, LineStep, PTL DEF RedisSpec

(* A stream whose listener is attached misses nothing published from then   *)
(* on, and whoever has seen a verdict finds it stored, for any number of    *)
(* jobs and streams and with processes starting at any time                 *)
(* (job_store_redis.py:106-190, main.py:2219-2267).                         *)
THEOREM RedisCorrect == RedisSpec => []RedisInv
<1>1. LineInv => RedisInv
  BY DEF LineInv, RedisInv, ResultIsThere, Genuine, Stored, Copies, RTypeOK
<1> QED
  BY <1>1, LineAlways, PTL

LEMMA StepImplements ==
  ASSUME LineInv, [RedisNext]_redisVars
  PROVE  [Log!Next]_(Log!logVars)
<1>1. ASSUME NEW j \in JobIds, RedisStep(j)
      PROVE  [Log!Next]_(Log!logVars)
  <2>1. UNCHANGED yielded
    BY <1>1 DEF RedisStep, JobCreated, JobStarts, JobProgresses, JobStored, JobEnds, DeleteJob
  <2>2. CASE UNCHANGED emitted
    BY <2>1, <2>2 DEF Log!logVars
  <2>3. CASE emitted' = [emitted EXCEPT ![j] = emitted[j] + 1]
    <3>1. emitted \in [JobIds -> Nat]
      BY DEF LineInv, RTypeOK
    <3>2. emitted'[j] = emitted[j] + 1
      BY <2>3, <3>1
    <3>3. emitted' = [emitted EXCEPT ![j] = emitted'[j]]
      BY <2>3, <3>2
    <3>4. Log!Emit(j)
      BY <2>1, <3>1, <3>2, <3>3 DEF Log!Emit
    <3> QED
      BY <3>4 DEF Log!Next
  <2> QED
    BY <1>1, <2>2, <2>3 DEF RedisStep, JobCreated, JobStarts, JobProgresses, JobStored, JobEnds, DeleteJob,
       EmitEvent
<1>2. ASSUME NEW s \in Streams, Yield(s)
      PROVE  Log!Next
  <2> DEFINE e == Head(queue[s])
  <2>1. /\ RTypeOK /\ queue[s] \in Seq(Event) /\ queue[s] # <<>>
        /\ yielded' = [yielded EXCEPT ![s] = yielded[s] \cup {e}] /\ UNCHANGED emitted
    BY <1>2, ItemsType DEF LineInv, Yield
  <2>2. e \in Event /\ e \in Items(queue[s])
    BY <2>1, Popped
  <2> HIDE DEF e
  <2>3. /\ e.job \in JobIds /\ e.n \in 1 .. emitted[e.job]
        /\ \A d \in yielded[s] : d.n < e.n
    BY <2>1, <2>2 DEF LineInv, Genuine, InLine, Before, Copies, Event, RTypeOK
  <2>4. e \in yielded'[s]
    BY <2>1 DEF RTypeOK
  <2>5. Log!Yield(s, e)
    BY <2>1, <2>3 DEF Log!Yield
  <2> QED
    BY <2>4, <2>5 DEF Log!Next
<1>3. ASSUME NEW s \in Streams,
             Subscribe(s) \/ Listener(s) \/ ListenerFails(s) \/ Timer(s) \/ Disconnect(s)
      PROVE  UNCHANGED Log!logVars
  BY <1>3 DEF Subscribe, Listener, ListenerSubscribes, ListenerReads, ListenerFails, Timer, WaitExpires,
              PollTimeout, Disconnect, Log!logVars
<1>4. CASE ScanKeys \/ DeleteKeys \/ UNCHANGED redisVars
  BY <1>4 DEF ScanKeys, DeleteKeys, redisVars, Log!logVars
<1> QED
  BY <1>1, <1>2, <1>3, <1>4 DEF RedisNext

(* The Redis store keeps the promise of EventLog without exclusion: every   *)
(* stream gets its own copy of the events, in order and none twice          *)
(* (job_store_redis.py:106-166).                                            *)
THEOREM RedisRefinement == RedisSpec => BroadcastImplemented
<1>1. RedisInit => Log!Init
  BY DEF RedisInit, Log!Init
<1> QED
  BY <1>1, LineAlways, StepImplements, PTL DEF RedisSpec, BroadcastImplemented, Log!Spec
=============================================================================
