------------------------------ MODULE EventLog ------------------------------
(***************************************************************************)
(* What the event half of a job store promises to the clients of           *)
(* /v1/jobs/{id}/events, whatever keeps the events: the events of a job    *)
(* are numbered by emission and a stream sees them in that order.  Events  *)
(* may be lost (a queue is dropped with its job, a subscription comes too  *)
(* late), so a stream may see gaps; it may never see a repetition or an    *)
(* inversion.  The in-process store hands each event to one stream         *)
(* (Exclusive), the Redis store broadcasts it.                             *)
(***************************************************************************)
EXTENDS Naturals

CONSTANTS Jobs,      \* job ids
          Streams,   \* consumers of event streams
          Exclusive  \* does an event reach one stream at most?

VARIABLES emitted,  \* [Jobs -> Nat]: the events of each job emitted so far
          seen      \* [Streams -> set of events]: what each stream has yielded

logVars == <<emitted, seen>>

Init ==
  /\ emitted = [j \in Jobs |-> 0]
  /\ seen = [s \in Streams |-> {}]

\* One or more events of job j are emitted.
Emit(j) ==
  /\ emitted'[j] > emitted[j]
  /\ emitted' = [emitted EXCEPT ![j] = emitted'[j]]
  /\ UNCHANGED seen

\* Stream s yields event e: already emitted, later than every event of that
\* job s has yielded, and yielded by no other stream if streams exclude each
\* other.
Yield(s, e) ==
  /\ e.job \in Jobs
  /\ e.n \in 1 .. emitted[e.job]
  /\ \A d \in seen[s] : d.job = e.job => d.n < e.n
  /\ Exclusive => \A t \in Streams : \A d \in seen[t] : d.job = e.job => d.n # e.n
  /\ seen' = [seen EXCEPT ![s] = @ \cup {e}]
  /\ UNCHANGED emitted

Next ==
  \/ \E j \in Jobs : Emit(j)
  \/ \E s \in Streams : \E e \in seen'[s] : Yield(s, e)

Spec == Init /\ [][Next]_logVars
=============================================================================
