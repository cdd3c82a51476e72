--------------------------------- MODULE Jobs ---------------------------------
(***************************************************************************)
(* What the queues promise: a job somebody asked for is done, perhaps more *)
(* than once, or given up; a job that was given up is not done after all.  *)
(***************************************************************************)
CONSTANT Job

VARIABLES asked, done, dropped

TypeOK == asked \in SUBSET Job /\ done \in SUBSET Job /\ dropped \in SUBSET Job

Init == asked = {} /\ done = {} /\ dropped = {}

Ask(j) ==
  /\ j \notin asked /\ asked' = asked \cup {j}
  /\ UNCHANGED <<done, dropped>>

Do(j) ==
  /\ j \in asked \ dropped /\ done' = done \cup {j}
  /\ UNCHANGED <<asked, dropped>>

(* Jobs are given up together when what holds them breaks.                 *)
Drop(lost) ==
  /\ lost \subseteq asked /\ dropped' = dropped \cup lost
  /\ UNCHANGED <<asked, done>>

(* An effect that is reported as a failure.                                *)
DoAndDrop(j) ==
  /\ j \in asked \ dropped /\ done' = done \cup {j} /\ dropped' = dropped \cup {j}
  /\ UNCHANGED asked

Next ==
  \/ \E j \in Job : Ask(j) \/ Do(j) \/ DoAndDrop(j)
  \/ \E lost \in SUBSET Job : Drop(lost)

Spec == Init /\ [][Next]_<<asked, done, dropped>>
=============================================================================
