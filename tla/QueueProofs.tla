------------------------------ MODULE QueueProofs ------------------------------
(***************************************************************************)
(* Proofs about Queue, for every set of jobs of every kind and every       *)
(* number of faults.                                                       *)
(***************************************************************************)
EXTENDS Queue, TLAPS

(* The invariant of one job.                                               *)
AccountedOf(j) ==
  pc[j] = "returned" => copies[j] > 0 \/ Kept(j) \/ j \in dropped
Local(j) == PlaceInv(j) /\ CopyInv(j) /\ AccountedOf(j)

(* What the jobs have in common: the types, and that a process holds the    *)
(* channel.                                                                *)
Common == TypeOK /\ (channel # "none" => Alive)

(* Inv is what they have in common and the invariant of every job.         *)
LEMMA InvIsLocal == Inv <=> Common /\ \A j \in Job : Local(j)
BY DEF Inv, Accounted, Common, Local, AccountedOf, Kept

(* A step that leaves job k where it is.                                   *)
Untouched(k) ==
  /\ pc'[k] = pc[k] /\ work'[k] = work[k]
  /\ copies'[k] = copies[k] /\ again'[k] = again[k]
  /\ k \in buffer' <=> k \in buffer
  /\ k \in queue' <=> k \in queue
  /\ k \in unacked' <=> k \in unacked
  /\ k \in dropped' <=> k \in dropped

(* A job that is left alone keeps its invariant while the process lives    *)
(* and the channel stays as it is.                                         *)
LEMMA Frame ==
  ASSUME NEW k \in Job, Local(k), Untouched(k), channel' = channel, Alive => Alive'
  PROVE  Local(k)'
<1> USE DEF Untouched
<1>1. /\ Kept(k)' = Kept(k)
      /\ Open(k)' = Open(k)
  BY DEF Kept, Open
<1>2. PlaceInv(k)'
  BY <1>1 DEF Local, PlaceInv
<1>3. CopyInv(k)'
  BY <1>1 DEF Local, CopyInv
<1>4. AccountedOf(k)'
  BY <1>1 DEF Local, AccountedOf
<1>5. QED
  BY <1>2, <1>3, <1>4 DEF Local

(* The invariant holds at the start.                                       *)
LEMMA InitInv == Init => Inv
<1> SUFFICES ASSUME Init PROVE Inv
  OBVIOUS
<1>1. TypeOK
  BY FaultAssumption DEF Init, TypeOK, Kinds, Enqueueing, Working
<1>2. ASSUME NEW j \in Job PROVE Local(j)
  BY DEF Init, Local, PlaceInv, CopyInv, AccountedOf, Open, Kept, Enqueueing, Working, Alive
<1>3. QED
  BY <1>1, <1>2, InvIsLocal DEF Init, Common

-----------------------------------------------------------------------------
(* The steps of one job. Each keeps the types, leaves the other jobs alone *)
(* and keeps the invariant of its own job.                                 *)
Good(j) ==
  /\ Common' /\ Local(j)'
  /\ \A k \in Job \ {j} : Untouched(k)
  /\ channel' = channel /\ (Alive => Alive')

LEMMA EnqueueGood ==
  ASSUME NEW j \in Job, Common, Local(j), Enqueue(j) PROVE Good(j)
BY DEF Enqueue, Goto, Good, Common, TypeOK, Local, PlaceInv, CopyInv, AccountedOf, Open, Kept,
       Untouched, Enqueueing, Working, Alive, broker, history

LEMMA SendGood ==
  ASSUME NEW j \in Job, Common, Local(j), Send(j) PROVE Good(j)
BY DEF Send, Goto, Good, Common, TypeOK, Local, PlaceInv, CopyInv, AccountedOf, Open, Kept,
       Untouched, Enqueueing, Working, Alive, history

LEMMA InlineGood ==
  ASSUME NEW j \in Job, Common, Local(j), Inline(j) PROVE Good(j)
<1> USE DEF history, Inline, Goto, Effect, Failed, Fault
<1>1. TypeOK'
  BY FaultAssumption DEF Common, TypeOK, Enqueueing, Working, broker
<1>2. PlaceInv(j)'
  BY DEF Local, PlaceInv, AccountedOf, Common, TypeOK, Kept, Alive, Enqueueing, Working, broker
<1>3. CopyInv(j)'
  BY DEF Local, PlaceInv, CopyInv, Open, Common, TypeOK, Kept, Alive, Enqueueing, Working, broker
<1>4. AccountedOf(j)'
  BY DEF Local, PlaceInv, CopyInv, AccountedOf, Open, Common, TypeOK, Kept, Enqueueing, Working, broker
<1>5. \A k \in Job \ {j} : Untouched(k)
  BY DEF Untouched, Common, TypeOK, broker
<1>6. channel' = channel /\ (Alive => Alive')
  BY DEF Alive
<1>7. QED
  BY <1>1, <1>2, <1>3, <1>4, <1>5, <1>6 DEF Good, Common, Local

LEMMA MailGood ==
  ASSUME NEW j \in Job, Common, Local(j), Mail(j) PROVE Good(j)
<1> USE DEF history, Mail, Goto, Effect, Fault
<1>1. TypeOK'
  BY FaultAssumption DEF Common, TypeOK, Enqueueing, Working, broker
<1>2. PlaceInv(j)'
  BY DEF Local, PlaceInv, AccountedOf, Common, TypeOK, Kept, Alive, Enqueueing, Working, broker
<1>3. CopyInv(j)'
  BY DEF Local, PlaceInv, CopyInv, Open, Common, TypeOK, Kept, Alive, Enqueueing, Working, broker
<1>4. AccountedOf(j)'
  BY DEF Local, PlaceInv, CopyInv, AccountedOf, Open, Common, TypeOK, Kept, Enqueueing, Working, broker
<1>5. \A k \in Job \ {j} : Untouched(k)
  BY DEF Untouched, Common, TypeOK, broker
<1>6. channel' = channel /\ (Alive => Alive')
  BY DEF Alive
<1>7. QED
  BY <1>1, <1>2, <1>3, <1>4, <1>5, <1>6 DEF Good, Common, Local

LEMMA PublishGood ==
  ASSUME NEW j \in Job, Common, Local(j), Publish(j) PROVE Good(j)
BY DEF Publish, Good, Common, TypeOK, Local, PlaceInv, CopyInv, AccountedOf, Open, Kept,
       Untouched, Enqueueing, Working, Alive, history

LEMMA DeliverGood ==
  ASSUME NEW j \in Job, Common, Local(j), Deliver(j) PROVE Good(j)
<1> USE DEF history, Deliver
<1>0. channel = "open"
  BY DEF Consuming
<1>1. TypeOK'
  BY FaultAssumption DEF Common, TypeOK, Enqueueing, Working, broker
<1>2. PlaceInv(j)'
  BY <1>0 DEF Local, PlaceInv, AccountedOf, Common, TypeOK, Kept, Alive, Enqueueing, Working, broker
<1>3. CopyInv(j)'
  BY <1>0 DEF Local, PlaceInv, CopyInv, Open, Common, TypeOK, Kept, Alive, Enqueueing, Working, broker
<1>4. AccountedOf(j)'
  BY DEF Local, PlaceInv, CopyInv, AccountedOf, Open, Common, TypeOK, Kept, Enqueueing, Working, broker
<1>5. \A k \in Job \ {j} : Untouched(k)
  BY DEF Untouched, Common, TypeOK, broker
<1>6. channel' = channel /\ (Alive => Alive')
  BY DEF Alive
<1>7. QED
  BY <1>1, <1>2, <1>3, <1>4, <1>5, <1>6 DEF Good, Common, Local

LEMMA AlertGood ==
  ASSUME NEW j \in Job, Common, Local(j), processTransactionAlert(j) PROVE Good(j)
BY DEF processTransactionAlert, Effect, Settle, Good, Common, TypeOK, Local, PlaceInv, CopyInv,
       AccountedOf, Open, Kept, Untouched, Enqueueing, Working, Alive

LEMMA PerformGood ==
  ASSUME NEW j \in Job, Common, Local(j), Perform(j) PROVE Good(j)
<1> USE DEF history, Perform, Effect, Fault
<1>1. TypeOK'
  BY FaultAssumption DEF Common, TypeOK, Enqueueing, Working, broker
<1>2. PlaceInv(j)'
  BY DEF Local, PlaceInv, AccountedOf, Common, TypeOK, Kept, Alive, Enqueueing, Working, broker
<1>3. CopyInv(j)'
  BY DEF Local, PlaceInv, CopyInv, Open, Common, TypeOK, Kept, Alive, Enqueueing, Working, broker
<1>4. AccountedOf(j)'
  BY DEF Local, PlaceInv, CopyInv, AccountedOf, Open, Common, TypeOK, Kept, Enqueueing, Working, broker
<1>5. \A k \in Job \ {j} : Untouched(k)
  BY DEF Untouched, Common, TypeOK, broker
<1>6. channel' = channel /\ (Alive => Alive')
  BY DEF Alive
<1>7. QED
  BY <1>1, <1>2, <1>3, <1>4, <1>5, <1>6 DEF Good, Common, Local

LEMMA FinishGood ==
  ASSUME NEW j \in Job, Common, Local(j), Finish(j) PROVE Good(j)
BY DEF Finish, Settle, Good, Common, TypeOK, Local, PlaceInv, CopyInv, AccountedOf, Open, Kept,
       Untouched, Enqueueing, Working, Alive

(* A step of one job keeps the invariant.                                  *)
LEMMA GoodKeepsInv ==
  ASSUME Inv, NEW j \in Job, Good(j) PROVE Inv'
<1>1. ASSUME NEW k \in Job PROVE Local(k)'
  <2>1. CASE k = j
    BY <2>1 DEF Good
  <2>2. CASE k # j
    BY <2>2, Frame, InvIsLocal DEF Good
  <2>3. QED
    BY <2>1, <2>2
<1>2. QED
  <2>1. (Inv <=> Common /\ \A k \in Job : Local(k))'
    BY DEF Inv, Accounted, Common, Local, AccountedOf, Kept
  <2>2. QED
    BY <1>1, <2>1 DEF Good

-----------------------------------------------------------------------------
(* The steps of the process, the channel and the broker.                   *)

(* What the end of a channel does with the jobs that it holds.             *)
LEMMA CloseChannelKeepsInv ==
  ASSUME Common, NEW j \in Job, Local(j), CloseChannel PROVE Common' /\ Local(j)'
<1> USE DEF CloseChannel, Requeue, Fault, Common
<1>1. Common'
  BY FaultAssumption DEF TypeOK, Alive
<1>2. PlaceInv(j)'
  BY DEF Local, PlaceInv, TypeOK, Kept, Alive, Enqueueing, Working
<1>3. CopyInv(j)'
  BY DEF Local, PlaceInv, CopyInv, Open, TypeOK, Kept, Alive, Enqueueing, Working
<1>4. AccountedOf(j)'
  BY DEF Local, AccountedOf, TypeOK, Kept
<1>5. QED
  BY <1>1, <1>2, <1>3, <1>4 DEF Local

LEMMA DieKeepsInv ==
  ASSUME Common, NEW j \in Job, Local(j), Die(InHand), faults' \in 0 .. MaxFaults
  PROVE  Common' /\ Local(j)'
<1> USE DEF Die, InHand, Requeue, Common
<1>1. Common'
  BY DEF TypeOK, Alive, Enqueueing, Working
<1>2. PlaceInv(j)'
  BY DEF Local, PlaceInv, TypeOK, Kept, Alive, Enqueueing, Working
<1>3. CopyInv(j)'
  BY DEF Local, PlaceInv, CopyInv, Open, TypeOK, Kept, Alive, Enqueueing, Working
<1>4. AccountedOf(j)'
  BY DEF Local, AccountedOf, TypeOK, Kept, Enqueueing
<1>5. QED
  BY <1>1, <1>2, <1>3, <1>4 DEF Local

(* Opening the channel, setting up a consumer and starting the process     *)
(* move no job.                                                            *)
LEMMA StartKeepsInv ==
  ASSUME Common, NEW j \in Job, Local(j), Connect \/ SetupConsumer \/ Restart
  PROVE  Common' /\ Local(j)'
<1> USE DEF Connect, SetupConsumer, Restart, broker, history, Common
<1>1. Common'
  BY DEF TypeOK, Alive
<1>2. PlaceInv(j)'
  BY DEF Local, PlaceInv, TypeOK, Kept, Alive, Enqueueing, Working
<1>3. CopyInv(j)'
  BY DEF Local, CopyInv, Open
<1>4. AccountedOf(j)'
  BY DEF Local, AccountedOf, Kept
<1>5. QED
  BY <1>1, <1>2, <1>3, <1>4 DEF Local

(* No step breaks the invariant.                                           *)
LEMMA NextKeepsInv == Inv /\ [Next]_vars => Inv'
<1> SUFFICES ASSUME Inv, [Next]_vars PROVE Inv'
  OBVIOUS
<1>1. Common /\ \A j \in Job : Local(j)
  BY InvIsLocal
<1>2. (Inv <=> Common /\ \A k \in Job : Local(k))'
  BY DEF Inv, Accounted, Common, Local, AccountedOf, Kept
<1>3. ASSUME NEW j \in Job, Enqueue(j) \/ Produce(j) \/ Publish(j) \/ Consume(j)
      PROVE  Inv'
  <2>1. Good(j)
    BY <1>1, <1>3, EnqueueGood, SendGood, InlineGood, MailGood, PublishGood, DeliverGood,
       AlertGood, PerformGood, FinishGood DEF Produce, Consume
  <2>2. QED
    BY <2>1, GoodKeepsInv
<1>4. CASE CloseChannel
  <2>1. Common'
    BY <1>1, <1>4, FaultAssumption DEF CloseChannel, Requeue, Fault, Common, TypeOK, Alive
  <2>2. QED
    BY <1>1, <1>2, <1>4, <2>1, CloseChannelKeepsInv
<1>5. CASE Crash \/ Exit \/ FailToConnect
  <2>1. Die(InHand) /\ faults' \in 0 .. MaxFaults
    BY <1>1, <1>5, FaultAssumption
       DEF Crash, Exit, FailToConnect, Fault, Common, TypeOK
  <2>2. Common'
    BY <1>1, <2>1
       DEF Die, InHand, Requeue, Common, TypeOK, Alive, Enqueueing, Working
  <2>3. QED
    BY <1>1, <1>2, <2>1, <2>2, DieKeepsInv
<1>6. CASE Connect \/ SetupConsumer \/ Restart
  <2>1. Common'
    BY <1>1, <1>6
       DEF Connect, SetupConsumer, Restart, broker, history, Common, TypeOK, Alive
  <2>2. QED
    BY <1>1, <1>2, <1>6, <2>1, StartKeepsInv
<1>7. CASE UNCHANGED vars
  <2>1. Common'
    BY <1>1, <1>7 DEF vars, broker, history, Common, TypeOK, Alive
  <2>2. ASSUME NEW j \in Job PROVE Local(j)'
    BY <1>1, <1>7, Frame DEF vars, broker, history, Untouched, Alive
  <2>3. QED
    BY <1>2, <2>1, <2>2
<1>8. QED
  BY <1>3, <1>4, <1>5, <1>6, <1>7 DEF Next

(* Every job is in one place, and may take place again only where it has   *)
(* not taken place or has been put back.                                   *)
THEOREM InvHolds == Spec => []Inv
BY InitInv, NextKeepsInv, PTL DEF Spec

(* No job whose enqueue has returned is forgotten.                         *)
THEOREM NothingForgotten == Spec => []Accounted
<1>1. Inv => Accounted
  BY DEF Inv
<1>2. QED
  BY <1>1, InvHolds, PTL

(* A job takes place at most once more than it was put back.               *)
THEOREM CopiesAreBounded == Spec => []NoNeedlessCopies
<1>1. Inv => NoNeedlessCopies
  BY DEF Inv, CopyInv, NoNeedlessCopies
<1>2. QED
  BY <1>1, InvHolds, PTL

-----------------------------------------------------------------------------
(* The refinement of Jobs.                                                 *)
asked == {j \in Job : pc[j] # "new"}
done == {j \in Job : copies[j] > 0}

(* The queues start with nothing asked for, done or given up.              *)
LEMMA InitIsInit == Init => Promise!Init
BY DEF Init, Promise!Init

(* A step that does not do a job, and asks for or gives up nothing, is a   *)
(* stutter.                                                                *)
LEMMA Stutters ==
  ASSUME asked' = asked, done' = done, dropped' = dropped
  PROVE  [Promise!Next]_<<asked, done, dropped>>
OBVIOUS

LEMMA DropIsDrop ==
  ASSUME asked' = asked, done' = done, NEW lost \in SUBSET asked, dropped' = dropped \cup lost
  PROVE  [Promise!Next]_<<asked, done, dropped>>
<1>1. lost \in SUBSET Job
  BY DEF asked
<1>2. Promise!Drop(lost)
  BY DEF Promise!Drop, asked, done
<1>3. QED
  BY <1>1, <1>2 DEF Promise!Next

LEMMA DoIsDo ==
  ASSUME Inv, NEW j \in Job, j \in asked, j \notin dropped, asked' = asked, Effect(j),
         dropped' \in {dropped, dropped \cup {j}}
  PROVE  [Promise!Next]_<<asked, done, dropped>>
<1>1. done' = done \cup {j}
  BY DEF Inv, TypeOK, Effect, done
<1>2. CASE dropped' = dropped
  <2>1. Promise!Do(j)
    BY <1>1, <1>2 DEF Promise!Do, asked, done
  <2>2. QED
    BY <2>1 DEF Promise!Next
<1>3. CASE dropped' = dropped \cup {j}
  <2>1. Promise!DoAndDrop(j)
    BY <1>1, <1>3 DEF Promise!DoAndDrop, asked, done
  <2>2. QED
    BY <2>1 DEF Promise!Next
<1>4. QED
  BY <1>2, <1>3

(* Handing a job over is asking for it, or settles how it is done.         *)
LEMMA ProducersRefine ==
  ASSUME Inv, NEW j \in Job, Enqueue(j) \/ Produce(j)
  PROVE  [Promise!Next]_<<asked, done, dropped>>
<1> USE DEF broker, history
<1>1. TypeOK /\ PlaceInv(j)
  BY DEF Inv
<1>2. pc[j] \in {"mailing"} \cup Enqueueing => j \in asked /\ j \notin dropped
  BY <1>1 DEF PlaceInv, asked, Enqueueing
<1>3. CASE Enqueue(j)
  <2>1. asked' = asked \cup {j} /\ j \notin asked
    BY <1>1, <1>3 DEF Enqueue, Goto, TypeOK, asked
  <2>2. Promise!Ask(j)
    BY <1>3, <2>1 DEF Promise!Ask, asked, done, Enqueue
  <2>3. QED
    BY <2>2 DEF Promise!Next
<1>4. ASSUME NEW next \in {"returned", "fallback", "mailing"}, Goto(j, next), pc[j] # "new"
      PROVE  asked' = asked
  BY <1>1, <1>4 DEF TypeOK, Goto, asked
<1>5. CASE Send(j)
  BY <1>4, <1>5, Stutters DEF Send, done
<1>6. CASE Inline(j)
  <2>1. pc[j] \in {"inline", "fallback"} /\ asked' = asked /\ j \in asked /\ j \notin dropped
    BY <1>2, <1>4, <1>6 DEF Inline, Failed, Enqueueing
  <2>2. dropped' \in {dropped, dropped \cup {j}}
    BY <1>6 DEF Inline, Failed
  <2>3. CASE Effect(j)
    BY <2>1, <2>2, <2>3, DoIsDo
  <2>4. CASE copies' = copies
    <3>1. done' = done
      BY <2>4 DEF done
    <3>2. {j} \in SUBSET asked
      BY <2>1
    <3>3. QED
      BY <2>1, <2>2, <3>1, <3>2, Stutters, DropIsDrop
  <2>5. QED
    BY <1>6, <2>3, <2>4 DEF Inline
<1>7. CASE Mail(j)
  <2>1. asked' = asked /\ j \in asked /\ j \notin dropped
    BY <1>2, <1>4, <1>7 DEF Mail
  <2>2. CASE Effect(j) /\ dropped' = dropped
    BY <2>1, <2>2, DoIsDo
  <2>3. CASE copies' = copies /\ dropped' = dropped \cup {j}
    <3>1. done' = done /\ {j} \in SUBSET asked
      BY <2>1, <2>3 DEF done
    <3>2. QED
      BY <2>1, <2>3, <3>1, DropIsDrop
  <2>4. QED
    BY <1>7, <2>2, <2>3 DEF Mail
<1>8. QED
  BY <1>3, <1>5, <1>6, <1>7 DEF Produce

(* A consumer does a job that was asked for and has not been given up.     *)
LEMMA ConsumersRefine ==
  ASSUME Inv, NEW j \in Job, Publish(j) \/ Consume(j)
  PROVE  [Promise!Next]_<<asked, done, dropped>>
<1> USE DEF broker, history
<1>1. TypeOK /\ PlaceInv(j)
  BY DEF Inv
<1>2. pc' = pc /\ asked' = asked
  BY DEF Publish, Consume, Deliver, processTransactionAlert, Perform, Finish, Settle, asked
<1>3. work[j] # "idle" => j \in asked /\ j \notin dropped
  BY <1>1 DEF PlaceInv, Kept, asked
<1>4. CASE Publish(j) \/ Deliver(j)
  BY <1>2, <1>4, Stutters DEF Publish, Deliver, done
<1>5. CASE processTransactionAlert(j)
  <2>1. Effect(j) /\ dropped' = dropped /\ work[j] # "idle"
    BY <1>5 DEF processTransactionAlert, Settle
  <2>2. QED
    BY <1>2, <1>3, <2>1, DoIsDo
<1>6. CASE Perform(j)
  <2>1. work[j] # "idle" /\ dropped' = dropped
    BY <1>6 DEF Perform
  <2>2. CASE Effect(j)
    BY <1>2, <1>3, <2>1, <2>2, DoIsDo
  <2>3. CASE copies' = copies
    BY <1>2, <2>1, <2>3, Stutters DEF done
  <2>4. QED
    BY <1>6, <2>2, <2>3 DEF Perform
<1>7. CASE Finish(j)
  <2>1. done' = done /\ {j} \in SUBSET asked
    BY <1>3, <1>7 DEF Finish, done
  <2>2. dropped' \in {dropped, dropped \cup {j}}
    BY <1>7 DEF Finish, Settle
  <2>3. QED
    BY <1>2, <2>1, <2>2, Stutters, DropIsDrop
<1>8. QED
  BY <1>4, <1>5, <1>6, <1>7 DEF Consume

(* What holds jobs breaks, and gives them up together.                     *)
LEMMA FaultsRefine ==
  ASSUME Inv, CloseChannel \/ Crash \/ Exit \/ FailToConnect
  PROVE  [Promise!Next]_<<asked, done, dropped>>
<1>1. TypeOK /\ \A j \in Job : PlaceInv(j)
  BY DEF Inv
<1>2. buffer \in SUBSET asked
  BY <1>1 DEF TypeOK, PlaceInv, Kept, asked
<1>3. InHand \in SUBSET asked
  BY DEF InHand, asked, Enqueueing
<1>4. CASE CloseChannel
  BY <1>2, <1>4, DropIsDrop DEF CloseChannel, asked, done
<1>5. CASE Die(InHand)
  <2>1. asked' = asked
    BY <1>1, <1>5 DEF Die, TypeOK, asked, Enqueueing
  <2>2. done' = done /\ dropped' = dropped \cup (buffer \cup InHand)
    BY <1>5 DEF Die, done
  <2>3. buffer \cup InHand \in SUBSET asked
    BY <1>2, <1>3
  <2>4. QED
    BY <2>1, <2>2, <2>3, DropIsDrop
<1>6. QED
  BY <1>4, <1>5 DEF Crash, Exit, FailToConnect

(* The queues do what Jobs promises: a job is done only when it was asked  *)
(* for, and never after it was given up.                                   *)
THEOREM JobsImplemented == Spec => ImplementsJobs
<1>1. Inv /\ [Next]_vars => [Promise!Next]_<<asked, done, dropped>>
  <2> SUFFICES ASSUME Inv, [Next]_vars PROVE [Promise!Next]_<<asked, done, dropped>>
    OBVIOUS
  <2>1. CASE \E j \in Job : Enqueue(j) \/ Produce(j) \/ Publish(j) \/ Consume(j)
    BY <2>1, ProducersRefine, ConsumersRefine
  <2>2. CASE CloseChannel \/ Crash \/ Exit \/ FailToConnect
    BY <2>2, FaultsRefine
  <2>3. CASE Connect \/ SetupConsumer \/ Restart \/ UNCHANGED vars
    BY <2>3, Stutters
       DEF Connect, SetupConsumer, Restart, vars, broker, history, asked, done
  <2>4. QED
    BY <2>1, <2>2, <2>3 DEF Next
<1>2. Promise!Spec <=> Promise!Init /\ [][Promise!Next]_<<asked, done, dropped>>
  BY PTL DEF Promise!Spec, asked, done
<1>3. QED
  BY <1>1, <1>2, InvHolds, InitIsInit, PTL DEF Spec, ImplementsJobs
=============================================================================
