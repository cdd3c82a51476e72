--------------------------------- MODULE Queue ---------------------------------
(***************************************************************************)
(* utils/queue.js and config/rabbitmq.js: handlers hand alerts, chat       *)
(* messages, mails and audit entries to four RabbitMQ queues, or do them   *)
(* inline when there is no channel; consumers in the same process do the   *)
(* jobs and acknowledge them. server.js starts the process, and ends it    *)
(* when a promise is rejected or an exception is not caught; Docker starts *)
(* it again. The broker is external: its queues are durable, it delivers   *)
(* again what was not acknowledged when its channel ended.                 *)
(***************************************************************************)
EXTENDS Naturals, FiniteSets

CONSTANTS
  Job,        \* the jobs handlers may enqueue
  Kind,       \* Kind[j]: the kind of j
  Bad,        \* the jobs that can never be done: text that the schema refuses
  MaxFaults   \* bound: how many faults happen

Kinds == {"alert", "chat", "email", "audit"}
ASSUME KindAssumption == Kind \in [Job -> Kinds]
ASSUME BadAssumption == Bad \subseteq {j \in Job : Kind[j] = "chat"}
ASSUME FaultAssumption == MaxFaults \in Nat

VARIABLES
  process,    \* "up", "closing" (rejected promise, connections are awaited), "down"
  channel,    \* "none", "open", "closed"
  setup,      \* the consumers that are still to be set up
  pc,         \* pc[j]: what enqueue does next for j
  buffer,     \* jobs sent on the channel that the broker has not got yet
  queue,      \* jobs that wait in the broker's queues
  unacked,    \* jobs delivered on the channel and not acknowledged
  work,       \* work[j]: what the consumer does next with j
  copies,     \* history: how often the effect of j took place
  again,      \* history: how often j was delivered again, or retried after it took place
  dropped,    \* history: the jobs that were given up, by a fault or because they are bad
  faults

broker == <<buffer, queue, unacked>>
history == <<copies, again, dropped>>
vars == <<process, channel, setup, pc, broker, work, history, faults>>

Enqueueing == {"assert", "inline", "fallback"}
Working == {"perform", "ack", "nack"}
Alive == process \in {"up", "closing"}

Init ==
  /\ process = "up" /\ channel = "none" /\ setup = Kinds
  /\ pc = [j \in Job |-> "new"]
  /\ buffer = {} /\ queue = {} /\ unacked = {}
  /\ work = [j \in Job |-> "idle"]
  /\ copies = [j \in Job |-> 0] /\ again = [j \in Job |-> 0] /\ dropped = {}
  /\ faults = 0

Fault == faults < MaxFaults /\ faults' = faults + 1

-----------------------------------------------------------------------------
(* Producers: enqueueTransactionAlert, enqueueChatMessage, enqueueEmail and *)
(* enqueueAuditLog.                                                        *)

(* Emitting to a room of sockets and starting a mail never throw; what     *)
(* MongoDB is asked to create may fail.                                    *)
Stored(j) == Kind[j] \in {"chat", "audit"}

Goto(j, next) == pc' = [pc EXCEPT ![j] = next]
Effect(j) == copies' = [copies EXCEPT ![j] = @ + 1]

Enqueue(j) ==
  /\ Alive /\ pc[j] = "new"
  /\ Goto(j, CASE channel = "none"   -> "inline"
               [] channel = "open"   -> "assert"
               [] channel = "closed" -> "fallback")
  /\ UNCHANGED <<process, channel, setup, broker, work, history, faults>>

(* Mutant: the fallback runs after the job was sent, too.                  *)
SendAndFallBack(j) ==
  /\ Alive /\ pc[j] = "assert"
  /\ IF channel = "open"
     THEN buffer' = buffer \cup {j} /\ Goto(j, "fallback")
     ELSE Goto(j, "fallback") /\ UNCHANGED buffer
  /\ UNCHANGED <<process, channel, setup, queue, unacked, work, history, faults>>

(* assertQueue is answered and sendToQueue writes to the channel; a closed *)
(* channel rejects.                                                        *)
Send(j) ==
  /\ Alive /\ pc[j] = "assert"
  /\ IF channel = "open"
     THEN buffer' = buffer \cup {j} /\ Goto(j, "returned")
     ELSE Goto(j, "fallback") /\ UNCHANGED buffer
  /\ UNCHANGED <<process, channel, setup, queue, unacked, work, history, faults>>

(* The two inline branches differ in what a failure leads to: the one for  *)
(* a missing channel falls into the catch block, and so is tried again;    *)
(* the catch block only logs. A mail is sent by a promise of its own.      *)
Failed(j) ==
  IF pc[j] = "inline"
  THEN Goto(j, "fallback") /\ UNCHANGED dropped
  ELSE Goto(j, "returned") /\ dropped' = dropped \cup {j}

Inline(j) ==
  /\ Alive /\ pc[j] \in {"inline", "fallback"}
  /\ \/ /\ j \notin Bad /\ Kind[j] # "email"
        /\ Effect(j) /\ Goto(j, "returned")
        /\ UNCHANGED <<again, dropped, faults>>
     \/ /\ Kind[j] = "email" /\ Goto(j, "mailing")
        /\ UNCHANGED <<history, faults>>
     \/ /\ Stored(j) /\ ((j \in Bad /\ UNCHANGED faults) \/ Fault)
        /\ Failed(j) /\ UNCHANGED <<copies, again>>
     \/ /\ Stored(j) /\ j \notin Bad /\ Fault
        /\ Failed(j) /\ Effect(j)
        /\ again' = [again EXCEPT ![j] = @ + IF pc[j] = "inline" THEN 1 ELSE 0]
  /\ UNCHANGED <<process, channel, setup, broker, work>>

(* Mutant: a mail that was reported as failed is tried again.               *)
MailAgain(j) ==
  /\ Alive /\ pc[j] = "mailing"
  /\ \/ Goto(j, "returned") /\ Effect(j) /\ UNCHANGED <<again, dropped, faults>>
     \/ Fault /\ dropped' = dropped \cup {j} /\ UNCHANGED <<pc, copies, again>>
  /\ UNCHANGED <<process, channel, setup, broker, work>>

(* sendWelcomeMail or sendOTPMail, started by a handler that has returned.  *)
Mail(j) ==
  /\ Alive /\ pc[j] = "mailing"
  /\ Goto(j, "returned")
  /\ \/ Effect(j) /\ UNCHANGED <<again, dropped, faults>>
     \/ Fault /\ dropped' = dropped \cup {j} /\ UNCHANGED <<copies, again>>
  /\ UNCHANGED <<process, channel, setup, broker, work>>

-----------------------------------------------------------------------------
(* The broker and the consumers of startQueueWorker.                       *)

Consuming == IF channel = "open" THEN Kinds \ setup ELSE {}

Connect ==
  /\ Alive /\ channel = "none"
  /\ channel' = "open"
  /\ UNCHANGED <<process, setup, pc, broker, work, history, faults>>

(* The four consumers are set up one after the other.                      *)
Order == <<"alert", "chat", "email", "audit">>
SetupConsumer ==
  /\ Alive /\ channel = "open"
  /\ \E i \in 1 .. 4 :
       /\ Order[i] \in setup /\ \A k \in 1 .. i - 1 : Order[k] \notin setup
       /\ setup' = setup \ {Order[i]}
  /\ UNCHANGED <<process, channel, pc, broker, work, history, faults>>

Publish(j) ==
  /\ channel = "open" /\ j \in buffer
  /\ buffer' = buffer \ {j} /\ queue' = queue \cup {j}
  /\ UNCHANGED <<process, channel, setup, pc, unacked, work, history, faults>>

(* No prefetch is set: every job that waits is delivered, whatever the     *)
(* consumer has still to do.                                               *)
Deliver(j) ==
  /\ Kind[j] \in Consuming /\ j \in queue
  /\ queue' = queue \ {j} /\ unacked' = unacked \cup {j}
  /\ work' = [work EXCEPT ![j] = "perform"]
  /\ UNCHANGED <<process, channel, setup, pc, buffer, history, faults>>

(* Mutant: a failed job is put back into its queue.                        *)
SettleByRequeue(j, ok) ==
  /\ work' = [work EXCEPT ![j] = "idle"]
  /\ IF channel = "open"
     THEN /\ unacked' = unacked \ {j}
          /\ queue' = IF ok THEN queue ELSE queue \cup {j}
          /\ UNCHANGED <<process, dropped>>
     ELSE process' = "closing" /\ UNCHANGED <<unacked, queue, dropped>>
  /\ UNCHANGED <<channel, setup, pc, buffer, again>>

(* ack, or nack without requeueing. On a closed channel ack throws into    *)
(* the catch block, whose nack throws again: the promise is rejected.      *)
Settle(j, ok) ==
  /\ work' = [work EXCEPT ![j] = "idle"]
  /\ IF channel = "open"
     THEN /\ unacked' = unacked \ {j}
          /\ dropped' = IF ok THEN dropped ELSE dropped \cup {j}
          /\ UNCHANGED process
     ELSE process' = "closing" /\ UNCHANGED <<unacked, dropped>>
  /\ UNCHANGED <<channel, setup, pc, buffer, queue, again>>

(* An alert is emitted and acknowledged without waiting for anything.      *)
processTransactionAlert(j) ==
  /\ Alive /\ work[j] = "perform" /\ Kind[j] = "alert"
  /\ Effect(j) /\ Settle(j, TRUE)
  /\ UNCHANGED faults

(* processChatMessage, processAuditLog and processEmail wait for MongoDB   *)
(* or for the mail server.                                                 *)
Perform(j) ==
  /\ Alive /\ work[j] = "perform" /\ Kind[j] # "alert"
  /\ \/ /\ j \notin Bad /\ Effect(j)
        /\ work' = [work EXCEPT ![j] = "ack"] /\ UNCHANGED faults
     \/ /\ j \in Bad /\ work' = [work EXCEPT ![j] = "nack"]
        /\ UNCHANGED <<copies, faults>>
     \/ /\ Fault /\ work' = [work EXCEPT ![j] = "nack"]
        /\ (UNCHANGED copies \/ (j \notin Bad /\ Effect(j)))
  /\ UNCHANGED <<process, channel, setup, pc, broker, again, dropped>>

(* What follows the await: the chat message is emitted to its room and to  *)
(* its receiver, and the job is settled.                                   *)
Finish(j) ==
  /\ Alive /\ work[j] \in {"ack", "nack"}
  /\ Settle(j, work[j] = "ack")
  /\ UNCHANGED <<copies, faults>>

-----------------------------------------------------------------------------
(* Mutant: jobs are acknowledged automatically, when they are delivered.   *)
RequeueNothing ==
  /\ queue' = queue /\ unacked' = {} /\ buffer' = {}
  /\ again' = again

(* Faults. The broker puts back what was not acknowledged; what it had not *)
(* got is lost.                                                            *)
Requeue ==
  /\ queue' = queue \cup unacked /\ unacked' = {} /\ buffer' = {}
  /\ again' = [j \in Job |-> IF j \in unacked THEN again[j] + 1 ELSE again[j]]

(* The broker shuts down in order: the channel closes, nobody listens for  *)
(* it, and nobody opens another.                                           *)
CloseChannel ==
  /\ Alive /\ channel = "open" /\ Fault
  /\ channel' = "closed" /\ Requeue
  /\ dropped' = dropped \cup buffer
  /\ UNCHANGED <<process, setup, pc, work, copies>>

Die(lost) ==
  /\ process' = "down" /\ channel' = "none" /\ setup' = Kinds
  /\ pc' = [j \in Job |-> IF pc[j] \in Enqueueing \cup {"mailing"} THEN "lost" ELSE pc[j]]
  /\ work' = [j \in Job |-> "idle"]
  /\ dropped' = dropped \cup buffer \cup lost
  /\ UNCHANGED copies
  /\ Requeue

InHand == {j \in Job : pc[j] \in Enqueueing \cup {"mailing"}}

(* The process dies, or the connection breaks, which nobody listens for    *)
(* either: an uncaught exception.                                          *)
Crash == Alive /\ Fault /\ Die(InHand)

(* server.close calls back when the last connection has ended.             *)
Exit == process = "closing" /\ Die(InHand) /\ UNCHANGED faults

(* connectRabbitMQ gives up.                                               *)
FailToConnect == Alive /\ channel = "none" /\ Fault /\ Die(InHand)

Restart ==
  /\ process = "down" /\ process' = "up"
  /\ UNCHANGED <<channel, setup, pc, broker, work, history, faults>>

-----------------------------------------------------------------------------
Produce(j) == Send(j) \/ Inline(j) \/ Mail(j)
Consume(j) == Deliver(j) \/ processTransactionAlert(j) \/ Perform(j) \/ Finish(j)

Next ==
  \/ \E j \in Job : Enqueue(j) \/ Produce(j) \/ Publish(j) \/ Consume(j)
  \/ Connect \/ SetupConsumer \/ CloseChannel \/ Crash \/ Exit \/ FailToConnect \/ Restart

Spec == Init /\ [][Next]_vars

(* Node goes on with what it has begun, the broker delivers, Docker starts *)
(* the process again. Nothing makes the browsers let go of a server that   *)
(* is closing.                                                             *)
Fairness ==
  /\ \A j \in Job : WF_vars(Produce(j) \/ Publish(j) \/ Consume(j))
  /\ WF_vars(Connect \/ SetupConsumer \/ Restart)

FairSpec == Spec /\ Fairness

-----------------------------------------------------------------------------
TypeOK ==
  /\ process \in {"up", "closing", "down"}
  /\ channel \in {"none", "open", "closed"}
  /\ setup \in SUBSET Kinds
  /\ pc \in [Job -> {"new", "mailing", "returned", "lost"} \cup Enqueueing]
  /\ buffer \in SUBSET Job /\ queue \in SUBSET Job /\ unacked \in SUBSET Job
  /\ work \in [Job -> {"idle"} \cup Working]
  /\ copies \in [Job -> Nat] /\ again \in [Job -> Nat]
  /\ dropped \in SUBSET Job
  /\ faults \in 0 .. MaxFaults

(* Nothing is forgotten: a job whose enqueue has returned took place, is   *)
(* kept by the broker or the channel, or was given up because of a fault   *)
(* or because it can never be done.                                        *)
Accounted ==
  \A j \in Job : pc[j] = "returned" =>
    \/ copies[j] > 0
    \/ j \in buffer \cup queue \cup unacked \cup dropped

(* A job takes place once, and once more only for each time it had to be   *)
(* delivered or tried again: never both inline and by a consumer.          *)
NoNeedlessCopies == \A j \in Job : copies[j] <= 1 + again[j]

(* Every job leaves the queues in the end, done or given up, unless the    *)
(* channel was closed under the process: then the jobs that wait stay, for *)
(* as long as the process lives. A job that cannot be done does not go     *)
(* round for ever.                                                         *)
QueuesDrain ==
  \/ <>[](channel = "closed")
  \/ \A j \in Job : []<>(j \notin buffer \cup queue \cup unacked)

(* The queues implement Jobs: a job is done only when asked for, and never *)
(* after it was given up.                                                  *)
Promise == INSTANCE Jobs WITH asked <- {j \in Job : pc[j] # "new"},
                              done <- {j \in Job : copies[j] > 0}
ImplementsJobs == Promise!Spec

-----------------------------------------------------------------------------
(***************************************************************************)
(* Why it works: a job is in one place, and it may take place once more    *)
(* only where it has not taken place yet or has been put back.             *)
(***************************************************************************)
Kept(j) == j \in buffer \cup queue \cup unacked

(* Whether j may still take place.                                         *)
Open(j) ==
  \/ pc[j] \in {"new", "mailing"} \cup Enqueueing
  \/ j \in buffer \cup queue
  \/ j \in unacked /\ work[j] = "perform"

PlaceInv(j) ==
  /\ j \in buffer => j \notin queue \cup unacked
  /\ j \in unacked => j \notin queue /\ channel = "open" /\ work[j] \in Working
  /\ Kept(j) => pc[j] = "returned" /\ j \notin dropped
  /\ work[j] # "idle" => /\ Alive
                         /\ IF channel = "open" THEN j \in unacked
                            ELSE channel = "closed" /\ j \in queue
  /\ work[j] = "ack" => copies[j] > 0
  /\ pc[j] \in {"new", "mailing"} \cup Enqueueing => j \notin dropped
  /\ pc[j] = "new" => copies[j] = 0
  /\ pc[j] \in {"mailing"} \cup Enqueueing => Alive

(* How often j took place, against how often it was put back.              *)
CopyInv(j) ==
  /\ Open(j) => copies[j] <= again[j]
  /\ j \in queue /\ work[j] = "perform" => copies[j] < again[j]
  /\ copies[j] <= 1 + again[j]

Inv ==
  /\ TypeOK
  /\ channel # "none" => Alive
  /\ Accounted
  /\ \A j \in Job : PlaceInv(j) /\ CopyInv(j)
=============================================================================
