----------------------------- MODULE TaskDelivery -----------------------------
(***************************************************************************)
(* Delivery of coordinator tasks over RabbitMQ: publishing (internal/mds/  *)
(* mq/rabbitmq_producer.go), the consumers that every metadata process     *)
(* runs (orchestrator.go, consumer_*.go), their idempotency tables, and    *)
(* the retry and dead-letter queues (internal/platform/mq/rabbitmq).       *)
(*                                                                         *)
(* Each process has one consumer for each task queue, which handles one    *)
(* delivery after the other.  The operators of this module are the steps   *)
(* that do not depend on the task; the module that extends it adds what    *)
(* the executors do between Handle and Complete or Fail.                   *)
(***************************************************************************)
EXTENDS Integers, FiniteSets

CONSTANTS
    Processes,    \* the metadata processes
    None,         \* no node, no plan
    MaxMessages,  \* bound: tasks that are ever published
    MaxAttempts   \* retry.Policy.MaxAttempts

ASSUME DeliveryAssumption ==
    MaxMessages \in Nat /\ MaxAttempts \in Nat \ {0}

VARIABLES
    task,      \* the payloads that were published, by EventID
    queue,     \* how many copies of an envelope the task queues hold
    retrying,  \* likewise for the retry queues
    dead,      \* the EventIDs in the dead-letter queues
    worker,    \* what the consumer of a process for a queue is doing
    claimed,   \* the idempotency tables: idempotency.MemoryStore.entries
    finished,  \* history: the EventIDs that were executed without an error
    runs,      \* history: how often a process executed one without an error
               \*   since it last forgot its claim
    failures   \* history: how often its execution failed, up to MaxAttempts

broker == <<task, queue, retrying, dead>>
consumers == <<worker, claimed>>
history == <<finished, runs, failures>>
delivery == <<task, queue, retrying, dead, worker, claimed, finished, runs, failures>>

-----------------------------------------------------------------------------
Kinds == {"repair", "cleanup", "rebalance", "failover"}

EventIDs == 1..MaxMessages

\* A retried task keeps its EventID and counts its attempts.
Envelope == [id : EventIDs, attempt : 1..MaxAttempts]

\* plan is 0 in a repair task, which names the nodes instead.
NoTask == [kind |-> "none", plan |-> 0, source |-> None, target |-> None]

NoEnvelope == [id |-> 0, attempt |-> 0]

IdleWorker == [pc |-> "idle", msg |-> NoEnvelope, source |-> None, ok |-> FALSE]

DeliveryInit ==
    /\ task = [id \in EventIDs |-> NoTask]
    /\ queue = [m \in Envelope |-> 0]
    /\ retrying = [m \in Envelope |-> 0]
    /\ dead = {}
    /\ worker = [w \in Processes \X Kinds |-> IdleWorker]
    /\ claimed = [p \in Processes |-> {}]
    /\ finished = {}
    /\ runs = [p \in Processes |-> [id \in EventIDs |-> 0]]
    /\ failures = [id \in EventIDs |-> 0]

-----------------------------------------------------------------------------
\* The ids are random; here they are taken in order.
newEnvelopeID(id) ==
    /\ task[id] = NoTask
    /\ \A j \in 1..(id - 1) : task[j] # NoTask

\* publishTask gives every task a fresh EventID, also one that was published
\* before.  The channel is in confirm mode but no confirmation is waited for.
publishTask(t) ==
    /\ \E id \in EventIDs :
          /\ newEnvelopeID(id)
          /\ task' = [task EXCEPT ![id] = t]
          /\ queue' = [queue EXCEPT ![[id |-> id, attempt |-> 1]] = 1]
    /\ UNCHANGED <<retrying, dead, consumers, history>>

\* The queues that a task is routed to are those of its type.
Bound(m, kind) == task[m.id].kind = kind

\* Every envelope has an EventID, so the key is never made from the plan or the
\* MessageID.
KeyForEnvelope(m) == m.id

\* Mutant: the idempotency table is not asked.
HandleUnclaimed(w, m) ==
    /\ worker[w].pc = "idle"
    /\ queue[m] > 0
    /\ Bound(m, w[2])
    /\ queue' = [queue EXCEPT ![m] = @ - 1]
    /\ worker' = [worker EXCEPT ![w] = [IdleWorker EXCEPT !.pc = "start", !.msg = m]]
    /\ claimed' = [claimed EXCEPT ![w[1]] = @ \cup {KeyForEnvelope(m)}]
    /\ UNCHANGED <<task, retrying, dead, history>>

\* Handle up to the executor: decodeTaskDelivery and Claim.  A task that the
\* process has claimed before, and has not forgotten since, is acknowledged and
\* left at that.
Handle(w, m) ==
    /\ worker[w].pc = "idle"
    /\ queue[m] > 0
    /\ Bound(m, w[2])
    /\ queue' = [queue EXCEPT ![m] = @ - 1]
    /\ IF KeyForEnvelope(m) \in claimed[w[1]]
       THEN UNCHANGED consumers
       ELSE /\ worker' = [worker EXCEPT ![w] = [IdleWorker EXCEPT !.pc = "start", !.msg = m]]
            /\ claimed' = [claimed EXCEPT ![w[1]] = @ \cup {KeyForEnvelope(m)}]
    /\ UNCHANGED <<task, retrying, dead, history>>

\* The executor goes on.
Step(w, state) ==
    /\ worker' = [worker EXCEPT ![w] = state]
    /\ UNCHANGED <<broker, claimed, history>>

\* Mutant: the claim is not renewed, although it may have expired meanwhile.
CompleteUnclaimed(w) ==
    LET id == worker[w].msg.id IN
    /\ worker' = [worker EXCEPT ![w].pc = "acking"]
    /\ finished' = finished \cup {id}
    /\ runs' = [runs EXCEPT ![w[1]][id] = @ + 1]
    /\ UNCHANGED <<broker, claimed, failures>>

\* The executor returned no error: Complete puts the claim down again, for another
\* time to live, and what is left is the acknowledgement.
Complete(w) ==
    LET id == worker[w].msg.id IN
    /\ worker' = [worker EXCEPT ![w].pc = "acking"]
    /\ finished' = finished \cup {id}
    /\ runs' = [runs EXCEPT ![w[1]][id] = @ + 1]
    /\ claimed' = [claimed EXCEPT ![w[1]] = @ \cup {KeyForEnvelope(worker[w].msg)}]
    /\ UNCHANGED <<broker, failures>>

\* The executor returned an error: the claim is released, so that the same task
\* can be tried again.
Fail(w) ==
    LET id == worker[w].msg.id IN
    /\ worker' = [worker EXCEPT ![w].pc = "failed"]
    /\ claimed' = [claimed EXCEPT ![w[1]] = @ \ {KeyForEnvelope(worker[w].msg)}]
    /\ failures' = [failures EXCEPT ![id] = IF @ < MaxAttempts THEN @ + 1 ELSE @]
    /\ UNCHANGED <<broker, finished, runs>>

\* Ten minutes after Claim or Complete the entry counts for nothing, and the next
\* Claim of the process prunes it, whether its task is done, running or on its way
\* back.
ClaimExpires(p, id) ==
    /\ id \in claimed[p]
    /\ claimed' = [claimed EXCEPT ![p] = @ \ {id}]
    /\ runs' = [runs EXCEPT ![p][id] = 0]
    /\ UNCHANGED <<broker, worker, finished, failures>>

NextAttempt(m) == [m EXCEPT !.attempt = @ + 1]

\* Mutant: the failed delivery is acknowledged before the task is routed on.
AckBeforeRoute(w) ==
    /\ worker[w].pc = "failed"
    /\ worker' = [worker EXCEPT ![w] = IdleWorker]
    /\ UNCHANGED <<broker, claimed, history>>

\* Mutant: the last attempt is not made.
RouteEarly(w) ==
    LET m == worker[w].msg
    IN  /\ worker[w].pc = "failed"
        /\ IF m.attempt >= MaxAttempts - 1
           THEN dead' = dead \cup {m.id} /\ UNCHANGED retrying
           ELSE retrying' = [retrying EXCEPT ![NextAttempt(m)] = @ + 1] /\ UNCHANGED dead
        /\ worker' = [worker EXCEPT ![w].pc = "acking"]
        /\ UNCHANGED <<task, queue, claimed, history>>

\* processDeliveryFailure up to the acknowledgement: after MaxAttempts attempts
\* the task goes to the dead-letter queue, before that to the retry queue.
RouteFailure(w) ==
    LET m == worker[w].msg
    IN  /\ worker[w].pc = "failed"
        /\ IF m.attempt >= MaxAttempts
           THEN dead' = dead \cup {m.id} /\ UNCHANGED retrying
           ELSE retrying' = [retrying EXCEPT ![NextAttempt(m)] = @ + 1] /\ UNCHANGED dead
        /\ worker' = [worker EXCEPT ![w].pc = "acking"]
        /\ UNCHANGED <<task, queue, claimed, history>>

\* Ack, after a success or after the failed delivery was routed on.
Ack(w) ==
    /\ worker[w].pc = "acking"
    /\ worker' = [worker EXCEPT ![w] = IdleWorker]
    /\ UNCHANGED <<broker, claimed, history>>

\* The time to live of a retry queue ends and its dead-letter exchange is the
\* exchange of the task queues.
RetryExpires(m) ==
    /\ retrying[m] > 0
    /\ retrying' = [retrying EXCEPT ![m] = @ - 1]
    /\ queue' = [queue EXCEPT ![m] = @ + 1]
    /\ UNCHANGED <<task, dead, consumers, history>>

\* A process stops or crashes and starts again.  What it had not acknowledged is
\* delivered again, and its idempotency table is empty.
ProcessRestarts(p) ==
    LET Unacked(m) == \E k \in Kinds : worker[<<p, k>>].pc # "idle" /\ worker[<<p, k>>].msg = m IN
    /\ \E k \in Kinds : worker[<<p, k>>].pc # "idle"
    /\ worker' = [w \in Processes \X Kinds |-> IF w[1] = p THEN IdleWorker ELSE worker[w]]
    /\ queue' = [m \in Envelope |-> IF Unacked(m) THEN queue[m] + 1 ELSE queue[m]]
    /\ claimed' = [claimed EXCEPT ![p] = {}]
    /\ runs' = [runs EXCEPT ![p] = [id \in EventIDs |-> 0]]
    /\ UNCHANGED <<task, retrying, dead, finished, failures>>

-----------------------------------------------------------------------------
\* A copy of the task is somewhere on its way.
Outstanding(id) ==
    \/ \E m \in Envelope : m.id = id /\ (queue[m] > 0 \/ retrying[m] > 0)
    \/ \E w \in Processes \X Kinds : worker[w].pc # "idle" /\ worker[w].msg.id = id

\* A task that was published is not lost: until it has been executed without an
\* error or has come to the dead-letter queue, the broker or a consumer has it.
\* No order of failure, retry, acknowledgement and crash leaves a gap.
NoTaskLost ==
    \A id \in EventIDs :
        task[id] # NoTask => id \in finished \cup dead \/ Outstanding(id)

\* A task is dead-lettered only after MaxAttempts executions have failed.
DeadAfterRetries ==
    \A id \in dead : failures[id] = MaxAttempts

\* Until it forgets the claim, by a restart or after its time to live, a process
\* executes a task successfully once, however many copies of it are delivered and
\* even if the claim runs out during the execution.
OncePerClaim ==
    \A p \in Processes, id \in EventIDs : runs[p][id] <= 1
=============================================================================
