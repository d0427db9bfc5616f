-------------------------- MODULE ReplicaTasksProofs --------------------------
(***************************************************************************)
(* Theorems about ReplicaTasks for every number of processes, messages and *)
(* attempts: about the delivery of tasks first, then about the rows and    *)
(* the data that the executors change.                                     *)
(***************************************************************************)
EXTENDS ReplicaTasks, FiniteSetTheorems, TLAPS

Workers == Processes \X Kinds

Executing == {"start", "copy", "record", "mark", "remove"}

Executes(w, id) == worker[w].pc \in Executing /\ worker[w].msg.id = id

\* What every variable of the delivery looks like; a worker's source and ok are
\* the executors' business.
Shape ==
    /\ DOMAIN task = EventIDs
    /\ queue \in [Envelope -> Nat]
    /\ retrying \in [Envelope -> Nat]
    /\ dead \subseteq EventIDs
    /\ claimed \in [Processes -> SUBSET EventIDs]
    /\ runs \in [Processes -> [EventIDs -> Nat]]
    /\ failures \in [EventIDs -> 0..MaxAttempts]
    /\ DOMAIN worker = Workers
    /\ \A w \in Workers :
          /\ DOMAIN worker[w] = {"pc", "msg", "source", "ok"}
          /\ worker[w].pc \in Executing \cup {"idle", "failed", "acking"}
          /\ worker[w].pc # "idle" => worker[w].msg \in Envelope

\* A copy of a task that is at its n-th attempt has failed n - 1 times before,
\* and once more when its executor has returned an error.
Attempts ==
    /\ \A m \in Envelope : queue[m] > 0 \/ retrying[m] > 0 => m.attempt - 1 <= failures[m.id]
    /\ \A w \in Workers :
          /\ worker[w].pc # "idle" => worker[w].msg.attempt - 1 <= failures[worker[w].msg.id]
          /\ worker[w].pc = "failed" => worker[w].msg.attempt <= failures[worker[w].msg.id]
    /\ \A id \in dead : failures[id] = MaxAttempts

\* What the consumers of a process execute was not executed before, or that was
\* forgotten; the idempotency table has what they have executed, and nothing that
\* they have not begun.
Claims ==
    /\ \A w \in Workers : worker[w].pc \in Executing =>
          /\ runs[w[1]][worker[w].msg.id] = 0
          /\ task[worker[w].msg.id].kind = w[2]
    /\ \A p \in Processes, id \in EventIDs :
          /\ runs[p][id] <= 1
          /\ runs[p][id] # 0 => id \in claimed[p]
          /\ id \in claimed[p] => id \in finished \/ \E k \in Kinds : Executes(<<p, k>>, id)

\* A task is executed or dead, or somebody has it whose next step is not to
\* acknowledge it.
Held(id) ==
    \/ id \in finished \cup dead
    \/ \E m \in Envelope : m.id = id /\ (queue[m] > 0 \/ retrying[m] > 0)
    \/ \E w \in Workers : worker[w].pc \in Executing \cup {"failed"} /\ worker[w].msg.id = id

Covers == \A id \in EventIDs : task[id] # NoTask => Held(id)

DeliveryInv == Shape /\ Attempts /\ Claims /\ Covers

-----------------------------------------------------------------------------
(* What the steps of ReplicaTasks do to the delivery. *)

\* The executor of w goes on with its task.
Continues(w) ==
    /\ worker[w].pc \in Executing
    /\ \E state :
          /\ DOMAIN state = {"pc", "msg", "source", "ok"}
          /\ state.pc \in Executing
          /\ state.msg = worker[w].msg
          /\ Step(w, state)

Returns(w) == worker[w].pc \in Executing /\ (Complete(w) \/ Fail(w))

\* An executor's step goes on with the task, or returns.
LEMMA ExecutorSteps ==
    ASSUME Shape, NEW w \in Workers, Executor(w)
    PROVE  Continues(w) \/ Returns(w)
  <1>1. DOMAIN worker[w] = {"pc", "msg", "source", "ok"}
    BY DEF Shape
  <1>2. ASSUME NEW pc \in Executing, NEW s, worker[w].pc \in Executing,
               Step(w, [worker[w] EXCEPT !.pc = pc, !.source = s])
        PROVE  Continues(w)
    <2> DEFINE st == [worker[w] EXCEPT !.pc = pc, !.source = s]
    <2>1. DOMAIN st = {"pc", "msg", "source", "ok"} /\ st.pc = pc /\ st.msg = worker[w].msg
      BY <1>1
    <2> HIDE DEF st
    <2>2. Step(w, st)
      BY <1>2 DEF st
    <2>3. QED
      BY <1>2, <2>1, <2>2, Zenon DEF Continues
  <1>3. ASSUME NEW pc \in Executing, NEW ok, worker[w].pc \in Executing,
               Step(w, [worker[w] EXCEPT !.pc = pc, !.ok = ok])
        PROVE  Continues(w)
    <2> DEFINE st == [worker[w] EXCEPT !.pc = pc, !.ok = ok]
    <2>1. DOMAIN st = {"pc", "msg", "source", "ok"} /\ st.pc = pc /\ st.msg = worker[w].msg
      BY <1>1
    <2> HIDE DEF st
    <2>2. Step(w, st)
      BY <1>3 DEF st
    <2>3. QED
      BY <1>3, <2>1, <2>2, Zenon DEF Continues
  <1>4. ASSUME NEW pc \in Executing, worker[w].pc \in Executing,
               Step(w, [worker[w] EXCEPT !.pc = pc])
        PROVE  Continues(w)
    <2> DEFINE st == [worker[w] EXCEPT !.pc = pc]
    <2>1. DOMAIN st = {"pc", "msg", "source", "ok"} /\ st.pc = pc /\ st.msg = worker[w].msg
      BY <1>1
    <2> HIDE DEF st
    <2>2. Step(w, st)
      BY <1>4 DEF st
    <2>3. QED
      BY <1>4, <2>1, <2>2, Zenon DEF Continues
  <1>5. "start" \in Executing /\ "copy" \in Executing /\ "record" \in Executing
        /\ "mark" \in Executing /\ "remove" \in Executing
    BY DEF Executing
  <1>6. CASE ExecuteReplicaRepair(w)
    BY <1>2, <1>5, <1>6, Zenon DEF ExecuteReplicaRepair, Returns
  <1>7. CASE ExecuteReplicaPlanCopy(w)
    BY <1>2, <1>5, <1>7, Zenon DEF ExecuteReplicaPlanCopy, Returns
  <1>8. CASE CopySkipped(w) \/ CopyFails(w) \/ CopyMarksPlan(w) \/ CleanupFindsNoPlan(w)
    BY <1>5, <1>8, Zenon DEF CopySkipped, CopyFails, CopyMarksPlan, CleanupFindsNoPlan, Returns
  <1>9. ASSUME NEW ok \in BOOLEAN, CopyAnswered(w, ok) PROVE Continues(w)
    BY <1>3, <1>5, <1>9, Zenon DEF CopyAnswered
  <1>10. CASE CopyRecorded(w)
    <2>1. /\ worker[w].pc = "record"
          /\ Complete(w) \/ Fail(w) \/ Step(w, [worker[w] EXCEPT !.pc = "mark"])
      BY <1>10 DEF CopyRecorded
    <2>2. QED
      BY <1>4, <1>5, <2>1, Zenon DEF Returns
  <1>11. CASE DeleteSourceData(w)
    BY <1>4, <1>5, <1>11, Zenon DEF DeleteSourceData, FailOrRetryPlan, Returns
  <1>12. CASE RemoveSourceRow(w)
    BY <1>5, <1>12, Zenon DEF RemoveSourceRow, FailOrRetryPlan, Returns
  <1>13. QED
    BY <1>6, <1>7, <1>8, <1>9, <1>10, <1>11, <1>12, Zenon DEF Executor

DeliveryStep ==
    \/ \E t : publishTask(t)
    \/ \E w \in Workers :
          \/ \E m \in Envelope : Handle(w, m)
          \/ Continues(w) \/ Returns(w) \/ RouteFailure(w) \/ Ack(w)
    \/ \E m \in Envelope : RetryExpires(m)
    \/ \E p \in Processes, id \in EventIDs : ClaimExpires(p, id)
    \/ \E p \in Processes : ProcessRestarts(p)
    \/ UNCHANGED delivery

\* To the delivery, a step of the coordinator is a step of the broker or of one
\* consumer, a publication or nothing.
LEMMA StepsOfDelivery == Shape /\ [Next]_vars => DeliveryStep
  <1> SUFFICES ASSUME Shape, [Next]_vars PROVE DeliveryStep
    OBVIOUS
  <1>1. CASE Leader
    BY <1>1, Zenon DEF Leader, planReplicaMove, planChunkFailover, PublishPlan, RollbackPlan,
          repairChunk, CleanupOnce, finalizeCompletedPlan, PublishCleanup, CleanupNotPublished,
          MarkCleanupReady, DeliveryStep
  <1>2. ASSUME NEW w \in Workers, Executor(w) PROVE DeliveryStep
    BY <1>2, ExecutorSteps, Zenon DEF DeliveryStep
  <1>3. ASSUME NEW w \in Workers, Delivery(w) PROVE DeliveryStep
    BY <1>3, Zenon DEF Delivery, DeliveryStep
  <1>4. CASE Broker \/ Expiry
    BY <1>4, Zenon DEF Broker, Expiry, DeliveryStep
  <1>5. CASE DeleteFile \/ LeaderStops \/ PublicationLost
    BY <1>5, Zenon DEF DeleteFile, LeaderStops, PublicationLost, DeliveryStep
  <1>6. ASSUME NEW p \in Processes, Restart(p) PROVE DeliveryStep
    BY <1>6, Zenon DEF Restart, DeliveryStep
  <1>7. CASE UNCHANGED vars
    BY <1>7, Zenon DEF vars, DeliveryStep
  <1>8. QED
    BY <1>1, <1>2, <1>3, <1>4, <1>5, <1>6, <1>7, Zenon DEF Next, Workers

-----------------------------------------------------------------------------
(* One lemma for each step of the delivery. *)

\* In the first state no task has been published.
LEMMA InitHolds == Init => DeliveryInv
  <1> SUFFICES ASSUME DeliveryInit PROVE DeliveryInv
    BY DEF Init
  <1>1. Shape
    BY DeliveryAssumption DEF DeliveryInit, Shape, Workers, IdleWorker
  <1>2. \A w \in Workers : worker[w].pc = "idle"
    BY DEF DeliveryInit, Workers, IdleWorker
  <1>3. Attempts
    BY <1>2, SMTT(30) DEF DeliveryInit, Attempts
  <1>4. Claims
    BY <1>2 DEF DeliveryInit, Claims, Executing
  <1>5. Covers
    BY DEF DeliveryInit, Covers
  <1>6. QED
    BY <1>1, <1>3, <1>4, <1>5 DEF DeliveryInv

\* A new task is in its queue, and no consumer has met its EventID.
LEMMA PublishKeeps ==
    ASSUME DeliveryInv, NEW t, publishTask(t)
    PROVE  DeliveryInv'
  <1> USE DEF DeliveryInv
  <1>1. PICK id \in EventIDs :
            /\ task[id] = NoTask
            /\ task' = [task EXCEPT ![id] = t]
            /\ queue' = [queue EXCEPT ![[id |-> id, attempt |-> 1]] = 1]
    BY Zenon DEF publishTask, newEnvelopeID
  <1>2. UNCHANGED <<retrying, dead, worker, claimed, finished, runs, failures>>
    BY DEF publishTask, consumers, history
  <1> DEFINE new == [id |-> id, attempt |-> 1]
  <1>3. new \in Envelope /\ new.id = id /\ new.attempt = 1
    BY DeliveryAssumption DEF Envelope
  <1> HIDE DEF new
  <1>4. queue' = [queue EXCEPT ![new] = 1]
    BY <1>1 DEF new
  <1>5. Shape'
    <2>1. DOMAIN task' = EventIDs
      BY <1>1 DEF Shape
    <2>2. queue' \in [Envelope -> Nat]
      BY <1>3, <1>4 DEF Shape
    <2>3. QED
      BY <1>2, <2>1, <2>2 DEF Shape
  <1>6. Attempts'
    <2>1. failures[id] \in Nat
      BY DEF Shape
    <2>2. \A m \in Envelope : m = new \/ queue'[m] = queue[m]
      BY <1>3, <1>4 DEF Shape
    <2>3. QED
      BY <1>2, <1>3, <2>1, <2>2 DEF Attempts
  <1>7. Claims'
    <2>1. \A w \in Workers : worker[w].pc \in Executing => worker[w].msg.id # id
      BY <1>1 DEF Claims, NoTask, Workers, Kinds
    <2>2. \A w \in Workers : worker[w].pc \in Executing =>
              task'[worker[w].msg.id] = task[worker[w].msg.id]
      BY <1>1, <2>1
    <2>3. QED
      BY <1>2, <2>2, ZenonT(60) DEF Claims, Executes
  <1>8. Covers'
    <2>1. Held(id)'
      BY <1>3, <1>4 DEF Held, Shape
    <2>2. \A m \in Envelope : queue[m] > 0 => queue'[m] > 0
      BY <1>3, <1>4 DEF Shape
    <2>3. \A j \in EventIDs : Held(j) => Held(j)'
      BY <1>2, <2>2 DEF Held
    <2>4. \A j \in EventIDs : j # id => task'[j] = task[j]
      BY <1>1 DEF Shape
    <2>5. QED
      BY <2>1, <2>3, <2>4 DEF Covers
  <1>9. QED
    BY <1>5, <1>6, <1>7, <1>8

\* A delivery is dropped only if its task has been executed or is being so.
LEMMA HandleKeeps ==
    ASSUME DeliveryInv, NEW w \in Workers, NEW m \in Envelope, Handle(w, m)
    PROVE  DeliveryInv'
  <1> USE DEF DeliveryInv
  <1>1. /\ worker[w].pc = "idle"
        /\ queue[m] > 0
        /\ task[m.id].kind = w[2]
        /\ queue' = [queue EXCEPT ![m] = @ - 1]
        /\ UNCHANGED <<task, retrying, dead, finished, runs, failures>>
    BY DEF Handle, Bound, history
  <1>2. w[1] \in Processes /\ w[2] \in Kinds /\ w = <<w[1], w[2]>>
    BY DEF Workers
  <1>3. m.id \in EventIDs
    BY DEF Envelope
  <1>4. queue' \in [Envelope -> Nat] /\ \A n \in Envelope : queue'[n] > 0 => queue[n] > 0
    BY <1>1 DEF Shape
  <1>5. \A n \in Envelope : n # m => queue'[n] = queue[n]
    BY <1>1 DEF Shape
  <1>6. CASE m.id \in claimed[w[1]]
    <2>1. UNCHANGED <<worker, claimed>>
      BY <1>6 DEF Handle, KeyForEnvelope, consumers
    <2>2. Shape'
      BY <1>1, <1>4, <2>1 DEF Shape
    <2>3. Attempts'
      BY <1>1, <1>4, <2>1, Zenon DEF Attempts
    <2>4. Claims'
      BY <1>1, <2>1, ZenonT(60) DEF Claims, Executes
    <2>5. Covers'
      <3>1. m.id \in finished \/ \E k \in Kinds : Executes(<<w[1], k>>, m.id)
        BY <1>2, <1>3, <1>6 DEF Claims
      <3>2. \A k \in Kinds : <<w[1], k>> \in Workers
        BY <1>2 DEF Workers
      <3>3. Held(m.id)'
        BY <1>1, <2>1, <3>1, <3>2, Zenon DEF Held, Executes
      <3>4. \A j \in EventIDs : j # m.id /\ Held(j) => Held(j)'
        BY <1>1, <1>5, <2>1 DEF Held
      <3>5. QED
        BY <1>1, <3>3, <3>4 DEF Covers
    <2>6. QED
      BY <2>2, <2>3, <2>4, <2>5
  <1>7. CASE m.id \notin claimed[w[1]]
    <2> DEFINE st == [IdleWorker EXCEPT !.pc = "start", !.msg = m]
    <2>1. DOMAIN st = {"pc", "msg", "source", "ok"} /\ st.pc = "start" /\ st.msg = m
      BY DEF IdleWorker
    <2>2. /\ worker' = [worker EXCEPT ![w] = st]
          /\ claimed' = [claimed EXCEPT ![w[1]] = @ \cup {m.id}]
      BY <1>7 DEF Handle, KeyForEnvelope
    <2> HIDE DEF st
    <2>3. worker'[w] = st /\ \A v \in Workers : v # w => worker'[v] = worker[v]
      BY <2>2 DEF Shape
    <2>4. Shape'
      <3>1. "start" \in Executing
        BY DEF Executing
      <3>2. claimed' \in [Processes -> SUBSET EventIDs]
        BY <1>2, <1>3, <2>2 DEF Shape
      <3>3. DOMAIN worker' = Workers
        BY <2>2 DEF Shape
      <3>4. QED
        BY <1>1, <1>4, <2>1, <2>3, <3>1, <3>2, <3>3, SMTT(30) DEF Shape
    <2>5. Attempts'
      <3>1. m.attempt - 1 <= failures[m.id]
        BY <1>1 DEF Attempts
      <3>2. QED
        BY <1>1, <1>4, <2>1, <2>3, <3>1, ZenonT(60) DEF Attempts
    <2>6. Claims'
      <3>1. runs[w[1]][m.id] = 0
        BY <1>2, <1>3, <1>7 DEF Claims
      <3>2. \A p \in Processes : claimed[p] \subseteq claimed'[p]
        BY <1>2, <2>2 DEF Shape
      <3>3. m.id \in claimed'[w[1]] /\ \A p \in Processes, id \in EventIDs :
                id \in claimed'[p] => id \in claimed[p] \/ (p = w[1] /\ id = m.id)
        BY <1>2, <2>2 DEF Shape
      <3>4. \A v \in Workers : v[1] \in Processes
        BY DEF Workers
      <3>5. \A v \in Workers : worker'[v].pc \in Executing =>
              /\ runs'[v[1]][worker'[v].msg.id] = 0
              /\ task'[worker'[v].msg.id].kind = v[2]
        BY <1>1, <2>1, <2>3, <3>1, <3>2, <3>3, <3>4, ZenonT(60) DEF Claims
      <3>6. Executes(<<w[1], w[2]>>, m.id)'
        BY <1>2, <2>1, <2>3 DEF Executes, Executing
      <3>7. \A v \in Workers, id \in EventIDs : Executes(v, id) => Executes(v, id)'
        BY <1>1, <2>3 DEF Executes, Executing
      <3>8. \A p \in Processes, k \in Kinds : <<p, k>> \in Workers
        BY DEF Workers
      <3>9. \A p \in Processes, id \in EventIDs : id \in claimed'[p] =>
                id \in finished' \/ \E k \in Kinds : Executes(<<p, k>>, id)'
        <4> TAKE p \in Processes, id \in EventIDs
        <4> HAVE id \in claimed'[p]
        <4>1. CASE p = w[1] /\ id = m.id
          BY <1>2, <3>6, <4>1
        <4>2. CASE id \in claimed[p]
          <5>1. id \in finished \/ \E k \in Kinds : Executes(<<p, k>>, id)
            BY <4>2, Zenon DEF Claims
          <5>2. QED
            BY <1>1, <3>7, <3>8, <5>1, SMTT(30)
        <4>3. QED
          BY <3>3, <4>1, <4>2
      <3>10. \A p \in Processes, id \in EventIDs :
                runs'[p][id] <= 1 /\ (runs'[p][id] # 0 => id \in claimed'[p])
        BY <1>1, <3>2, Zenon DEF Claims
      <3>11. QED
        BY <3>5, <3>9, <3>10, Zenon DEF Claims
    <2>7. Covers'
      <3>1. Held(m.id)'
        BY <2>1, <2>3 DEF Held, Executing
      <3>2. \A j \in EventIDs : j # m.id /\ Held(j) => Held(j)'
        BY <1>1, <1>5, <2>3 DEF Held, Executing
      <3>3. QED
        BY <1>1, <3>1, <3>2 DEF Covers
    <2>8. QED
      BY <2>4, <2>5, <2>6, <2>7
  <1>8. QED
    BY <1>6, <1>7

\* A worker that goes on with its task changes neither its delivery nor its claim.
LEMMA ContinueKeeps ==
    ASSUME DeliveryInv, NEW w \in Workers, Continues(w)
    PROVE  DeliveryInv'
  <1> USE DEF DeliveryInv
  <1>1. PICK st : /\ DOMAIN st = {"pc", "msg", "source", "ok"}
                  /\ st.pc \in Executing
                  /\ st.msg = worker[w].msg
                  /\ worker' = [worker EXCEPT ![w] = st]
    BY Zenon DEF Continues, Step
  <1>2. UNCHANGED <<task, queue, retrying, dead, claimed, finished, runs, failures>>
    BY DEF Continues, Step, broker, history
  <1>3. worker'[w] = st /\ \A v \in Workers : v # w => worker'[v] = worker[v]
    BY <1>1 DEF Shape
  <1>4. worker[w].pc \in Executing
    BY DEF Continues
  <1>5. \A v \in Workers :
            /\ (worker'[v].pc \in Executing) = (worker[v].pc \in Executing)
            /\ worker'[v].msg = worker[v].msg
            /\ worker'[v].pc \in {"idle", "failed", "acking"} => worker'[v].pc = worker[v].pc
    BY <1>1, <1>3, <1>4 DEF Executing
  <1>6. Shape'
    <2>1. DOMAIN worker' = Workers
      BY <1>1 DEF Shape
    <2>2. worker[w].pc # "idle"
      BY <1>4, SMTT(30) DEF Executing
    <2>3. QED
      BY <1>1, <1>2, <1>3, <2>1, <2>2 DEF Shape
  <1>7. Attempts'
    <2>1. \A v \in Workers : /\ worker'[v].pc # "idle" => worker[v].pc # "idle"
                             /\ worker'[v].pc = "failed" => worker[v].pc = "failed"
      BY <1>1, <1>3, <1>4 DEF Executing
    <2>2. QED
      BY <1>2, <1>5, <2>1 DEF Attempts
  <1>8. \A v \in Workers, id \in EventIDs : Executes(v, id)' = Executes(v, id)
    BY <1>5 DEF Executes
  <1>9. Claims'
    <2>1. \A p \in Processes, k \in Kinds : <<p, k>> \in Workers
      BY DEF Workers
    <2>2. \A p \in Processes, id \in EventIDs :
             (\E k \in Kinds : Executes(<<p, k>>, id)) => \E k \in Kinds : Executes(<<p, k>>, id)'
      BY <1>8, <2>1
    <2>3. QED
      BY <1>2, <1>5, <2>2, ZenonT(60) DEF Claims
  <1>10. Covers'
    <2>1. \A v \in Workers : worker[v].pc = "failed" => worker'[v].pc = "failed"
      BY <1>3, <1>4 DEF Executing
    <2>2. \A j \in EventIDs : Held(j) => Held(j)'
      BY <1>2, <1>5, <2>1 DEF Held
    <2>3. QED
      BY <1>2, <2>2 DEF Covers
  <1>11. QED
    BY <1>6, <1>7, <1>9, <1>10

\* Only w executes the task in its process: the task's kind says whose it is.
LEMMA AloneInProcess ==
    ASSUME DeliveryInv, NEW w \in Workers, worker[w].pc \in Executing,
           NEW k \in Kinds, Executes(<<w[1], k>>, worker[w].msg.id)
    PROVE  <<w[1], k>> = w
  <1>1. w[1] \in Processes /\ w = <<w[1], w[2]>>
    BY DEF Workers
  <1>2. <<w[1], k>> \in Workers
    BY <1>1 DEF Workers
  <1>3. task[worker[w].msg.id].kind = w[2]
    BY Zenon DEF DeliveryInv, Claims
  <1>4. task[worker[w].msg.id].kind = k
    BY <1>2, ZenonT(60) DEF DeliveryInv, Claims, Executes
  <1>5. QED
    BY <1>1, <1>3, <1>4

\* What a change of one worker's pc alone leaves.
LEMMA WorkerMoves ==
    ASSUME Shape, NEW w \in Workers, NEW pc, worker' = [worker EXCEPT ![w].pc = pc]
    PROVE  /\ DOMAIN worker' = Workers
           /\ DOMAIN worker'[w] = {"pc", "msg", "source", "ok"}
           /\ worker'[w].pc = pc
           /\ worker'[w].msg = worker[w].msg
           /\ \A v \in Workers : v # w => worker'[v] = worker[v]
  BY DEF Shape

\* The task is finished, and its claim is there, again if it had expired.
LEMMA CompleteKeeps ==
    ASSUME DeliveryInv, NEW w \in Workers, worker[w].pc \in Executing, Complete(w)
    PROVE  DeliveryInv'
  <1> USE DEF DeliveryInv
  <1>0. PICK id : id = worker[w].msg.id
    OBVIOUS
  <1>1. /\ worker' = [worker EXCEPT ![w].pc = "acking"]
        /\ finished' = finished \cup {id}
        /\ runs' = [runs EXCEPT ![w[1]][id] = @ + 1]
        /\ claimed' = [claimed EXCEPT ![w[1]] = @ \cup {id}]
        /\ UNCHANGED <<task, queue, retrying, dead, failures>>
    BY <1>0 DEF Complete, broker, KeyForEnvelope
  <1>2. w[1] \in Processes /\ w[2] \in Kinds /\ w = <<w[1], w[2]>>
    BY DEF Workers
  <1>3. worker[w].msg \in Envelope /\ id \in EventIDs /\ worker[w].pc # "idle"
    BY <1>0 DEF Shape, Executing, Envelope
  <1>4. /\ DOMAIN worker' = Workers
        /\ DOMAIN worker'[w] = {"pc", "msg", "source", "ok"}
        /\ worker'[w].pc = "acking"
        /\ worker'[w].msg = worker[w].msg
        /\ \A v \in Workers : v # w => worker'[v] = worker[v]
    BY <1>1, WorkerMoves, Zenon
  <1>5. runs[w[1]][id] = 0
    BY <1>0, Zenon DEF Claims
  <1>12. /\ claimed' \in [Processes -> SUBSET EventIDs]
         /\ \A p \in Processes, j \in EventIDs :
               j \in claimed'[p] <=> j \in claimed[p] \/ (p = w[1] /\ j = id)
    BY <1>1, <1>2, <1>3, SMTT(30) DEF Shape
  <1>6. /\ runs' \in [Processes -> [EventIDs -> Nat]]
        /\ runs'[w[1]][id] = 1
        /\ \A p \in Processes, j \in EventIDs :
              p # w[1] \/ j # id => runs'[p][j] = runs[p][j]
    BY <1>1, <1>2, <1>3, <1>5 DEF Shape
  <1>7. Shape'
    BY <1>1, <1>3, <1>4, <1>6, <1>12 DEF Shape
  <1>8. Attempts'
    BY <1>1, <1>3, <1>4 DEF Attempts
  <1>9. Claims'
    <2>1. ASSUME NEW v \in Workers, worker'[v].pc \in Executing
          PROVE  /\ runs'[v[1]][worker'[v].msg.id] = 0
                 /\ task'[worker'[v].msg.id].kind = v[2]
      <3>1. v # w /\ worker'[v] = worker[v]
        BY <1>4, <2>1 DEF Executing
      <3>2. v[1] \in Processes /\ v[2] \in Kinds /\ v = <<v[1], v[2]>>
        BY DEF Workers
      <3>3. v[1] # w[1] \/ worker[v].msg.id # id
        BY <1>0, <2>1, <3>1, <3>2, AloneInProcess DEF Executes
      <3>4. worker[v].msg.id \in EventIDs
        BY <2>1, <3>1 DEF Shape, Executing, Envelope
      <3>5. runs'[v[1]][worker[v].msg.id] = runs[v[1]][worker[v].msg.id]
        BY <1>6, <3>2, <3>3, <3>4
      <3>6. QED
        BY <1>1, <2>1, <3>1, <3>5, Zenon DEF Claims
    <2>2. ASSUME NEW p \in Processes, NEW j \in EventIDs, j \in claimed'[p]
          PROVE  j \in finished' \/ \E k \in Kinds : Executes(<<p, k>>, j)'
      <3>1. j = id \/ j \in finished \/ \E k \in Kinds : Executes(<<p, k>>, j)
        BY <1>12, <2>2, Zenon DEF Claims
      <3>2. \A k \in Kinds : Executes(<<p, k>>, j) => j = id \/ Executes(<<p, k>>, j)'
        <4> TAKE k \in Kinds
        <4>1. <<p, k>> \in Workers
          BY DEF Workers
        <4>2. QED
          BY <1>0, <1>4, <4>1 DEF Executes
      <3>3. QED
        BY <1>1, <3>1, <3>2
    <2>3. \A p \in Processes, j \in EventIDs :
             runs'[p][j] <= 1 /\ (runs'[p][j] # 0 => j \in claimed'[p])
      BY <1>2, <1>3, <1>6, <1>12 DEF Claims
    <2>4. QED
      BY <2>1, <2>2, <2>3, Zenon DEF Claims
  <1>10. Covers'
    <2>1. Held(id)'
      BY <1>1 DEF Held
    <2>2. \A j \in EventIDs : j # id /\ Held(j) => Held(j)'
      BY <1>0, <1>1, <1>4 DEF Held
    <2>3. QED
      BY <1>1, <2>1, <2>2 DEF Covers
  <1>11. QED
    BY <1>7, <1>8, <1>9, <1>10

\* The claim is released and the failure counted.
LEMMA FailKeeps ==
    ASSUME DeliveryInv, NEW w \in Workers, worker[w].pc \in Executing, Fail(w)
    PROVE  DeliveryInv'
  <1> USE DEF DeliveryInv
  <1>0. PICK id : id = worker[w].msg.id
    OBVIOUS
  <1>1. /\ worker' = [worker EXCEPT ![w].pc = "failed"]
        /\ claimed' = [claimed EXCEPT ![w[1]] = @ \ {id}]
        /\ failures' = [failures EXCEPT ![id] = IF @ < MaxAttempts THEN @ + 1 ELSE @]
        /\ UNCHANGED <<task, queue, retrying, dead, finished, runs>>
    BY <1>0 DEF Fail, KeyForEnvelope, broker
  <1>2. w[1] \in Processes /\ w[2] \in Kinds /\ w = <<w[1], w[2]>>
    BY DEF Workers
  <1>3. worker[w].msg \in Envelope /\ id \in EventIDs /\ worker[w].pc # "idle"
    BY <1>0 DEF Shape, Executing, Envelope
  <1>4. /\ DOMAIN worker' = Workers
        /\ DOMAIN worker'[w] = {"pc", "msg", "source", "ok"}
        /\ worker'[w].pc = "failed"
        /\ worker'[w].msg = worker[w].msg
        /\ \A v \in Workers : v # w => worker'[v] = worker[v]
    BY <1>1, WorkerMoves, Zenon
  <1>5. runs[w[1]][id] = 0
    BY <1>0, Zenon DEF Claims
  <1>6. /\ failures' \in [EventIDs -> 0..MaxAttempts]
        /\ \A j \in EventIDs : failures[j] <= failures'[j]
        /\ failures'[id] = MaxAttempts \/ failures'[id] = failures[id] + 1
    <2> DEFINE count == IF failures[id] < MaxAttempts THEN failures[id] + 1 ELSE failures[id]
    <2>1. failures \in [EventIDs -> 0..MaxAttempts]
      BY DEF Shape
    <2>2. /\ count \in 0..MaxAttempts
          /\ failures[id] <= count
          /\ count = MaxAttempts \/ count = failures[id] + 1
      BY <1>3, <2>1, DeliveryAssumption
    <2>3. failures' = [failures EXCEPT ![id] = count]
      BY <1>1
    <2> HIDE DEF count
    <2>4. QED
      BY <1>3, <2>1, <2>2, <2>3
  <1>7. /\ claimed' \in [Processes -> SUBSET EventIDs]
        /\ \A p \in Processes, j \in EventIDs :
              (j \in claimed'[p]) = (j \in claimed[p] /\ (p # w[1] \/ j # id))
    BY <1>1, <1>2, <1>3 DEF Shape
  <1>8. Shape'
    BY <1>1, <1>3, <1>4, <1>6, <1>7 DEF Shape
  <1>9. Attempts'
    <2>1. \A m \in Envelope : m.id \in EventIDs /\ m.attempt \in 1..MaxAttempts
      BY DEF Envelope
    <2>2. \A j \in EventIDs : failures[j] \in 0..MaxAttempts /\ failures'[j] \in 0..MaxAttempts
      BY <1>6 DEF Shape
    <2>3. ASSUME NEW m \in Envelope, m.attempt - 1 <= failures[m.id]
          PROVE  m.attempt - 1 <= failures'[m.id]
      BY <1>6, <2>1, <2>2, <2>3, DeliveryAssumption
    <2>4. \A m \in Envelope : queue'[m] > 0 \/ retrying'[m] > 0 => m.attempt - 1 <= failures'[m.id]
      BY <1>1, <2>3 DEF Attempts
    <2>5. ASSUME NEW v \in Workers, worker'[v].pc # "idle"
          PROVE  worker'[v].msg.attempt - 1 <= failures'[worker'[v].msg.id]
      <3>1. worker[v].pc # "idle" /\ worker'[v].msg = worker[v].msg
        BY <1>3, <1>4, <2>5
      <3>2. QED
        BY <2>3, <3>1 DEF Attempts, Shape
    <2>6. ASSUME NEW v \in Workers, worker'[v].pc = "failed"
          PROVE  worker'[v].msg.attempt <= failures'[worker'[v].msg.id]
      <3>1. CASE v = w
        <4>1. worker[w].msg.attempt - 1 <= failures[id]
          BY <1>0, <1>3 DEF Attempts
        <4>2. worker[w].msg.attempt <= failures'[id]
          BY <1>3, <1>6, <2>1, <2>2, <4>1, DeliveryAssumption
        <4>3. QED
          BY <1>0, <1>4, <3>1, <4>2, SMTT(30)
      <3>2. CASE v # w
        <4>1. worker'[v] = worker[v] /\ worker[v].msg \in Envelope
          BY <1>4, <2>6, <3>2 DEF Shape
        <4>2. worker[v].msg.attempt <= failures[worker[v].msg.id]
          BY <2>6, <4>1 DEF Attempts
        <4>3. QED
          BY <1>6, <2>1, <2>2, <4>1, <4>2, DeliveryAssumption, SMTT(30)
      <3>3. QED
        BY <3>1, <3>2
    <2>7. \A j \in dead' : failures'[j] = MaxAttempts
      <3> TAKE j \in dead'
      <3>1. j \in dead /\ j \in EventIDs /\ failures[j] = MaxAttempts
        BY <1>1 DEF Attempts, Shape
      <3>2. QED
        BY <1>6, <2>2, <3>1, DeliveryAssumption
    <2>8. QED
      BY <2>4, <2>5, <2>6, <2>7 DEF Attempts
  <1>10. Claims'
    <2>1. ASSUME NEW v \in Workers, worker'[v].pc \in Executing
          PROVE  /\ runs'[v[1]][worker'[v].msg.id] = 0
                 /\ task'[worker'[v].msg.id].kind = v[2]
      <3>1. v # w /\ worker'[v] = worker[v]
        BY <1>4, <2>1 DEF Executing
      <3>2. QED
        BY <1>1, <2>1, <3>1, Zenon DEF Claims
    <2>2. ASSUME NEW p \in Processes, NEW j \in EventIDs, j \in claimed'[p]
          PROVE  j \in finished' \/ \E k \in Kinds : Executes(<<p, k>>, j)'
      <3>1. j \in claimed[p] /\ (p # w[1] \/ j # id)
        BY <1>7, <2>2
      <3>2. j \in finished \/ \E k \in Kinds : Executes(<<p, k>>, j)
        BY <3>1, Zenon DEF Claims
      <3>3. \A k \in Kinds : Executes(<<p, k>>, j) => Executes(<<p, k>>, j)'
        <4> TAKE k \in Kinds
        <4> HAVE Executes(<<p, k>>, j)
        <4>1. <<p, k>> \in Workers
          BY DEF Workers
        <4>2. <<p, k>> # w
          BY <1>0, <3>1 DEF Executes
        <4>3. QED
          BY <1>4, <4>1, <4>2 DEF Executes
      <3>4. QED
        BY <1>1, <3>2, <3>3
    <2>3. \A p \in Processes, j \in EventIDs :
             runs'[p][j] <= 1 /\ (runs'[p][j] # 0 => j \in claimed'[p])
      BY <1>1, <1>5, <1>7 DEF Claims
    <2>4. QED
      BY <2>1, <2>2, <2>3, Zenon DEF Claims
  <1>11. Covers'
    <2>1. \A j \in EventIDs : Held(j) => Held(j)'
      BY <1>1, <1>4 DEF Held
    <2>2. QED
      BY <1>1, <2>1 DEF Covers
  <1>12. QED
    BY <1>8, <1>9, <1>10, <1>11

\* A failed task is in the dead-letter queue or a retry queue before it is
\* acknowledged.
LEMMA RouteKeeps ==
    ASSUME DeliveryInv, NEW w \in Workers, RouteFailure(w)
    PROVE  DeliveryInv'
  <1> USE DEF DeliveryInv
  <1>0. PICK m : m = worker[w].msg
    OBVIOUS
  <1>1. /\ worker[w].pc = "failed"
        /\ worker' = [worker EXCEPT ![w].pc = "acking"]
        /\ UNCHANGED <<task, queue, claimed, finished, runs, failures>>
    BY DEF RouteFailure, history
  <1>2. m \in Envelope /\ m.id \in EventIDs /\ m.attempt \in 1..MaxAttempts
    BY <1>0, <1>1 DEF Shape, Envelope
  <1>3. m.attempt <= failures[m.id] /\ failures[m.id] \in 0..MaxAttempts
    BY <1>0, <1>1, <1>2 DEF Attempts, Shape
  <1>4. /\ DOMAIN worker' = Workers
        /\ DOMAIN worker'[w] = {"pc", "msg", "source", "ok"}
        /\ worker'[w].pc = "acking"
        /\ worker'[w].msg = worker[w].msg
        /\ \A v \in Workers : v # w => worker'[v] = worker[v]
    BY <1>1, WorkerMoves, Zenon
  <1>5. /\ dead \subseteq dead' /\ dead' \subseteq EventIDs
        /\ \A id \in dead' : failures[id] = MaxAttempts
        /\ retrying' \in [Envelope -> Nat]
        /\ \A n \in Envelope : retrying[n] > 0 => retrying'[n] > 0
        /\ \A n \in Envelope : retrying'[n] > 0 => retrying[n] > 0 \/ n.attempt - 1 <= failures[n.id]
        /\ m.id \in dead' \/ \E n \in Envelope : n.id = m.id /\ retrying'[n] > 0
    <2>1. CASE m.attempt >= MaxAttempts
      <3>1. dead' = dead \cup {m.id} /\ retrying' = retrying
        BY <1>0, <2>1 DEF RouteFailure
      <3>2. failures[m.id] = MaxAttempts
        BY <1>2, <1>3, <2>1, DeliveryAssumption, SMTT(30)
      <3>3. QED
        BY <1>2, <3>1, <3>2 DEF Shape, Attempts
    <2>2. CASE ~ (m.attempt >= MaxAttempts)
      <3> DEFINE next == NextAttempt(m)
      <3>1. next \in Envelope /\ next.id = m.id /\ next.attempt = m.attempt + 1
        BY <1>2, <2>2, DeliveryAssumption DEF NextAttempt, Envelope
      <3>2. dead' = dead /\ retrying' = [retrying EXCEPT ![next] = @ + 1]
        BY <1>0, <2>2 DEF RouteFailure
      <3> HIDE DEF next
      <3>3. retrying' \in [Envelope -> Nat] /\ retrying'[next] > 0
        BY <3>1, <3>2 DEF Shape
      <3>4. \A n \in Envelope : n # next => retrying'[n] = retrying[n]
        BY <3>1, <3>2 DEF Shape
      <3>5. next.attempt - 1 <= failures[next.id]
        BY <1>2, <1>3, <3>1
      <3>6. QED
        BY <3>1, <3>2, <3>3, <3>4, <3>5 DEF Shape, Attempts
    <2>3. QED
      BY <2>1, <2>2
  <1>6. Shape'
    BY <1>0, <1>1, <1>2, <1>4, <1>5 DEF Shape
  <1>7. Attempts'
    BY <1>1, <1>4, <1>5 DEF Attempts
  <1>8. \A v \in Workers : /\ (worker'[v].pc \in Executing) = (worker[v].pc \in Executing)
                           /\ worker'[v].msg = worker[v].msg
    BY <1>1, <1>4 DEF Executing
  <1>9. Claims'
    <2>1. \A p \in Processes, k \in Kinds : <<p, k>> \in Workers
      BY DEF Workers
    <2>2. \A p \in Processes, id \in EventIDs :
             (\E k \in Kinds : Executes(<<p, k>>, id)) => \E k \in Kinds : Executes(<<p, k>>, id)'
      BY <1>8, <2>1 DEF Executes
    <2>3. QED
      BY <1>1, <1>8, <2>2, Zenon DEF Claims
  <1>10. Covers'
    <2>1. Held(m.id)'
      BY <1>5 DEF Held
    <2>2. \A j \in EventIDs : j # m.id /\ Held(j) => Held(j)'
      BY <1>0, <1>1, <1>4, <1>5 DEF Held
    <2>3. QED
      BY <1>1, <2>1, <2>2 DEF Covers
  <1>11. QED
    BY <1>6, <1>7, <1>9, <1>10

\* A worker that acknowledges its delivery is idle again: the task is done or dead,
\* or has been published again.
LEMMA AckKeeps ==
    ASSUME DeliveryInv, NEW w \in Workers, Ack(w)
    PROVE  DeliveryInv'
  <1> USE DEF DeliveryInv
  <1>1. /\ worker[w].pc = "acking"
        /\ worker' = [worker EXCEPT ![w] = IdleWorker]
        /\ UNCHANGED <<task, queue, retrying, dead, claimed, finished, runs, failures>>
    BY DEF Ack, broker, history
  <1>2. DOMAIN IdleWorker = {"pc", "msg", "source", "ok"} /\ IdleWorker.pc = "idle"
    BY DEF IdleWorker
  <1>3. /\ DOMAIN worker' = Workers
        /\ worker'[w] = IdleWorker
        /\ \A v \in Workers : v # w => worker'[v] = worker[v]
    BY <1>1, SMTT(30) DEF Shape
  <1>4. Shape'
    BY <1>1, <1>2, <1>3, SMTT(30) DEF Shape
  <1>5. Attempts'
    BY <1>1, <1>2, <1>3 DEF Attempts
  <1>6. \A v \in Workers : worker[v].pc \in Executing \cup {"failed"} => worker'[v] = worker[v]
    BY <1>1, <1>3 DEF Executing
  <1>7. \A v \in Workers : worker'[v].pc \in Executing => worker'[v] = worker[v]
    BY <1>2, <1>3 DEF Executing
  <1>8. Claims'
    <2>1. \A p \in Processes, k \in Kinds : <<p, k>> \in Workers
      BY DEF Workers
    <2>2. \A p \in Processes, id \in EventIDs :
             (\E k \in Kinds : Executes(<<p, k>>, id)) => \E k \in Kinds : Executes(<<p, k>>, id)'
      BY <1>6, <2>1 DEF Executes
    <2>3. QED
      BY <1>1, <1>7, <2>2, Zenon DEF Claims
  <1>9. Covers'
    <2>1. \A j \in EventIDs : Held(j) => Held(j)'
      BY <1>1, <1>6 DEF Held
    <2>2. QED
      BY <1>1, <2>1 DEF Covers
  <1>10. QED
    BY <1>4, <1>5, <1>8, <1>9

\* A delay that expires brings its message back to the queue.
LEMMA ExpireKeeps ==
    ASSUME DeliveryInv, NEW m \in Envelope, RetryExpires(m)
    PROVE  DeliveryInv'
  <1> USE DEF DeliveryInv
  <1>1. /\ retrying[m] > 0
        /\ retrying' = [retrying EXCEPT ![m] = @ - 1]
        /\ queue' = [queue EXCEPT ![m] = @ + 1]
        /\ UNCHANGED <<task, dead, worker, claimed, finished, runs, failures>>
    BY DEF RetryExpires, consumers, history
  <1>2. /\ retrying' \in [Envelope -> Nat]
        /\ queue' \in [Envelope -> Nat]
        /\ queue'[m] > 0
        /\ \A n \in Envelope : n # m => retrying'[n] = retrying[n] /\ queue'[n] = queue[n]
    BY <1>1 DEF Shape
  <1>3. Shape'
    BY <1>1, <1>2, SMTT(30) DEF Shape
  <1>4. Attempts'
    BY <1>1, <1>2 DEF Attempts
  <1>5. Claims'
    BY <1>1, ZenonT(60) DEF Claims, Executes
  <1>6. Covers'
    <2>1. \A j \in EventIDs : Held(j) => Held(j)'
      BY <1>1, <1>2 DEF Held
    <2>2. QED
      BY <1>1, <2>1 DEF Covers
  <1>7. QED
    BY <1>3, <1>4, <1>5, <1>6, SMTT(30)

\* A claim that expires is forgotten, and with it that its task was executed.
LEMMA ClaimKeeps ==
    ASSUME DeliveryInv, NEW p \in Processes, NEW id \in EventIDs, ClaimExpires(p, id)
    PROVE  DeliveryInv'
  <1> USE DEF DeliveryInv
  <1>1. /\ claimed' = [claimed EXCEPT ![p] = @ \ {id}]
        /\ runs' = [runs EXCEPT ![p][id] = 0]
        /\ UNCHANGED <<task, queue, retrying, dead, worker, finished, failures>>
    BY DEF ClaimExpires, broker
  <1>2. /\ claimed' \in [Processes -> SUBSET EventIDs]
        /\ \A q \in Processes, j \in EventIDs :
              j \in claimed'[q] <=> j \in claimed[q] /\ (q # p \/ j # id)
    BY <1>1 DEF Shape
  <1>3. /\ runs' \in [Processes -> [EventIDs -> Nat]]
        /\ runs'[p][id] = 0
        /\ \A q \in Processes, j \in EventIDs : q # p \/ j # id => runs'[q][j] = runs[q][j]
    BY <1>1 DEF Shape
  <1>4. Shape'
    BY <1>1, <1>2, <1>3 DEF Shape
  <1>5. Attempts'
    BY <1>1, Zenon DEF Attempts
  <1>6. Claims'
    <2>1. ASSUME NEW w \in Workers, worker'[w].pc \in Executing
          PROVE  /\ runs'[w[1]][worker'[w].msg.id] = 0
                 /\ task'[worker'[w].msg.id].kind = w[2]
      <3>1. w[1] \in Processes /\ worker[w].msg.id \in EventIDs
        BY <1>1, <2>1 DEF Shape, Executing, Envelope, Workers
      <3>2. runs[w[1]][worker[w].msg.id] = 0 /\ task[worker[w].msg.id].kind = w[2]
        BY <1>1, <2>1, Zenon DEF Claims
      <3>3. runs'[w[1]][worker[w].msg.id] = 0
        BY <1>3, <3>1, <3>2, Zenon
      <3>4. QED
        BY <1>1, <3>2, <3>3, Zenon
    <2>2. ASSUME NEW q \in Processes, NEW j \in EventIDs, j \in claimed'[q]
          PROVE  j \in finished' \/ \E k \in Kinds : Executes(<<q, k>>, j)'
      <3>1. j \in finished \/ \E k \in Kinds : Executes(<<q, k>>, j)
        BY <1>2, <2>2, Zenon DEF Claims
      <3>2. QED
        BY <1>1, <3>1, Zenon DEF Executes
    <2>3. ASSUME NEW q \in Processes, NEW j \in EventIDs
          PROVE  runs'[q][j] <= 1 /\ (runs'[q][j] # 0 => j \in claimed'[q])
      <3>1. runs[q][j] <= 1 /\ (runs[q][j] # 0 => j \in claimed[q])
        BY Zenon DEF Claims
      <3>2. CASE q = p /\ j = id
        BY <1>3, <3>2
      <3>3. CASE ~ (q = p /\ j = id)
        BY <1>2, <1>3, <3>1, <3>3, Zenon
      <3>4. QED
        BY <3>2, <3>3, Zenon
    <2>4. QED
      BY <2>1, <2>2, <2>3, Zenon DEF Claims
  <1>7. Covers'
    BY <1>1, Zenon DEF Covers, Held
  <1>8. QED
    BY <1>4, <1>5, <1>6, <1>7

\* What the process had not acknowledged is in the queue again, and its
\* idempotency table forgets what it had executed.
LEMMA RestartKeeps ==
    ASSUME DeliveryInv, NEW p \in Processes, ProcessRestarts(p)
    PROVE  DeliveryInv'
  <1> USE DEF DeliveryInv
  <1> DEFINE Unacked(m) == \E k \in Kinds : worker[<<p, k>>].pc # "idle" /\ worker[<<p, k>>].msg = m
  <1>1. /\ worker' = [w \in Processes \X Kinds |-> IF w[1] = p THEN IdleWorker ELSE worker[w]]
        /\ queue' = [m \in Envelope |-> IF Unacked(m) THEN queue[m] + 1 ELSE queue[m]]
        /\ claimed' = [claimed EXCEPT ![p] = {}]
        /\ runs' = [runs EXCEPT ![p] = [id \in EventIDs |-> 0]]
        /\ UNCHANGED <<task, retrying, dead, finished, failures>>
    BY SMTT(30) DEF ProcessRestarts
  <1>2. DOMAIN IdleWorker = {"pc", "msg", "source", "ok"} /\ IdleWorker.pc = "idle"
    BY SMTT(30) DEF IdleWorker
  <1>3. /\ DOMAIN worker' = Workers
        /\ \A w \in Workers : worker'[w] = IF w[1] = p THEN IdleWorker ELSE worker[w]
    BY <1>1 DEF Workers
  <1>4. \A k \in Kinds : <<p, k>> \in Workers
    BY DEF Workers
  <1>5. \A m \in Envelope : Unacked(m) =>
            \E w \in Workers : w[1] = p /\ worker[w].pc # "idle" /\ worker[w].msg = m
    BY <1>4
  <1>6. \A w \in Workers : w[1] = p /\ worker[w].pc # "idle" => Unacked(worker[w].msg)
    <2> TAKE w \in Workers
    <2>1. w = <<w[1], w[2]>> /\ w[2] \in Kinds
      BY DEF Workers
    <2>2. QED
      BY <2>1
  <1> HIDE DEF Unacked
  <1>7. /\ queue' \in [Envelope -> Nat]
        /\ \A m \in Envelope : queue[m] > 0 \/ Unacked(m) => queue'[m] > 0
        /\ \A m \in Envelope : queue'[m] > 0 => queue[m] > 0 \/ Unacked(m)
    BY <1>1, SMTT(30) DEF Shape
  <1>8. /\ claimed' \in [Processes -> SUBSET EventIDs]
        /\ claimed'[p] = {}
        /\ \A q \in Processes : q # p => claimed'[q] = claimed[q]
    BY <1>1 DEF Shape
  <1>9. /\ runs' \in [Processes -> [EventIDs -> Nat]]
        /\ \A id \in EventIDs : runs'[p][id] = 0
        /\ \A q \in Processes : q # p => runs'[q] = runs[q]
    BY <1>1, SMTT(30) DEF Shape
  <1>10. Shape'
    BY <1>1, <1>2, <1>3, <1>7, <1>8, <1>9, SMTT(30), SMTT(30) DEF Shape
  <1>11. Attempts'
    <2>1. \A m \in Envelope : Unacked(m) => m.attempt - 1 <= failures[m.id]
      BY <1>5 DEF Attempts
    <2>2. QED
      BY <1>1, <1>2, <1>3, <1>7, <2>1, SMTT(30) DEF Attempts
  <1>12. Claims'
    <2>1. \A w \in Workers : w[1] \in Processes
      BY SMTT(30) DEF Workers
    <2>2. \A w \in Workers : worker'[w].pc \in Executing => w[1] # p /\ worker'[w] = worker[w]
      BY <1>2, <1>3, SMTT(30) DEF Executing
    <2>3. ASSUME NEW w \in Workers, worker'[w].pc \in Executing
          PROVE  /\ runs'[w[1]][worker'[w].msg.id] = 0
                 /\ task'[worker'[w].msg.id].kind = w[2]
      <3>1. worker'[w] = worker[w] /\ claimed'[w[1]] = claimed[w[1]] /\ runs'[w[1]] = runs[w[1]]
        BY <1>8, <1>9, <2>1, <2>2, <2>3, SMTT(30)
      <3>2. QED
        BY <1>1, <2>3, <3>1, Zenon DEF Claims
    <2>4. ASSUME NEW q \in Processes, NEW id \in EventIDs, id \in claimed'[q]
          PROVE  id \in finished' \/ \E k \in Kinds : Executes(<<q, k>>, id)'
      <3>1. q # p /\ id \in claimed[q]
        BY <1>8, <2>4
      <3>2. \A k \in Kinds : <<q, k>> \in Workers /\ <<q, k>>[1] = q
        BY SMTT(30) DEF Workers
      <3>3. \A k \in Kinds : worker'[<<q, k>>] = worker[<<q, k>>]
        BY <1>3, <3>1, <3>2, SMTT(30)
      <3>4. id \in finished \/ \E k \in Kinds : Executes(<<q, k>>, id)
        BY <3>1, Zenon DEF Claims
      <3>5. QED
        BY <1>1, <3>3, <3>4, Zenon DEF Executes
    <2>5. \A q \in Processes, id \in EventIDs :
             runs'[q][id] <= 1 /\ (runs'[q][id] # 0 => id \in claimed'[q])
      BY <1>8, <1>9, SMTT(30) DEF Claims
    <2>6. QED
      BY <2>3, <2>4, <2>5, Zenon DEF Claims
  <1>13. Covers'
    <2>1. ASSUME NEW j \in EventIDs, NEW w \in Workers,
                 worker[w].pc \in Executing \cup {"failed"}, worker[w].msg.id = j
          PROVE  Held(j)'
      <3>1. worker[w].msg \in Envelope /\ worker[w].pc # "idle"
        BY <2>1, SMTT(30) DEF Shape, Executing
      <3>2. CASE w[1] = p
        <4>1. queue'[worker[w].msg] > 0
          BY <1>6, <1>7, <3>1, <3>2
        <4>2. QED
          BY <2>1, <3>1, <4>1 DEF Held
      <3>3. CASE w[1] # p
        BY <1>3, <2>1, <3>3 DEF Held
      <3>4. QED
        BY <3>2, <3>3
    <2>2. \A j \in EventIDs : Held(j) => Held(j)'
      BY <1>1, <1>7, <2>1, ZenonT(60) DEF Held
    <2>3. QED
      BY <1>1, <2>2 DEF Covers
  <1>14. QED
    BY <1>10, <1>11, <1>12, <1>13, SMTT(30)

\* Every step keeps the invariant.
LEMMA Invariance == DeliveryInv /\ [Next]_vars => DeliveryInv'
  <1> SUFFICES ASSUME DeliveryInv, DeliveryStep PROVE DeliveryInv'
    BY StepsOfDelivery DEF DeliveryInv
  <1>1. ASSUME NEW w \in Workers, Returns(w) PROVE DeliveryInv'
    BY <1>1, CompleteKeeps, FailKeeps, Zenon DEF Returns
  <1>2. CASE UNCHANGED delivery
    <2>1. UNCHANGED <<task, queue, retrying, dead, worker, claimed, finished, runs, failures>>
      BY <1>2 DEF delivery
    <2>2. Shape' /\ Attempts'
      BY <2>1 DEF DeliveryInv, Shape, Attempts
    <2>3. Claims' /\ Covers'
      BY <2>1, ZenonT(60) DEF DeliveryInv, Claims, Covers, Held, Executes
    <2>4. QED
      BY <2>2, <2>3, SMTT(30) DEF DeliveryInv
  <1>3. QED
    BY <1>1, <1>2, PublishKeeps, HandleKeeps, ContinueKeeps, RouteKeeps, AckKeeps, ExpireKeeps,
       ClaimKeeps, RestartKeeps, Zenon DEF DeliveryStep

-----------------------------------------------------------------------------
\* The inductive invariant of the delivery holds throughout, for every number of
\* tasks, processes, workers and retries.
THEOREM Delivered == Spec => []DeliveryInv
  BY InitHolds, Invariance, PTL DEF Spec

\* No published task is lost, for any number of processes, consumers, messages
\* and attempts, and any order of failures, retries, acknowledgements and
\* restarts: the delivery that is dropped as a duplicate, or acknowledged after a
\* failure, always leaves the task with somebody else (Held).
THEOREM TasksKept == Spec => []NoTaskLost
  <1>1. DeliveryInv => NoTaskLost
    <2> SUFFICES ASSUME DeliveryInv, NEW id \in EventIDs, task[id] # NoTask
                 PROVE  id \in finished \cup dead \/ Outstanding(id)
      BY DEF NoTaskLost
    <2>1. Held(id)
      BY DEF DeliveryInv, Covers
    <2>2. QED
      BY <2>1 DEF Held, Outstanding, Workers, Executing
  <1>2. QED
    BY <1>1, Delivered, PTL

\* A dead task has failed MaxAttempts times, however its copies were redelivered
\* by crashes: every copy of an attempt stands for a failure before it (Attempts).
THEOREM DeadHaveFailed == Spec => []DeadAfterRetries
  <1>1. DeliveryInv => DeadAfterRetries
    BY DEF DeliveryInv, Attempts, DeadAfterRetries
  <1>2. QED
    BY <1>1, Delivered, PTL

\* A process executes a task successfully at most once until it restarts or its
\* claim expires, with any number of copies of it in the queues: only one consumer
\* of the process takes tasks of the kind, and when it has executed one the claim
\* is there, even if it expired during the execution (Claims).
THEOREM ExecutedOnce == Spec => []OncePerClaim
  <1>1. DeliveryInv => OncePerClaim
    BY DEF DeliveryInv, Claims, OncePerClaim
  <1>2. QED
    BY <1>1, Delivered, PTL

-----------------------------------------------------------------------------
(* Rows, plans and loops. *)

\* A plan that the planner made, whatever has become of it since.
Made(p) == p \in PlanIDs /\ plan[p] # NoPlan

\* The rows of the plans, as TypeOK has them.
PlanRecord == [state : {"none", "deleted", "done"} \cup ActiveStates,
               type : PlanTypes \cup {"none"},
               source : Nodes \cup {None}, target : Nodes \cup {None}]

\* A plan goes from one node to another, the loops are at plans that were made,
\* and so is every task but a repair, which names its target.
PlansOK ==
    /\ \A p \in PlanIDs : Made(p) =>
          plan[p].source \in Nodes /\ plan[p].target \in Nodes /\ plan[p].source # plan[p].target
    /\ planner # 0 => Made(planner)
    /\ \A p \in todo : Made(p)
    /\ cleaner.pc # "idle" => Made(cleaner.plan)
    /\ \A id \in EventIDs :
          /\ task[id].kind = "repair" => task[id].target \in Nodes
          /\ task[id].kind \in Kinds \ {"repair"} => Made(task[id].plan)

\* The types, and what the loops and the tasks point at.
Typed == TypeOK /\ PlansOK

\* No two plans were made.
OnePlan == \A p, q \in PlanIDs : Made(p) /\ Made(q) => p = q

\* Node n has the data, or a plan was made to take it away.
Stored(n) == n \in disk \/ \E p \in PlanIDs : Made(p) /\ plan[p].source = n

\* With one plan, a ready row without data is its source's, as is a copy that is
\* recorded after the data has gone; and its cleanup is published once the target
\* has the data.
FirstPlan ==
    /\ disk # {}
    /\ \A n \in Nodes : replicas[n] = "ready" => Stored(n)
    /\ \A id \in EventIDs : task[id].kind = "cleanup" => plan[task[id].plan].target \in disk
    /\ cleaner.pc = "publish" => plan[cleaner.plan].target \in disk
    /\ \A w \in Workers : worker[w].pc = "record" /\ worker[w].ok => Stored(TargetOf(w))


-----------------------------------------------------------------------------
(* What a step does to the plans. *)

\* Plans change their state only.
PlansKept ==
    /\ plan' \in [PlanIDs -> PlanRecord]
    /\ \A p \in PlanIDs :
          /\ Made(p)' <=> Made(p)
          /\ plan'[p].source = plan[p].source /\ plan'[p].target = plan[p].target

\* What TypeOK says of the plans.
PlanTyped == plan \in [PlanIDs -> PlanRecord]

\* A plan that was made keeps its nodes when its state is updated.
LEMMA StateUpdated ==
    ASSUME PlanTyped, NEW p \in PlanIDs, Made(p),
           NEW state \in {"deleted", "done"} \cup ActiveStates,
           plan' = [plan EXCEPT ![p].state = state]
    PROVE  PlansKept
  <1>1. plan' \in [PlanIDs -> PlanRecord]
    BY DEF PlanTyped, PlanRecord
  <1>2. plan'[p] = [plan[p] EXCEPT !.state = state] /\ \A q \in PlanIDs \ {p} : plan'[q] = plan[q]
    BY DEF PlanTyped, PlanRecord
  <1>3. /\ plan'[p].source = plan[p].source /\ plan'[p].target = plan[p].target
        /\ plan'[p].state = state
    BY <1>2 DEF PlanTyped, PlanRecord
  <1>4. plan'[p] # NoPlan
    BY <1>3 DEF NoPlan, ActiveStates
  <1>5. QED
    BY <1>1, <1>2, <1>3, <1>4 DEF PlansKept, Made

\* So do all plans when none is written.
LEMMA PlansUnchanged ==
    ASSUME PlanTyped, UNCHANGED plan
    PROVE  PlansKept
  BY Zenon DEF PlanTyped, PlansKept, Made

\* UpdateReplicaPlan and DeleteReplicaPlan.
LEMMA PlanUpdated ==
    ASSUME PlanTyped, NEW p, Made(p), NEW state \in {"done"} \cup ActiveStates,
           updateReplicaPlan(p, state)
    PROVE  PlansKept
  <1>1. p \in PlanIDs
    BY DEF Made
  <1>2. CASE RowExists(plan[p])
    <2>1. plan' = [plan EXCEPT ![p].state = state]
      BY <1>2, Zenon DEF updateReplicaPlan
    <2>2. QED
      BY <1>1, <2>1, StateUpdated, Zenon
  <1>3. CASE ~ RowExists(plan[p])
    <2>1. plan' = plan
      BY <1>3, Zenon DEF updateReplicaPlan
    <2>2. QED
      BY <2>1, PlansUnchanged, Zenon
  <1>4. QED
    BY <1>2, <1>3, Zenon

\* DeleteReplicaPlan leaves a plan that was made, marked as deleted.
LEMMA PlanDeleted ==
    ASSUME PlanTyped, NEW p, Made(p), deleteReplicaPlan(p)
    PROVE  PlansKept
  BY StateUpdated, Zenon DEF Made, deleteReplicaPlan

\* DeleteFile and the loss of the in-memory store mark the plans, or leave them.
LEMMA PlansMarked ==
    ASSUME PlanTyped, NEW marks,
           plan' = [p \in PlanIDs |-> IF marks /\ RowExists(plan[p])
                                     THEN [plan[p] EXCEPT !.state = "deleted"] ELSE plan[p]]
    PROVE  PlansKept
  <1>1. ASSUME NEW p \in PlanIDs
        PROVE  /\ plan'[p] \in PlanRecord /\ (Made(p)' <=> Made(p))
               /\ plan'[p].source = plan[p].source /\ plan'[p].target = plan[p].target
    <2>1. plan'[p] = IF marks /\ RowExists(plan[p])
                     THEN [plan[p] EXCEPT !.state = "deleted"] ELSE plan[p]
      BY Zenon
    <2>2. plan[p] \in PlanRecord
      BY DEF PlanTyped
    <2>3. CASE marks /\ RowExists(plan[p])
      <3>1. plan'[p] = [plan[p] EXCEPT !.state = "deleted"] /\ plan[p].state # "none"
        BY <2>1, <2>3 DEF RowExists, ActiveStates
      <3>2. QED
        BY <2>2, <3>1 DEF PlanRecord, Made, NoPlan
    <2>4. CASE ~ (marks /\ RowExists(plan[p]))
      <3>1. plan'[p] = plan[p]
        BY <2>1, <2>4, Zenon
      <3>2. QED
        BY <2>2, <3>1, Zenon DEF Made
    <2>5. QED
      BY <2>3, <2>4, Zenon
  <1>2. plan' = [p \in PlanIDs |-> plan'[p]]
    BY Zenon
  <1>3. plan' \in [PlanIDs -> PlanRecord]
    <2>1. \A p \in PlanIDs : plan'[p] \in PlanRecord
      BY <1>1, Zenon
    <2>2. QED
      BY <1>2, <2>1, Zenon
  <1>4. QED
    BY <1>1, <1>3, Zenon DEF PlansKept

\* A new plan leaves the others alone.
NewPlanMade(s, t) ==
    /\ plan' \in [PlanIDs -> PlanRecord]
    /\ \E p \in PlanIDs :
          /\ ~ Made(p) /\ planner' = p
          /\ plan'[p] # NoPlan /\ plan'[p].source = s /\ plan'[p].target = t
          /\ \A q \in PlanIDs \ {p} : plan'[q] = plan[q]

\* NewPlan makes one plan, from one of the nodes to another.
LEMMA NewPlanMakes ==
    ASSUME PlanTyped, NEW s \in Nodes, NEW t \in Nodes, NEW type \in PlanTypes,
           NewPlan(type, s, t)
    PROVE  NewPlanMade(s, t)
  <1> DEFINE pl == [state |-> "materialized", type |-> type, source |-> s, target |-> t]
  <1>1. PICK p \in PlanIDs : plan[p] = NoPlan /\ plan' = [plan EXCEPT ![p] = pl] /\ planner' = p
    BY Zenon DEF NewPlan
  <1>2. pl \in PlanRecord /\ pl # NoPlan /\ pl.source = s /\ pl.target = t
    BY SMTT(30) DEF PlanRecord, ActiveStates, NoPlan
  <1> HIDE DEF pl
  <1>3. /\ plan' \in [PlanIDs -> PlanRecord] /\ plan'[p] = pl
        /\ \A q \in PlanIDs \ {p} : plan'[q] = plan[q]
    BY <1>1, <1>2, SMTT(30) DEF PlanTyped
  <1>4. QED
    BY <1>1, <1>2, <1>3, Zenon DEF NewPlanMade, Made

-----------------------------------------------------------------------------
(* Types. *)

\* A worker that executes a task is at one of its kind.
LEMMA WorkerTask ==
    ASSUME DeliveryInv, PlansOK, NEW w \in Workers, worker[w].pc \in Executing
    PROVE  /\ worker[w].msg.id \in EventIDs /\ TaskOf(w).kind = w[2] /\ w[2] \in Kinds
           /\ w[2] # "repair" => Made(TaskOf(w).plan)
           /\ TargetOf(w) \in Nodes
  <1>1. worker[w].msg \in Envelope /\ TaskOf(w).kind = w[2]
    BY DEF DeliveryInv, Shape, Claims, Executing, TaskOf
  <1>2. worker[w].msg.id \in EventIDs /\ w[2] \in Kinds
    BY <1>1 DEF Envelope, Workers
  <1>3. /\ TaskOf(w).kind = "repair" => TaskOf(w).target \in Nodes
        /\ TaskOf(w).kind \in Kinds \ {"repair"} => Made(TaskOf(w).plan)
    BY <1>2, Zenon DEF PlansOK, TaskOf
  <1>4. \A p \in PlanIDs : Made(p) => plan[p].target \in Nodes
    BY Zenon DEF PlansOK
  <1>5. CASE w[2] = "repair"
    BY <1>1, <1>2, <1>3, <1>5, Zenon DEF TargetOf
  <1>6. CASE w[2] # "repair"
    <2>1. Made(TaskOf(w).plan)
      BY <1>1, <1>2, <1>3, <1>6, Zenon
    <2>2. TargetOf(w) = plan[TaskOf(w).plan].target
      BY <1>1, <1>6, Zenon DEF TargetOf
    <2>3. QED
      BY <1>1, <1>2, <1>4, <2>1, <2>2, Zenon DEF Made
  <1>7. QED
    BY <1>5, <1>6, Zenon

\* The loops and the tasks stay at plans that were made, when no plan is taken
\* back.
LEMMA LoopsKept ==
    ASSUME PlansOK, PlansKept,
           planner' \in {planner, 0}, todo' \subseteq todo,
           cleaner'.pc # "idle" => cleaner.pc # "idle" /\ cleaner'.plan = cleaner.plan,
           UNCHANGED task
    PROVE  PlansOK'
  <1>1. \A p : Made(p) => p \in PlanIDs /\ plan'[p] # NoPlan
    BY Zenon DEF PlansKept, Made
  <1>2. \A p \in PlanIDs : Made(p)' =>
          plan'[p].source \in Nodes /\ plan'[p].target \in Nodes /\ plan'[p].source # plan'[p].target
    BY Zenon DEF PlansKept, PlansOK
  <1>3. planner' # 0 => Made(planner)'
    <2>1. planner' # 0 => planner' = planner
      OBVIOUS
    <2>2. planner' # 0 => Made(planner')
      BY <2>1, Zenon DEF PlansOK
    <2>3. QED
      BY <1>1, <2>2, Zenon DEF Made
  <1>4. (\A p \in todo' : Made(p)') /\ (cleaner'.pc # "idle" => Made(cleaner.plan)')
    <2>1. (\A p \in todo' : Made(p)) /\ (cleaner'.pc # "idle" => Made(cleaner'.plan))
      BY Zenon DEF PlansOK
    <2>2. QED
      BY <1>1, <2>1, Zenon DEF Made
  <1>5. \A id \in EventIDs :
          /\ task'[id].kind = "repair" => task'[id].target \in Nodes
          /\ task'[id].kind \in Kinds \ {"repair"} => Made(task[id].plan)'
    <2>1. \A id \in EventIDs :
            /\ task'[id].kind = "repair" => task'[id].target \in Nodes
            /\ task'[id].kind \in Kinds \ {"repair"} => Made(task'[id].plan)
      BY Zenon DEF PlansOK
    <2>2. QED
      BY <1>1, <2>1, Zenon DEF Made
  <1>6. QED
    BY <1>2, <1>3, <1>4, <1>5, Zenon DEF PlansOK

-----------------------------------------------------------------------------
(* The effects of the steps. *)

\* One worker moves.
OthersKept(w) == \A o \in Workers \ {w} : worker'[o] = worker[o]

\* No row is new or changes its state.
RowsFewer == \A n \in Nodes : replicas'[n] # "none" => replicas'[n] = replicas[n]

\* No worker has become ready to record a success.
RecordsFewer ==
    \A w \in Workers : worker'[w].pc = "record" /\ worker'[w].ok =>
        worker[w].pc = "record" /\ worker[w].ok /\ worker'[w].msg = worker[w].msg

\* No cleanup has become due.
CleanerFewer ==
    cleaner'.pc = "publish" => cleaner.pc = "publish" /\ cleaner'.plan = cleaner.plan

\* Nothing is new but a copy of the data.
Quiet ==
    /\ PlansKept /\ RowsFewer /\ CleanerFewer /\ RecordsFewer
    /\ disk \subseteq disk' /\ UNCHANGED task

\* A plan is made.
Plans(s, t) ==
    /\ NewPlanMade(s, t) /\ replicas[s] # "none" /\ replicas'[t] = "pending"
    /\ \A n \in Nodes \ {t} : replicas'[n] = replicas[n]
    /\ UNCHANGED <<disk, task, cleaner, worker>>

\* A task t is published, a cleanup for the plan the cleaner is at, a repair for
\* a pending row.
Publishes(t) ==
    /\ \E id \in EventIDs :
          /\ task[id] = NoTask
          /\ task' = [task EXCEPT ![id] = t]
    /\ t.kind = "repair" => t.target \in Nodes /\ replicas[t.target] = "pending"
    /\ t.kind \in Kinds \ {"repair"} => Made(t.plan)
    /\ t.kind = "cleanup" => cleaner.pc = "publish" /\ t.plan = cleaner.plan
    /\ CleanerFewer
    /\ UNCHANGED <<plan, replicas, disk, worker>>

\* The cleanup of a plan is due.
Chooses(p) ==
    /\ Made(p) /\ replicas[plan[p].target] = "ready"
    /\ cleaner'.plan = p
    /\ UNCHANGED <<plan, replicas, disk, task, worker>>

\* A copy is answered.
Answers(w) ==
    /\ worker[w].pc \in Executing /\ worker'[w].msg = worker[w].msg /\ OthersKept(w)
    /\ disk \subseteq disk'
    /\ worker'[w].ok => TargetOf(w) \in disk'
    /\ UNCHANGED <<plan, replicas, task, cleaner>>

\* A copy is recorded in the target's row.
Records(w) ==
    /\ worker[w].pc = "record" /\ worker'[w].pc # "record" /\ OthersKept(w)
    /\ replicas'[TargetOf(w)] = (IF worker[w].ok THEN "ready" ELSE "pending")
    /\ \A n \in Nodes \ {TargetOf(w)} : replicas'[n] = replicas[n]
    /\ UNCHANGED <<plan, disk, task, cleaner>>

\* The cleanup deletes the source's data.
Deletes(w) ==
    /\ worker[w].pc \in Executing /\ w[2] = "cleanup"
    /\ worker'[w].pc # "record" /\ OthersKept(w)
    /\ disk' = disk \ {plan[TaskOf(w).plan].source}
    /\ UNCHANGED <<plan, replicas, task, cleaner>>

\* Every step has one of these effects.
Effect ==
    \/ Quiet
    \/ \E s, t \in Nodes : Plans(s, t)
    \/ \E t : Publishes(t)
    \/ \E p \in PlanIDs : Chooses(p)
    \/ \E w \in Workers : Answers(w) \/ Records(w) \/ Deletes(w)

-----------------------------------------------------------------------------
(* The steps of the executors. *)

\* What the operators of the delivery do to the workers.
LEMMA StepWorker ==
    ASSUME Shape, NEW w \in Workers, NEW state, Step(w, state)
    PROVE  worker'[w] = state /\ OthersKept(w) /\ UNCHANGED task
  BY DEF Shape, Step, OthersKept, broker

\* Complete and Fail end the execution.
LEMMA ReturnWorker ==
    ASSUME Shape, NEW w \in Workers, Complete(w) \/ Fail(w)
    PROVE  worker'[w].pc \in {"acking", "failed"} /\ OthersKept(w) /\ UNCHANGED task
  <1>1. DOMAIN worker = Workers /\ DOMAIN worker[w] = {"pc", "msg", "source", "ok"}
    BY DEF Shape
  <1>2. PICK pc \in {"acking", "failed"} : worker' = [worker EXCEPT ![w].pc = pc]
    BY Zenon DEF Complete, Fail
  <1>3. UNCHANGED task
    BY Zenon DEF Complete, Fail, broker
  <1>4. worker'[w].pc = pc /\ OthersKept(w)
    BY <1>1, <1>2 DEF OthersKept
  <1>5. QED
    BY <1>2, <1>3, <1>4, SMTT(30)

\* A worker that does not come to record an answer records nothing.
LEMMA NoRecord ==
    ASSUME NEW w \in Workers, OthersKept(w), worker'[w].pc # "record"
    PROVE  RecordsFewer
  BY Zenon DEF OthersKept, RecordsFewer

\* The types of what an executor may change.
LEMMA ExecutorTypes ==
    ASSUME Typed, PlansKept, UNCHANGED <<present, loops, faults, task>>, disk' \subseteq Nodes,
           replicas' \in [Nodes -> {"none", "pending", "ready"}]
    PROVE  Typed'
  <1>1. UNCHANGED <<planner, todo, cleaner>>
    BY Zenon DEF loops
  <1>2. PlansOK'
    BY <1>1, LoopsKept, Zenon DEF Typed
  <1>3. plan' \in [PlanIDs -> PlanRecord]
    BY Zenon DEF PlansKept
  <1>4. TypeOK'
    BY <1>1, <1>3, Zenon DEF Typed, TypeOK, PlanRecord
  <1>5. QED
    BY <1>2, <1>4, Zenon DEF Typed

\* A step that only moves a worker on.
LEMMA WorkerOnly ==
    ASSUME Typed, NEW w \in Workers, worker'[w].pc # "record", OthersKept(w), UNCHANGED task,
           UNCHANGED <<rows, loops, faults>>
    PROVE  Typed' /\ Effect
  <1>1. UNCHANGED <<present, replicas, disk, plan, cleaner>>
    BY Zenon DEF rows, loops
  <1>2. PlansKept
    BY <1>1, PlansUnchanged, Zenon DEF Typed, TypeOK, PlanTyped, PlanRecord
  <1>3. disk' \subseteq Nodes /\ replicas' \in [Nodes -> {"none", "pending", "ready"}]
    BY <1>1, Zenon DEF Typed, TypeOK
  <1>4. Typed'
    BY <1>1, <1>2, <1>3, ExecutorTypes, Zenon
  <1>5. Quiet
    BY <1>1, <1>2, NoRecord, Zenon DEF Quiet, RowsFewer, CleanerFewer
  <1>6. QED
    BY <1>4, <1>5, Zenon DEF Effect

\* Only an executor that has a plan comes to the plan's end.
Stages == \A w \in Workers : worker[w].pc \in {"mark", "remove"} => w[2] # "repair"

\* A step of one worker keeps the stages of the others.
LEMMA StageKept ==
    ASSUME Stages, NEW w \in Workers, OthersKept(w), worker'[w].pc \in {"mark", "remove"} => w[2] # "repair"
    PROVE  Stages'
  BY Zenon DEF Stages, OthersKept

\* The invariant: what is typed, and what is so with one plan.
FirstInv == DeliveryInv /\ Typed /\ Stages /\ (OnePlan => FirstPlan)

\* The stages of the executors are kept.
LEMMA StepStages ==
    ASSUME Shape, Stages, [Next]_vars
    PROVE  Stages'
  <1>1. ASSUME NEW w \in Workers, Complete(w) \/ Fail(w) PROVE Stages'
    <2>1. worker'[w].pc \notin {"mark", "remove"} /\ OthersKept(w)
      BY <1>1, ReturnWorker, SMTT(30)
    <2>2. QED
      BY <2>1, StageKept, Zenon
  <1>2. ASSUME NEW w \in Workers, NEW pc, NEW s, pc \in {"mark", "remove"} => w[2] # "repair",
               \/ Step(w, [worker[w] EXCEPT !.pc = pc, !.source = s])
               \/ Step(w, [worker[w] EXCEPT !.pc = pc, !.ok = s])
               \/ Step(w, [worker[w] EXCEPT !.pc = pc])
        PROVE  Stages'
    <2>1. /\ OthersKept(w)
          /\ \/ worker'[w] = [worker[w] EXCEPT !.pc = pc, !.source = s]
             \/ worker'[w] = [worker[w] EXCEPT !.pc = pc, !.ok = s]
             \/ worker'[w] = [worker[w] EXCEPT !.pc = pc]
      BY <1>2, StepWorker, Zenon
    <2>2. worker'[w].pc = pc
      BY <2>1, Zenon DEF Shape
    <2>3. QED
      BY <1>2, <2>1, <2>2, StageKept, Zenon
  <1>3. ASSUME NEW w \in Workers, Executor(w) PROVE Stages'
    <2>1. CASE Complete(w) \/ Fail(w)
      BY <1>1, <2>1, Zenon
    <2>2. CASE ExecuteReplicaRepair(w) \/ ExecuteReplicaPlanCopy(w)
      <3>1. \/ Complete(w) \/ Fail(w)
            \/ \E s : Step(w, [worker[w] EXCEPT !.pc = "copy", !.source = s])
        BY <2>2, Zenon DEF ExecuteReplicaRepair, ExecuteReplicaPlanCopy
      <3>2. "copy" \notin {"mark", "remove"}
        OBVIOUS
      <3>3. QED
        BY <1>1, <1>2, <3>1, <3>2, Zenon
    <2>3. ASSUME NEW ok \in BOOLEAN, CopyAnswered(w, ok) PROVE Stages'
      <3>1. Step(w, [worker[w] EXCEPT !.pc = "record", !.ok = ok])
        BY <2>3, Zenon DEF CopyAnswered
      <3>2. "record" \notin {"mark", "remove"}
        OBVIOUS
      <3>3. QED
        BY <1>2, <3>1, <3>2, Zenon
    <2>4. CASE CopyRecorded(w)
      <3>1. Complete(w) \/ Fail(w) \/ (w[2] # "repair" /\ Step(w, [worker[w] EXCEPT !.pc = "mark"]))
        BY <2>4 DEF CopyRecorded
      <3>2. QED
        BY <1>1, <1>2, <3>1, Zenon
    <2>5. CASE DeleteSourceData(w)
      <3>1. /\ w[2] = "cleanup"
            /\ Complete(w) \/ Fail(w) \/ Step(w, [worker[w] EXCEPT !.pc = "remove"])
        BY <2>5, Zenon DEF DeleteSourceData, FailOrRetryPlan
      <3>2. w[2] # "repair"
        BY <3>1
      <3>3. QED
        BY <1>1, <1>2, <3>1, <3>2, Zenon
    <2>6. CASE CopySkipped(w) \/ CopyFails(w) \/ CopyMarksPlan(w) \/ CleanupFindsNoPlan(w)
      BY <1>1, <2>6, Zenon DEF CopySkipped, CopyFails, CopyMarksPlan, CleanupFindsNoPlan
    <2>7. CASE RemoveSourceRow(w)
      BY <1>1, <2>7, Zenon DEF RemoveSourceRow, FailOrRetryPlan
    <2>8. QED
      BY <1>3, <2>2, <2>3, <2>4, <2>5, <2>6, <2>7, Zenon DEF Executor
  <1>4. ASSUME NEW w \in Workers, Delivery(w) PROVE Stages'
    <2>1. \/ UNCHANGED worker
          \/ \E m : worker' = [worker EXCEPT ![w] = [IdleWorker EXCEPT !.pc = "start", !.msg = m]]
          \/ worker' = [worker EXCEPT ![w].pc = "acking"]
          \/ worker' = [worker EXCEPT ![w] = IdleWorker]
      BY <1>4, Zenon DEF Delivery, Handle, RouteFailure, Ack, consumers
    <2>2. CASE UNCHANGED worker
      BY <2>2, Zenon DEF Stages
    <2>3. CASE ~ UNCHANGED worker
      <3>3. DOMAIN worker = Workers /\ DOMAIN worker[w] = {"pc", "msg", "source", "ok"}
        BY Zenon DEF Shape
      <3>4. ASSUME NEW m, worker' = [worker EXCEPT ![w] = [IdleWorker EXCEPT !.pc = "start", !.msg = m]]
            PROVE  OthersKept(w) /\ worker'[w].pc \notin {"mark", "remove"}
        BY <3>3, <3>4, SMTT(30) DEF OthersKept, IdleWorker
      <3>5. ASSUME worker' = [worker EXCEPT ![w].pc = "acking"] \/ worker' = [worker EXCEPT ![w] = IdleWorker]
            PROVE  OthersKept(w) /\ worker'[w].pc \notin {"mark", "remove"}
        BY <3>3, <3>5 DEF OthersKept, IdleWorker
      <3>1. OthersKept(w) /\ worker'[w].pc \notin {"mark", "remove"}
        BY <2>1, <2>3, <3>4, <3>5, Zenon
      <3>2. QED
        BY <3>1, StageKept, Zenon
    <2>4. QED
      BY <2>2, <2>3, Zenon
  <1>5. ASSUME NEW p \in Processes, Restart(p) PROVE Stages'
    <2>1. worker' = [w \in Workers |-> IF w[1] = p THEN IdleWorker ELSE worker[w]]
      BY <1>5, Zenon DEF Restart, ProcessRestarts, Workers
    <2>2. \A w \in Workers : worker'[w] = IdleWorker \/ worker'[w] = worker[w]
      BY <2>1, Zenon
    <2>3. IdleWorker.pc \notin {"mark", "remove"}
      BY DEF IdleWorker
    <2>4. QED
      BY <2>2, <2>3, Zenon DEF Stages
  <1>6. CASE UNCHANGED worker
    BY <1>6, Zenon DEF Stages
  <1>7. CASE Leader
    BY <1>6, <1>7, Zenon DEF Leader, planReplicaMove, planChunkFailover, PublishPlan, RollbackPlan,
          repairChunk, CleanupOnce, finalizeCompletedPlan, PublishCleanup, CleanupNotPublished,
          MarkCleanupReady, publishTask, consumers, delivery
  <1>8. CASE Broker \/ Expiry \/ DeleteFile \/ LeaderStops \/ PublicationLost \/ UNCHANGED vars
    BY <1>6, <1>8, Zenon DEF Broker, RetryExpires, Expiry, ClaimExpires, DeleteFile, LeaderStops, PublicationLost, vars,
          consumers, delivery
  <1>9. QED
    BY <1>3, <1>4, <1>5, <1>7, <1>8, Zenon DEF Next, Workers

\* The steps up to the copy, and the ones without an effect, move a worker on.
LEMMA StartEffect ==
    ASSUME DeliveryInv, Typed, NEW w \in Workers,
           \/ ExecuteReplicaRepair(w) \/ ExecuteReplicaPlanCopy(w) \/ CopySkipped(w)
           \/ CleanupFindsNoPlan(w)
    PROVE  Typed' /\ Effect
  <1>1. Shape
    BY DEF DeliveryInv
  <1>2. UNCHANGED <<rows, loops, faults>>
    BY Zenon DEF ExecuteReplicaRepair, ExecuteReplicaPlanCopy, CopySkipped, CleanupFindsNoPlan
  <1>3. \/ \E s : Step(w, [worker[w] EXCEPT !.pc = "copy", !.source = s])
        \/ Complete(w) \/ Fail(w)
    BY Zenon DEF ExecuteReplicaRepair, ExecuteReplicaPlanCopy, CopySkipped, CleanupFindsNoPlan
  <1>4. CASE Complete(w) \/ Fail(w)
    <2>1. worker'[w].pc # "record" /\ OthersKept(w) /\ UNCHANGED task
      BY <1>1, <1>4, ReturnWorker, SMTT(30)
    <2>2. QED
      BY <1>2, <2>1, WorkerOnly, Zenon
  <1>5. ASSUME NEW s, Step(w, [worker[w] EXCEPT !.pc = "copy", !.source = s])
        PROVE  Typed' /\ Effect
    <2>1. worker'[w] = [worker[w] EXCEPT !.pc = "copy", !.source = s] /\ OthersKept(w)
          /\ UNCHANGED task
      BY <1>1, <1>5, StepWorker, Zenon
    <2>2. worker'[w].pc # "record"
      BY <1>1, <2>1 DEF Shape
    <2>3. QED
      BY <1>2, <2>1, <2>2, WorkerOnly, Zenon
  <1>6. QED
    BY <1>3, <1>4, <1>5, Zenon

\* The answer to a copy, and a copy that fails.
LEMMA CopyEffect ==
    ASSUME DeliveryInv, Typed, NEW w \in Workers,
           CopyFails(w) \/ \E ok \in BOOLEAN : CopyAnswered(w, ok)
    PROVE  Typed' /\ Effect
  <1>1. Shape /\ worker[w].pc \in Executing
    BY Zenon DEF DeliveryInv, CopyFails, CopyAnswered, Executing
  <1>2. TargetOf(w) \in Nodes
    BY <1>1, WorkerTask, Zenon DEF Typed
  <1>3. UNCHANGED <<present, replicas, plan, loops, faults>>
    BY Zenon DEF CopyFails, CopyAnswered
  <1>4. UNCHANGED cleaner
    BY <1>3, Zenon DEF loops
  <1>5. PlansKept
    BY <1>3, PlansUnchanged, ZenonT(60) DEF Typed, TypeOK, PlanTyped, PlanRecord
  <1>6. disk' \in {disk, disk \cup {TargetOf(w)}}
    BY Zenon DEF CopyFails, CopyAnswered
  <1>7. disk' \subseteq Nodes /\ disk \subseteq disk'
    BY <1>2, <1>6 DEF Typed, TypeOK
  <1>8. replicas' \in [Nodes -> {"none", "pending", "ready"}]
    BY <1>3, Zenon DEF Typed, TypeOK
  <1>9. CASE CopyFails(w)
    <2>1. Fail(w)
      BY <1>9, Zenon DEF CopyFails
    <2>2. worker'[w].pc # "record" /\ OthersKept(w) /\ UNCHANGED task
      BY <1>1, <2>1, ReturnWorker, SMTT(30)
    <2>3. Typed'
      BY <1>3, <1>5, <1>7, <1>8, <2>2, ExecutorTypes, Zenon
    <2>4. Quiet
      BY <1>3, <1>4, <1>5, <1>7, <2>2, NoRecord, Zenon DEF Quiet, RowsFewer, CleanerFewer
    <2>5. QED
      BY <2>3, <2>4, Zenon DEF Effect
  <1>10. ASSUME NEW ok \in BOOLEAN, CopyAnswered(w, ok) PROVE Typed' /\ Effect
    <2>1. Step(w, [worker[w] EXCEPT !.pc = "record", !.ok = ok])
      BY <1>10, Zenon DEF CopyAnswered
    <2>2. worker'[w] = [worker[w] EXCEPT !.pc = "record", !.ok = ok] /\ OthersKept(w)
          /\ UNCHANGED task
      BY <1>1, <2>1, StepWorker, Zenon
    <2>3. worker'[w].msg = worker[w].msg /\ worker'[w].ok = ok
      BY <1>1, <2>2, SMTT(30) DEF Shape
    <2>4. ok => TargetOf(w) \in disk'
      BY <1>10, Zenon DEF CopyAnswered
    <2>5. Typed'
      BY <1>3, <1>5, <1>7, <1>8, <2>2, ExecutorTypes, Zenon
    <2>6. Answers(w)
      BY <1>1, <1>3, <1>4, <1>7, <2>2, <2>3, <2>4, Zenon DEF Answers
    <2>7. QED
      BY <2>5, <2>6, Zenon DEF Effect
  <1>11. QED
    BY <1>9, <1>10, ZenonT(60)

\* The row of the target is written.
LEMMA RecordEffect ==
    ASSUME DeliveryInv, Typed, NEW w \in Workers, CopyRecorded(w)
    PROVE  Typed' /\ Effect
  <1>1. Shape /\ worker[w].pc \in Executing /\ worker[w].pc = "record"
    BY DEF DeliveryInv, CopyRecorded, Executing
  <1>2. TargetOf(w) \in Nodes
    BY <1>1, WorkerTask, Zenon DEF Typed
  <1>3. UNCHANGED <<present, disk, plan, loops, faults>>
    BY Zenon DEF CopyRecorded
  <1>4. UNCHANGED cleaner
    BY <1>3, Zenon DEF loops
  <1>5. PlansKept
    BY <1>3, PlansUnchanged, Zenon DEF Typed, TypeOK, PlanTyped, PlanRecord
  <1>6. disk' \subseteq Nodes /\ replicas \in [Nodes -> {"none", "pending", "ready"}]
    BY <1>3, Zenon DEF Typed, TypeOK
  <1>7. worker'[w].pc # "record" /\ OthersKept(w) /\ UNCHANGED task
    <2>1. Complete(w) \/ Fail(w) \/ Step(w, [worker[w] EXCEPT !.pc = "mark"])
      BY SMTT(30) DEF CopyRecorded
    <2>2. CASE Step(w, [worker[w] EXCEPT !.pc = "mark"])
      <3>1. worker'[w] = [worker[w] EXCEPT !.pc = "mark"] /\ OthersKept(w) /\ UNCHANGED task
        BY <1>1, <2>2, StepWorker, Zenon
      <3>2. QED
        BY <1>1, <3>1 DEF Shape
    <2>3. CASE Complete(w) \/ Fail(w)
      BY <1>1, <2>3, ReturnWorker, SMTT(30)
    <2>4. QED
      BY <2>1, <2>2, <2>3, Zenon
  <1>8. \/ replicas' = [replicas EXCEPT ![TargetOf(w)] = IF worker[w].ok THEN "ready" ELSE "pending"]
        \/ UNCHANGED replicas
    BY Zenon DEF CopyRecorded, updateChunkReplicas
  <1>9. CASE replicas' = [replicas EXCEPT ![TargetOf(w)] = IF worker[w].ok THEN "ready" ELSE "pending"]
    <2>1. /\ replicas' \in [Nodes -> {"none", "pending", "ready"}]
          /\ replicas'[TargetOf(w)] = (IF worker[w].ok THEN "ready" ELSE "pending")
          /\ \A n \in Nodes \ {TargetOf(w)} : replicas'[n] = replicas[n]
      BY <1>2, <1>6, <1>9, SMTT(30)
    <2>2. Typed'
      BY <1>3, <1>5, <1>6, <1>7, <2>1, ExecutorTypes, Zenon
    <2>3. Records(w)
      BY <1>1, <1>3, <1>4, <1>7, <2>1, Zenon DEF Records
    <2>4. QED
      BY <2>2, <2>3, Zenon DEF Effect
  <1>10. CASE UNCHANGED replicas
    BY <1>3, <1>7, <1>10, WorkerOnly, ZenonT(60) DEF rows
  <1>11. QED
    BY <1>8, <1>9, <1>10, Zenon

\* The copy or the cleanup ends the plan.
LEMMA EndEffect ==
    ASSUME DeliveryInv, Typed, Stages, NEW w \in Workers, CopyMarksPlan(w) \/ RemoveSourceRow(w)
    PROVE  Typed' /\ Effect
  <1> DEFINE p == TaskOf(w).plan
  <1>1. Shape /\ worker[w].pc \in Executing
    BY SMTT(30) DEF DeliveryInv, CopyMarksPlan, RemoveSourceRow, Executing
  <1>2. UNCHANGED <<present, disk, loops, faults>>
    BY Zenon DEF CopyMarksPlan, RemoveSourceRow
  <1>3. UNCHANGED cleaner
    BY <1>2, Zenon DEF loops
  <1>4. worker'[w].pc # "record" /\ OthersKept(w) /\ UNCHANGED task
    <2>1. Complete(w) \/ Fail(w)
      BY Zenon DEF CopyMarksPlan, RemoveSourceRow, FailOrRetryPlan
    <2>2. QED
      BY <1>1, <2>1, ReturnWorker
  <1>5. PlanTyped /\ disk' \subseteq Nodes /\ replicas \in [Nodes -> {"none", "pending", "ready"}]
    BY <1>2, Zenon DEF Typed, TypeOK, PlanTyped, PlanRecord
  <1>6. UNCHANGED replicas \/ \E s : replicas' = [replicas EXCEPT ![s] = "none"]
    BY Zenon DEF CopyMarksPlan, RemoveSourceRow, removeChunkReplica
  <1>7. replicas' \in [Nodes -> {"none", "pending", "ready"}] /\ RowsFewer
    BY <1>5, <1>6 DEF RowsFewer
  <1>8. PlansKept
    <2>1. UNCHANGED plan \/ updateReplicaPlan(p, "done") \/ updateReplicaPlan(p, "cleanup_ready")
      BY Zenon DEF CopyMarksPlan, RemoveSourceRow
    <2>2. w[2] # "repair"
      BY DEF Stages, CopyMarksPlan, RemoveSourceRow
    <2>5. Made(p)
      BY <1>1, <2>2, WorkerTask, Zenon DEF Typed
    <2>3. "done" \in {"done"} \cup ActiveStates /\ "cleanup_ready" \in {"done"} \cup ActiveStates
      BY SMTT(30) DEF ActiveStates
    <2>4. QED
      BY <1>5, <2>1, <2>5, <2>3, PlanUpdated, PlansUnchanged, Zenon
  <1>9. Typed'
    BY <1>2, <1>4, <1>5, <1>7, <1>8, ExecutorTypes, Zenon
  <1>10. Quiet
    BY <1>2, <1>3, <1>4, <1>7, <1>8, NoRecord, Zenon DEF Quiet, CleanerFewer
  <1>11. QED
    BY <1>9, <1>10, ZenonT(60) DEF Effect

\* The source's data is deleted.
LEMMA DeleteEffect ==
    ASSUME DeliveryInv, Typed, NEW w \in Workers, DeleteSourceData(w)
    PROVE  Typed' /\ Effect
  <1>1. Shape /\ worker[w].pc \in Executing /\ w[2] = "cleanup"
    BY DEF DeliveryInv, DeleteSourceData, Executing
  <1>2. UNCHANGED <<present, replicas, plan, loops, faults>>
    BY Zenon DEF DeleteSourceData
  <1>3. UNCHANGED cleaner
    BY <1>2, Zenon DEF loops
  <1>4. PlansKept
    BY <1>2, PlansUnchanged, Zenon DEF Typed, TypeOK, PlanTyped, PlanRecord
  <1>5. worker'[w].pc # "record" /\ OthersKept(w) /\ UNCHANGED task
    <2>1. Complete(w) \/ Fail(w) \/ Step(w, [worker[w] EXCEPT !.pc = "remove"])
      BY Zenon DEF DeleteSourceData, FailOrRetryPlan
    <2>2. CASE Step(w, [worker[w] EXCEPT !.pc = "remove"])
      <3>1. worker'[w] = [worker[w] EXCEPT !.pc = "remove"] /\ OthersKept(w) /\ UNCHANGED task
        BY <1>1, <2>2, StepWorker, Zenon
      <3>2. QED
        BY <1>1, <3>1, SMTT(30) DEF Shape
    <2>3. CASE Complete(w) \/ Fail(w)
      BY <1>1, <2>3, ReturnWorker
    <2>4. QED
      BY <2>1, <2>2, <2>3, Zenon
  <1>6. UNCHANGED disk \/ disk' = disk \ {plan[TaskOf(w).plan].source}
    BY Zenon DEF DeleteSourceData
  <1>7. CASE UNCHANGED disk
    BY <1>2, <1>5, <1>7, WorkerOnly, Zenon DEF rows
  <1>8. CASE disk' = disk \ {plan[TaskOf(w).plan].source}
    <2>1. disk' \subseteq Nodes /\ replicas' \in [Nodes -> {"none", "pending", "ready"}]
      BY <1>2, <1>8, Zenon DEF Typed, TypeOK
    <2>2. Typed'
      BY <1>2, <1>4, <1>5, <2>1, ExecutorTypes, Zenon
    <2>3. Deletes(w)
      BY <1>1, <1>2, <1>3, <1>5, <1>8, Zenon DEF Deletes
    <2>4. QED
      BY <2>2, <2>3, Zenon DEF Effect
  <1>9. QED
    BY <1>6, <1>7, <1>8, Zenon

-----------------------------------------------------------------------------
(* The steps of the leader. *)

\* The states of the cleanup loop, as TypeOK has them.
CleanerRecord == [pc : {"idle", "publish", "mark"}, plan : PlanIDs \cup {0}]

\* The types of what the leader changes when it makes no plan.
LEMMA LeaderTypes ==
    ASSUME Typed, PlansKept, UNCHANGED task, UNCHANGED disk, present' \in BOOLEAN,
           replicas' \in [Nodes -> {"none", "pending", "ready"}], faults' \in 0..MaxFaults,
           planner' \in {planner, 0}, todo' \subseteq todo, cleaner' \in CleanerRecord,
           cleaner'.pc # "idle" => cleaner.pc # "idle" /\ cleaner'.plan = cleaner.plan
    PROVE  Typed'
  <1>1. PlansOK'
    BY LoopsKept, Zenon DEF Typed
  <1>2. planner' \in PlanIDs \cup {0}
    BY DEF Typed, TypeOK
  <1>3. plan' \in [PlanIDs -> PlanRecord] /\ disk' \subseteq Nodes /\ todo' \subseteq PlanIDs
    BY Zenon DEF PlansKept, Typed, TypeOK
  <1>4. TypeOK'
    BY <1>2, <1>3, Zenon DEF TypeOK, PlanRecord, CleanerRecord
  <1>5. QED
    BY <1>1, <1>4, Zenon DEF Typed

\* The types, one by one.
LEMMA TypesOf ==
    ASSUME Typed
    PROVE  /\ PlanTyped /\ present \in BOOLEAN /\ disk \subseteq Nodes /\ todo \subseteq PlanIDs
           /\ replicas \in [Nodes -> {"none", "pending", "ready"}]
           /\ planner \in PlanIDs \cup {0} /\ cleaner \in CleanerRecord /\ faults \in 0..MaxFaults
           /\ NoCleaner \in CleanerRecord /\ NoCleaner.pc = "idle"
  <1>1. NoCleaner \in CleanerRecord /\ NoCleaner.pc = "idle"
    BY DEF NoCleaner, CleanerRecord
  <1>2. QED
    BY <1>1, Zenon DEF Typed, TypeOK, PlanTyped, PlanRecord, CleanerRecord

\* Planning a move or a failover.
LEMMA PlanEffect ==
    ASSUME Typed, NEW s \in Nodes, NEW t \in Nodes, planReplicaMove(s, t) \/ planChunkFailover(s, t)
    PROVE  Typed' /\ Effect
  <1>1. /\ replicas[s] # "none" /\ replicas[t] = "none"
        /\ replicas' = [replicas EXCEPT ![t] = "pending"]
    BY DEF planReplicaMove, planChunkFailover, updateChunkReplicas, Ready
  <1>2. UNCHANGED <<delivery, present, disk, todo, cleaner, faults>>
    BY Zenon DEF planReplicaMove, planChunkFailover
  <1>3. UNCHANGED <<task, worker>>
    BY <1>2, Zenon DEF delivery
  <1>4. NewPlanMade(s, t)
    BY NewPlanMakes, TypesOf, Zenon DEF planReplicaMove, planChunkFailover
  <1>5. PICK p \in PlanIDs :
            /\ ~ Made(p) /\ planner' = p
            /\ plan'[p] # NoPlan /\ plan'[p].source = s /\ plan'[p].target = t
            /\ \A q \in PlanIDs \ {p} : plan'[q] = plan[q]
    BY <1>4, Zenon DEF NewPlanMade
  <1>6. /\ replicas' \in [Nodes -> {"none", "pending", "ready"}] /\ replicas'[t] = "pending"
        /\ \A n \in Nodes \ {t} : replicas'[n] = replicas[n]
    BY <1>1, TypesOf
  <1>7. TypeOK'
    <2>1. planner' \in PlanIDs \cup {0}
      BY <1>5
    <2>2. plan' \in [PlanIDs -> PlanRecord]
      BY <1>4, Zenon DEF NewPlanMade
    <2>3. QED
      BY <1>2, <1>6, <2>1, <2>2, Zenon DEF Typed, TypeOK, PlanRecord
  <1>8. \A q : Made(q) => q \in PlanIDs /\ plan'[q] # NoPlan /\ plan'[q] = plan[q]
    BY <1>5, Zenon DEF Made
  <1>9. PlansOK'
    <2>1. ASSUME NEW q \in PlanIDs, Made(q)'
          PROVE  plan'[q].source \in Nodes /\ plan'[q].target \in Nodes /\ plan'[q].source # plan'[q].target
      <3>1. CASE q = p
        BY <1>1, <1>5, <3>1
      <3>2. CASE q # p
        BY <1>5, <2>1, <3>2, Zenon DEF Made, Typed, PlansOK
      <3>3. QED
        BY <3>1, <3>2, Zenon
    <2>2. Made(planner)'
      BY <1>5, Zenon DEF Made
    <2>3. (\A q \in todo' : Made(q)') /\ (cleaner'.pc # "idle" => Made(cleaner.plan)')
      <3>1. (\A q \in todo' : Made(q)) /\ (cleaner'.pc # "idle" => Made(cleaner'.plan))
        BY <1>2, Zenon DEF Typed, PlansOK
      <3>2. QED
        BY <1>8, <3>1, Zenon DEF Made
    <2>4. \A id \in EventIDs :
            /\ task'[id].kind = "repair" => task'[id].target \in Nodes
            /\ task'[id].kind \in Kinds \ {"repair"} => Made(task[id].plan)'
      <3>1. \A id \in EventIDs :
              /\ task'[id].kind = "repair" => task'[id].target \in Nodes
              /\ task'[id].kind \in Kinds \ {"repair"} => Made(task'[id].plan)
        BY <1>3, Zenon DEF Typed, PlansOK
      <3>2. QED
        BY <1>8, <3>1, Zenon DEF Made
    <2>5. QED
      BY <2>1, <2>2, <2>3, <2>4, Zenon DEF PlansOK
  <1>10. Plans(s, t)
    BY <1>1, <1>2, <1>3, <1>4, <1>6, ZenonT(60) DEF Plans
  <1>11. QED
    BY <1>7, <1>9, <1>10, Zenon DEF Typed, Effect

\* The publication of a task.
LEMMA PublishEffect ==
    ASSUME Shape, Typed, NEW t, publishTask(t),
           t.kind = "repair" => t.target \in Nodes /\ replicas[t.target] = "pending",
           t.kind \in Kinds \ {"repair"} => Made(t.plan),
           t.kind = "cleanup" => cleaner.pc = "publish" /\ t.plan = cleaner.plan,
           CleanerFewer, UNCHANGED <<rows, todo, faults>>, planner' \in {planner, 0},
           cleaner' \in CleanerRecord,
           cleaner'.pc # "idle" => cleaner.pc # "idle" /\ cleaner'.plan = cleaner.plan
    PROVE  Typed' /\ Effect
  <1>1. PICK id \in EventIDs : task[id] = NoTask /\ task' = [task EXCEPT ![id] = t]
    BY ZenonT(60) DEF publishTask, newEnvelopeID
  <1>2. task'[id] = t /\ \A j \in EventIDs \ {id} : task'[j] = task[j]
    BY <1>1 DEF Shape
  <1>3. UNCHANGED <<present, replicas, disk, plan, worker>>
    BY Zenon DEF rows, publishTask, consumers
  <1>4. \A p : Made(p) => Made(p)'
    BY <1>3, Zenon DEF Made
  <1>5. TypeOK'
    <2>1. planner' \in PlanIDs \cup {0}
      BY DEF Typed, TypeOK
    <2>2. QED
      BY <1>3, <2>1, Zenon DEF Typed, TypeOK, CleanerRecord
  <1>6. PlansOK'
    <2>1. \A p \in PlanIDs : Made(p)' =>
            plan'[p].source \in Nodes /\ plan'[p].target \in Nodes /\ plan'[p].source # plan'[p].target
      BY <1>3, Zenon DEF Made, Typed, PlansOK
    <2>2. planner' # 0 => Made(planner)'
      <3>1. planner' # 0 => planner' = planner
        OBVIOUS
      <3>2. QED
        BY <1>3, <3>1, Zenon DEF Made, Typed, PlansOK
    <2>3. (\A q \in todo' : Made(q)') /\ (cleaner'.pc # "idle" => Made(cleaner.plan)')
      BY <1>3, Zenon DEF Made, Typed, PlansOK
    <2>4. ASSUME NEW j \in EventIDs
          PROVE  /\ task'[j].kind = "repair" => task'[j].target \in Nodes
                 /\ task'[j].kind \in Kinds \ {"repair"} => Made(task[j].plan)'
      <3>1. CASE j = id
        BY <1>2, <1>3, <3>1, Zenon DEF Made
      <3>2. CASE j # id
        BY <1>2, <1>3, <3>2, Zenon DEF Made, Typed, PlansOK
      <3>3. QED
        BY <3>1, <3>2, Zenon
    <2>5. QED
      BY <2>1, <2>2, <2>3, <2>4, Zenon DEF PlansOK
  <1>7. Publishes(t)
    BY <1>1, <1>3, Zenon DEF Publishes
  <1>8. QED
    BY <1>5, <1>6, <1>7, Zenon DEF Typed, Effect

\* A step of the leader's loops without a plan or a task.
LEMMA QuietLoops ==
    ASSUME Typed, PlansKept, UNCHANGED <<delivery, present, disk, faults>>,
           replicas' \in [Nodes -> {"none", "pending", "ready"}], RowsFewer,
           planner' \in {planner, 0}, todo' \subseteq todo, cleaner' \in {cleaner, NoCleaner}
    PROVE  Typed' /\ Effect
  <1>1. UNCHANGED <<task, worker>>
    BY Zenon DEF delivery
  <1>2. cleaner' \in CleanerRecord /\ (cleaner'.pc # "idle" => cleaner' = cleaner)
    <2>1. cleaner' = cleaner \/ cleaner' = NoCleaner
      OBVIOUS
    <2>2. QED
      BY <2>1, TypesOf, Zenon
  <1>3. present' \in BOOLEAN /\ faults' \in 0..MaxFaults
    BY TypesOf, Zenon
  <1>4. Typed'
    BY <1>1, <1>2, <1>3, LeaderTypes, Zenon
  <1>5. CleanerFewer
    <2>1. "publish" # "idle"
      OBVIOUS
    <2>2. QED
      BY <1>2, <2>1, Zenon DEF CleanerFewer
  <1>6. Quiet
    BY <1>1, <1>5, Zenon DEF Quiet, RecordsFewer
  <1>7. QED
    BY <1>4, <1>6, Zenon DEF Effect

\* The rows stay.
LEMMA SameRows ==
    ASSUME Typed, UNCHANGED replicas
    PROVE  replicas' \in [Nodes -> {"none", "pending", "ready"}] /\ RowsFewer
  BY TypesOf, Zenon DEF RowsFewer

\* The steps of the leader.
LEMMA LeaderEffect ==
    ASSUME DeliveryInv, Typed, Leader
    PROVE  Typed' /\ Effect
  <1>1. Shape /\ PlanTyped
    BY TypesOf, Zenon DEF DeliveryInv
  <1>2. CASE PublishPlan
    <2> DEFINE t == [kind |-> plan[planner].type, plan |-> planner,
                     source |-> plan[planner].source, target |-> plan[planner].target]
    <2>1. publishTask(t) /\ planner' = 0 /\ planner # 0 /\ UNCHANGED <<rows, todo, cleaner, faults>>
      BY <1>2, ZenonT(60) DEF PublishPlan
    <2>2. Made(planner)
      BY <2>1, ZenonT(60) DEF Typed, PlansOK
    <2>3. plan[planner].type \notin {"repair", "cleanup"}
      BY <1>1, <2>2, TasksAssumption, SMTT(30) DEF PlanTyped, PlanRecord, Made
    <2>4. t.kind # "repair" /\ t.kind # "cleanup" /\ t.plan = planner
      BY <2>3
    <2> HIDE DEF t
    <2>5. /\ planner' \in {planner, 0} /\ cleaner' \in CleanerRecord
          /\ cleaner'.pc # "idle" => cleaner.pc # "idle" /\ cleaner'.plan = cleaner.plan
          /\ CleanerFewer
      <3>1. cleaner' = cleaner /\ planner' = 0
        BY <2>1, Zenon
      <3>2. QED
        BY <3>1, TypesOf, Zenon DEF CleanerFewer
    <2>6. QED
      BY <1>1, <2>1, <2>2, <2>4, <2>5, PublishEffect, Zenon
  <1>3. ASSUME NEW s \in Nodes, NEW n \in Nodes, repairChunk(s, n) PROVE Typed' /\ Effect
    <2> DEFINE t == [kind |-> "repair", plan |-> 0, source |-> s, target |-> n]
    <2>1. publishTask(t) /\ replicas[n] = "pending" /\ UNCHANGED <<rows, loops, faults>>
      BY <1>3, Zenon DEF repairChunk
    <2>2. t.kind = "repair" /\ t.kind # "cleanup" /\ t.target = n /\ t.kind \notin Kinds \ {"repair"}
      OBVIOUS
    <2> HIDE DEF t
    <2>3. UNCHANGED <<planner, todo, cleaner>>
      BY <2>1, Zenon DEF loops
    <2>4. /\ planner' \in {planner, 0} /\ cleaner' \in CleanerRecord
          /\ cleaner'.pc # "idle" => cleaner.pc # "idle" /\ cleaner'.plan = cleaner.plan
          /\ CleanerFewer
      BY <2>3, TypesOf, Zenon DEF CleanerFewer
    <2>5. QED
      BY <1>1, <2>1, <2>2, <2>3, <2>4, PublishEffect, Zenon
  <1>4. CASE PublishCleanup
    <2> DEFINE t == [kind |-> "cleanup", plan |-> cleaner.plan, source |-> None, target |-> None]
    <2>1. /\ publishTask(t) /\ cleaner.pc = "publish" /\ UNCHANGED <<rows, planner, todo, faults>>
          /\ cleaner' = [cleaner EXCEPT !.pc = "mark"]
      BY <1>4, Zenon DEF PublishCleanup
    <2>2. t.kind = "cleanup" /\ t.kind # "repair" /\ t.plan = cleaner.plan
      OBVIOUS
    <2> HIDE DEF t
    <2>3. cleaner' \in CleanerRecord /\ cleaner'.pc = "mark" /\ cleaner'.plan = cleaner.plan
      BY <2>1, TypesOf DEF CleanerRecord
    <2>4. cleaner.pc # "idle" /\ cleaner'.pc # "publish" /\ planner' \in {planner, 0}
      BY <2>1, <2>3
    <2>5. Made(cleaner.plan)
      BY <2>4, Zenon DEF Typed, PlansOK
    <2>6. QED
      BY <1>1, <2>1, <2>2, <2>3, <2>4, <2>5, PublishEffect, Zenon DEF CleanerFewer
  <1>5. CASE RollbackPlan
    <2>1. /\ UNCHANGED <<delivery, present, disk, todo, cleaner, faults>> /\ planner' = 0
          /\ planner # 0
      BY <1>5, Zenon DEF RollbackPlan
    <2>2. Made(planner)
      BY <2>1, Zenon DEF Typed, PlansOK
    <2>3. PlansKept
      BY <1>1, <1>5, <2>2, PlanDeleted, PlansUnchanged, Zenon DEF RollbackPlan
    <2>4. UNCHANGED replicas \/ \E n : replicas' = [replicas EXCEPT ![n] = "none"]
      BY <1>5, Zenon DEF RollbackPlan, updateChunkReplicas
    <2>5. replicas' \in [Nodes -> {"none", "pending", "ready"}] /\ RowsFewer
      BY <2>4, TypesOf DEF RowsFewer
    <2>6. planner' \in {planner, 0} /\ todo' \subseteq todo /\ cleaner' \in {cleaner, NoCleaner}
      BY <2>1
    <2>7. QED
      BY <2>1, <2>3, <2>5, <2>6, QuietLoops, Zenon
  <1>6. CASE CleanupOnce
    <2>1. /\ UNCHANGED <<delivery, rows, planner, cleaner, faults>>
          /\ todo' = {p \in PlanIDs : plan[p].state = "materialized"}
      BY <1>6, Zenon DEF CleanupOnce
    <2>2. UNCHANGED <<present, replicas, disk, plan, task, worker>>
      BY <2>1, Zenon DEF rows, delivery
    <2>3. PlansKept
      BY <1>1, <2>2, PlansUnchanged, Zenon
    <2>4. todo' \subseteq PlanIDs /\ \A p \in todo' : Made(p)'
      BY <2>1, <2>2 DEF Made, NoPlan
    <2>5. TypeOK'
      BY <2>1, <2>2, <2>4, Zenon DEF Typed, TypeOK
    <2>6. PlansOK'
      BY <2>1, <2>2, <2>4, Zenon DEF Typed, PlansOK, Made
    <2>7. Quiet
      BY <2>1, <2>2, <2>3, Zenon DEF Quiet, RowsFewer, CleanerFewer, RecordsFewer
    <2>8. QED
      BY <2>5, <2>6, <2>7, Zenon DEF Typed, Effect
  <1>7. ASSUME NEW p \in PlanIDs, finalizeCompletedPlan(p) PROVE Typed' /\ Effect
    <2>1. /\ UNCHANGED <<delivery, rows, planner, faults>> /\ p \in todo /\ todo' \subseteq todo
          /\ \/ cleaner' = NoCleaner
             \/ cleaner' = [pc |-> "publish", plan |-> p] /\ plan[p].target \in Ready
      BY <1>7, Zenon DEF finalizeCompletedPlan
    <2>2. UNCHANGED <<present, replicas, disk, plan, task, worker>>
      BY <2>1, Zenon DEF rows, delivery
    <2>3. CASE cleaner' = NoCleaner
      <3>1. PlansKept
        BY <1>1, <2>2, PlansUnchanged, Zenon
      <3>2. planner' \in {planner, 0} /\ cleaner' \in {cleaner, NoCleaner}
        BY <2>1, <2>3
      <3>3. QED
        BY <2>1, <2>2, <3>1, <3>2, SameRows, QuietLoops, Zenon
    <2>4. CASE cleaner' = [pc |-> "publish", plan |-> p] /\ plan[p].target \in Ready
      <3>1. cleaner' \in CleanerRecord /\ cleaner'.plan = p
        BY <2>4 DEF CleanerRecord
      <3>2. Made(p)
        BY <2>1, Zenon DEF Typed, PlansOK
      <3>3. TypeOK'
        <4>1. todo' \subseteq PlanIDs
          BY <2>1, TypesOf, Zenon
        <4>2. QED
          BY <2>1, <2>2, <3>1, <4>1, Zenon DEF Typed, TypeOK, CleanerRecord
      <3>4. PlansOK'
        BY <2>1, <2>2, <3>1, <3>2, Zenon DEF Typed, PlansOK, Made
      <3>5. Chooses(p)
        BY <2>2, <2>4, <3>1, <3>2, Zenon DEF Chooses, Ready
      <3>6. QED
        BY <3>3, <3>4, <3>5, Zenon DEF Typed, Effect
    <2>5. QED
      BY <2>1, <2>3, <2>4, Zenon
  <1>8. CASE CleanupNotPublished
    <2>1. UNCHANGED <<delivery, rows, planner, faults>> /\ cleaner' = NoCleaner
      BY <1>8, Zenon DEF CleanupNotPublished
    <2>2. UNCHANGED <<present, replicas, disk, plan>>
      BY <2>1, Zenon DEF rows
    <2>3. PlansKept
      BY <1>1, <2>2, PlansUnchanged, Zenon
    <2>4. todo' \subseteq todo /\ planner' \in {planner, 0} /\ cleaner' \in {cleaner, NoCleaner}
      BY <1>8, <2>1 DEF CleanupNotPublished
    <2>5. QED
      BY <2>1, <2>2, <2>3, <2>4, SameRows, QuietLoops, Zenon
  <1>9. CASE MarkCleanupReady
    <2>1. /\ UNCHANGED <<delivery, present, replicas, disk, planner, faults>> /\ cleaner' = NoCleaner
          /\ cleaner.pc = "mark" /\ updateReplicaPlan(cleaner.plan, "cleanup_ready")
      BY <1>9, Zenon DEF MarkCleanupReady
    <2>2. cleaner.pc # "idle" /\ "cleanup_ready" \in {"done"} \cup ActiveStates
      BY <2>1 DEF ActiveStates
    <2>3. Made(cleaner.plan)
      BY <2>2, Zenon DEF Typed, PlansOK
    <2>4. PlansKept
      BY <1>1, <2>1, <2>2, <2>3, PlanUpdated, Zenon
    <2>5. todo' \subseteq todo /\ planner' \in {planner, 0} /\ cleaner' \in {cleaner, NoCleaner}
      BY <1>9, <2>1 DEF MarkCleanupReady
    <2>6. QED
      BY <2>1, <2>4, <2>5, SameRows, QuietLoops, Zenon
  <1>10. QED
    BY <1>2, <1>3, <1>4, <1>5, <1>6, <1>7, <1>8, <1>9, PlanEffect, Zenon DEF Leader

-----------------------------------------------------------------------------
(* The other steps. *)

\* The delivery takes a worker to the start of an executor or to its end.
LEMMA DeliveryEffect ==
    ASSUME DeliveryInv, Typed, NEW w \in Workers, Delivery(w)
    PROVE  Typed' /\ Effect
  <1>1. Shape
    BY Zenon DEF DeliveryInv
  <1>2. UNCHANGED <<rows, loops, faults, task>>
    BY Zenon DEF Delivery, Handle, RouteFailure, Ack, broker
  <1>3. UNCHANGED <<present, replicas, disk, plan, planner, todo, cleaner>>
    BY <1>2, Zenon DEF rows, loops
  <1>4. \/ UNCHANGED worker
        \/ \E m : worker' = [worker EXCEPT ![w] = [IdleWorker EXCEPT !.pc = "start", !.msg = m]]
        \/ worker' = [worker EXCEPT ![w].pc = "acking"]
        \/ worker' = [worker EXCEPT ![w] = IdleWorker]
    BY Zenon DEF Delivery, Handle, RouteFailure, Ack, consumers
  <1>5. CASE UNCHANGED worker
    <2>1. PlansKept /\ disk' \subseteq Nodes /\ replicas' \in [Nodes -> {"none", "pending", "ready"}]
      BY <1>3, PlansUnchanged, TypesOf, Zenon
    <2>2. Typed'
      BY <1>2, <1>3, <2>1, ExecutorTypes, Zenon
    <2>3. Quiet
      BY <1>2, <1>3, <1>5, <2>1, Zenon DEF Quiet, RowsFewer, CleanerFewer, RecordsFewer
    <2>4. QED
      BY <2>2, <2>3, Zenon DEF Effect
  <1>6. CASE ~ UNCHANGED worker
    <2>1. DOMAIN worker = Workers /\ DOMAIN worker[w] = {"pc", "msg", "source", "ok"}
      BY <1>1, Zenon DEF Shape
    <2>2. ASSUME NEW m, worker' = [worker EXCEPT ![w] = [IdleWorker EXCEPT !.pc = "start", !.msg = m]]
          PROVE  OthersKept(w) /\ worker'[w].pc # "record"
      BY <2>1, <2>2 DEF OthersKept, IdleWorker
    <2>3. ASSUME worker' = [worker EXCEPT ![w].pc = "acking"] \/ worker' = [worker EXCEPT ![w] = IdleWorker]
          PROVE  OthersKept(w) /\ worker'[w].pc # "record"
      BY <2>1, <2>3 DEF OthersKept, IdleWorker
    <2>4. OthersKept(w) /\ worker'[w].pc # "record"
      BY <1>4, <1>6, <2>2, <2>3, Zenon
    <2>5. QED
      BY <1>2, <2>4, WorkerOnly, Zenon
  <1>7. QED
    BY <1>5, <1>6, Zenon

\* A step that starts nothing in the delivery and leaves the loops or ends them.
LEMMA QuietStep ==
    ASSUME Typed, PlansKept, UNCHANGED <<task, disk>>, present' \in BOOLEAN,
           replicas' \in [Nodes -> {"none", "pending", "ready"}], RowsFewer,
           faults' \in 0..MaxFaults, planner' \in {planner, 0}, todo' \subseteq todo,
           cleaner' \in {cleaner, NoCleaner}, RecordsFewer
    PROVE  Typed' /\ Effect
  <1>1. cleaner' \in CleanerRecord /\ (cleaner'.pc # "idle" => cleaner' = cleaner)
    <2>1. cleaner' = cleaner \/ cleaner' = NoCleaner
      OBVIOUS
    <2>2. QED
      BY <2>1, TypesOf, Zenon
  <1>2. Typed'
    BY <1>1, LeaderTypes, Zenon
  <1>3. CleanerFewer
    <2>1. "publish" # "idle"
      OBVIOUS
    <2>2. QED
      BY <1>1, <2>1, Zenon DEF CleanerFewer
  <1>4. QED
    BY <1>2, <1>3, Zenon DEF Quiet, Effect

\* The rows go, all of them, or stay.
LEMMA RowsGo ==
    ASSUME Typed, \/ present' = FALSE /\ replicas' = [n \in Nodes |-> "none"]
                  \/ UNCHANGED <<present, replicas>>
    PROVE  /\ present' \in BOOLEAN
           /\ replicas' \in [Nodes -> {"none", "pending", "ready"}] /\ RowsFewer
  <1>1. CASE present' = FALSE /\ replicas' = [n \in Nodes |-> "none"]
    BY <1>1, Zenon DEF RowsFewer
  <1>2. CASE UNCHANGED <<present, replicas>>
    BY <1>2, TypesOf, SameRows, Zenon
  <1>3. QED
    BY <1>1, <1>2, Zenon

\* DeleteFile, and a restart, which takes the rows of the in-memory store along.
LEMMA RowsEffect ==
    ASSUME Typed, DeleteFile \/ \E p \in Processes : Restart(p)
    PROVE  Typed' /\ Effect
  <1>1. PlansKept
    <2>1. CASE DeleteFile
      <3>1. plan' = [p \in PlanIDs |-> IF Store = "postgres" /\ RowExists(plan[p])
                                      THEN [plan[p] EXCEPT !.state = "deleted"] ELSE plan[p]]
        BY <2>1, Zenon DEF DeleteFile
      <3>2. QED
        BY <3>1, PlansMarked, TypesOf, Zenon
    <2>2. CASE RowsLost
      <3>1. plan' = [p \in PlanIDs |-> IF RowExists(plan[p])
                                      THEN [plan[p] EXCEPT !.state = "deleted"] ELSE plan[p]]
        BY <2>2, Zenon DEF RowsLost
      <3>2. plan' = [p \in PlanIDs |-> IF TRUE /\ RowExists(plan[p])
                                      THEN [plan[p] EXCEPT !.state = "deleted"] ELSE plan[p]]
        BY <3>1
      <3>3. QED
        BY <3>2, PlansMarked, TypesOf, Zenon
    <2>3. CASE UNCHANGED plan
      BY <2>3, PlansUnchanged, TypesOf, Zenon
    <2>4. QED
      BY <2>1, <2>2, <2>3, Zenon DEF Restart
  <1>2. /\ present' \in BOOLEAN
        /\ replicas' \in [Nodes -> {"none", "pending", "ready"}] /\ RowsFewer
    <2>1. \/ present' = FALSE /\ replicas' = [n \in Nodes |-> "none"]
          \/ UNCHANGED <<present, replicas>>
      BY Zenon DEF DeleteFile, Restart, RowsLost
    <2>2. QED
      BY <2>1, RowsGo, Zenon
  <1>3. UNCHANGED <<task, disk>>
    BY Zenon DEF DeleteFile, delivery, Restart, ProcessRestarts
  <1>4. faults' = faults \/ (faults < MaxFaults /\ faults' = faults + 1)
    BY Zenon DEF DeleteFile, Restart
  <1>5. faults' \in 0..MaxFaults
    BY <1>4, TypesOf, TasksAssumption
  <1>6. \/ UNCHANGED <<planner, todo, cleaner>>
        \/ planner' = 0 /\ todo' = {} /\ cleaner' = NoCleaner
    BY Zenon DEF DeleteFile, Restart, loops
  <1>7. planner' \in {planner, 0} /\ todo' \subseteq todo /\ cleaner' \in {cleaner, NoCleaner}
    BY <1>6
  <1>8. RecordsFewer
    <2>1. CASE UNCHANGED worker
      BY <2>1, Zenon DEF RecordsFewer
    <2>2. ASSUME NEW p \in Processes, Restart(p) PROVE RecordsFewer
      <3>1. worker' = [w \in Workers |-> IF w[1] = p THEN IdleWorker ELSE worker[w]]
        BY <2>2, Zenon DEF Restart, ProcessRestarts, Workers
      <3>2. \A w \in Workers : worker'[w] = IdleWorker \/ worker'[w] = worker[w]
        BY <3>1, Zenon
      <3>3. IdleWorker.pc # "record"
        BY DEF IdleWorker
      <3>4. QED
        BY <3>2, <3>3, Zenon DEF RecordsFewer
    <2>3. QED
      BY <2>1, <2>2, Zenon DEF DeleteFile, delivery
  <1>9. QED
    BY <1>1, <1>2, <1>3, <1>5, <1>7, <1>8, QuietStep, Zenon

\* Faults of the loops, the broker and the claims.
LEMMA OtherEffect ==
    ASSUME Typed, Broker \/ Expiry \/ LeaderStops \/ PublicationLost \/ UNCHANGED vars
    PROVE  Typed' /\ Effect
  <1>1. UNCHANGED <<rows, task>>
    BY Zenon DEF Broker, RetryExpires, Expiry, ClaimExpires, LeaderStops, PublicationLost,
       vars, delivery, broker
  <1>2. UNCHANGED <<present, replicas, disk, plan>>
    BY <1>1, Zenon DEF rows
  <1>3. PlansKept /\ present' \in BOOLEAN
    BY <1>2, PlansUnchanged, TypesOf, Zenon
  <1>4. replicas' \in [Nodes -> {"none", "pending", "ready"}] /\ RowsFewer
    BY <1>2, SameRows, Zenon
  <1>5. faults' = faults \/ (faults < MaxFaults /\ faults' = faults + 1)
    BY Zenon DEF Broker, Expiry, LeaderStops, PublicationLost, vars
  <1>6. faults' \in 0..MaxFaults
    BY <1>5, TypesOf, TasksAssumption
  <1>7. \/ UNCHANGED <<planner, todo, cleaner>>
        \/ planner' = 0 /\ todo' = {} /\ cleaner' = NoCleaner
        \/ planner' = 0 /\ UNCHANGED <<todo, cleaner>>
    BY Zenon DEF Broker, Expiry, LeaderStops, PublicationLost, vars, loops
  <1>8. planner' \in {planner, 0} /\ todo' \subseteq todo /\ cleaner' \in {cleaner, NoCleaner}
    BY <1>7
  <1>9. UNCHANGED worker
    BY Zenon DEF Broker, RetryExpires, Expiry, ClaimExpires, LeaderStops, PublicationLost, vars,
       consumers, delivery
  <1>10. RecordsFewer
    BY <1>9, Zenon DEF RecordsFewer
  <1>11. QED
    BY <1>1, <1>2, <1>3, <1>4, <1>6, <1>8, <1>10, QuietStep, Zenon

\* Every step keeps the types and has one of the effects.
LEMMA StepEffect ==
    ASSUME DeliveryInv, Typed, Stages, [Next]_vars
    PROVE  Typed' /\ Effect
  <1>1. ASSUME NEW w \in Workers, Executor(w) PROVE Typed' /\ Effect
    BY <1>1, StartEffect, CopyEffect, RecordEffect, EndEffect, DeleteEffect, Zenon DEF Executor
  <1>2. QED
    BY <1>1, LeaderEffect, DeliveryEffect, RowsEffect, OtherEffect, Zenon DEF Next, Workers

-----------------------------------------------------------------------------
(* The first plan keeps the data. *)

\* The target of an executor stays, when its task and the nodes of the plans do.
LEMMA TargetKept ==
    ASSUME DeliveryInv, PlansOK, NEW w \in Workers, worker[w].pc \in Executing,
           worker'[w].msg = worker[w].msg,
           task'[worker[w].msg.id] = task[worker[w].msg.id],
           \A p \in PlanIDs : Made(p) => plan'[p].target = plan[p].target
    PROVE  TargetOf(w)' = TargetOf(w)
  <1>1. TaskOf(w)' = TaskOf(w)
    BY Zenon DEF TaskOf
  <1>2. TaskOf(w).kind # "repair" => TaskOf(w).plan \in PlanIDs /\ Made(TaskOf(w).plan)
    BY WorkerTask, Zenon DEF Made
  <1>3. QED
    BY <1>1, <1>2, Zenon DEF TargetOf

\* Stages of the executors.
LEMMA RecordExecutes == "record" \in Executing /\ "start" \in Executing /\ "copy" \in Executing
  BY DEF Executing

\* Where the data was stored or was planned to be taken away, it still is.
LEMMA StaysStored ==
    ASSUME disk \subseteq disk',
           \A p \in PlanIDs : Made(p) => Made(p)' /\ plan'[p].source = plan[p].source
    PROVE  \A n, m : m = n /\ Stored(n) => m \in disk' \/ \E p \in PlanIDs : Made(p)' /\ plan'[p].source = m
  BY Zenon DEF Stored

\* A copy that was recorded or is about to be stays where it is.
LEMMA FirstQuiet ==
    ASSUME DeliveryInv, Typed, FirstPlan, Quiet
    PROVE  FirstPlan'
  <1>1. \A p \in PlanIDs : (Made(p)' <=> Made(p)) /\ plan'[p].source = plan[p].source
                           /\ plan'[p].target = plan[p].target
    BY Zenon DEF Quiet, PlansKept
  <1>2. disk \subseteq disk' /\ task' = task
    BY Zenon DEF Quiet
  <1>3. \A n, m : m = n /\ Stored(n) => m \in disk' \/ \E p \in PlanIDs : Made(p)' /\ plan'[p].source = m
    BY <1>1, <1>2, StaysStored, Zenon
  <1>4. disk' # {}
    BY <1>2, Zenon DEF FirstPlan
  <1>6. \A n \in Nodes : replicas'[n] = "ready" => Stored(n)'
    <2>1. "ready" # "none"
      OBVIOUS
    <2>2. \A n \in Nodes : replicas'[n] = "ready" => replicas[n] = "ready"
      BY <2>1, Zenon DEF Quiet, RowsFewer
    <2>3. QED
      BY <1>3, <2>2, Zenon DEF FirstPlan, Stored
  <1>7. ASSUME NEW id \in EventIDs
        PROVE  task'[id].kind = "cleanup" => plan'[task'[id].plan].target \in disk'
    <2>1. "cleanup" \in Kinds \ {"repair"}
      BY SMTT(30) DEF Kinds
    <2>2. task[id].kind = "cleanup" => task[id].plan \in PlanIDs
      BY <2>1, Zenon DEF Typed, PlansOK, Made
    <2>3. QED
      BY <1>1, <1>2, <2>2, Zenon DEF FirstPlan
  <1>8. cleaner'.pc = "publish" => plan'[cleaner'.plan].target \in disk'
    <2>1. "publish" # "idle"
      BY SMTT(30)
    <2>2. cleaner.pc = "publish" => cleaner.plan \in PlanIDs /\ plan[cleaner.plan].target \in disk
      BY <2>1, Zenon DEF Typed, PlansOK, Made, FirstPlan
    <2>3. QED
      BY <1>1, <1>2, <2>2, Zenon DEF Quiet, CleanerFewer
  <1>9. ASSUME NEW w \in Workers, worker'[w].pc = "record", worker'[w].ok
        PROVE  Stored(TargetOf(w))'
    <2>1. worker[w].pc = "record" /\ worker[w].ok /\ worker'[w].msg = worker[w].msg
      BY <1>9, Zenon DEF Quiet, RecordsFewer
    <2>2. Stored(TargetOf(w))
      BY <2>1, Zenon DEF FirstPlan
    <2>3. TargetOf(w)' = TargetOf(w)
      BY <1>1, <1>2, <2>1, TargetKept, RecordExecutes, Zenon DEF Typed
    <2>4. QED
      BY <1>3, <2>2, <2>3, Zenon DEF Stored
  <1>10. QED
    BY <1>4, <1>6, <1>7, <1>8, <1>9, Zenon DEF FirstPlan

\* The first plan: whatever is copied or recorded before it has the data.
LEMMA FirstMade ==
    ASSUME DeliveryInv, Typed, FirstPlan, OnePlan', NEW s \in Nodes, NEW t \in Nodes, Plans(s, t)
    PROVE  FirstPlan'
  <1>1. PICK p \in PlanIDs :
            /\ ~ Made(p) /\ plan'[p] # NoPlan
            /\ \A q \in PlanIDs \ {p} : plan'[q] = plan[q]
    BY Zenon DEF Plans, NewPlanMade
  <1>2. \A q : ~ Made(q)
    BY <1>1, Zenon DEF OnePlan, Made
  <1>3. UNCHANGED <<disk, task, cleaner, worker>>
    BY ZenonT(60) DEF Plans
  <1>4. \A n : Stored(n) => n \in disk'
    BY <1>2, <1>3, Zenon DEF Stored
  <1>7. \A n \in Nodes : replicas'[n] = "ready" => Stored(n)'
    <2>1. replicas'[t] # "ready"
      BY SMTT(30) DEF Plans
    <2>2. QED
      BY <1>4, <2>1, Zenon DEF Plans, FirstPlan, Stored
  <1>8. \A id \in EventIDs : task'[id].kind # "cleanup"
    <2>1. "cleanup" \in Kinds \ {"repair"}
      BY DEF Kinds
    <2>2. QED
      BY <1>2, <1>3, <2>1, Zenon DEF Typed, PlansOK
  <1>9. cleaner'.pc # "publish"
    <2>1. cleaner.pc = "idle"
      BY <1>2, Zenon DEF Typed, PlansOK
    <2>2. QED
      BY <1>3, <2>1, SMTT(30)
  <1>10. ASSUME NEW w \in Workers, worker'[w].pc = "record", worker'[w].ok
         PROVE  Stored(TargetOf(w))'
    <2>1. TargetOf(w)' = TargetOf(w)
      BY <1>2, <1>3, <1>10, TargetKept, RecordExecutes, Zenon DEF Typed
    <2>2. Stored(TargetOf(w))
      BY <1>3, <1>10, Zenon DEF FirstPlan
    <2>3. QED
      BY <1>4, <2>1, <2>2, Zenon DEF Stored
  <1>11. disk' # {}
    BY <1>3, Zenon DEF FirstPlan
  <1>12. QED
    BY <1>7, <1>8, <1>9, <1>10, <1>11, Zenon DEF FirstPlan

\* A task is published: a cleanup only once the target has the data.
LEMMA FirstPublishes ==
    ASSUME DeliveryInv, Typed, FirstPlan, NEW t, Publishes(t)
    PROVE  FirstPlan'
  <1>1. PICK id \in EventIDs : task[id] = NoTask /\ task' = [task EXCEPT ![id] = t]
    BY Zenon DEF Publishes
  <1>2. task'[id] = t /\ \A i \in EventIDs \ {id} : task'[i] = task[i]
    BY <1>1 DEF DeliveryInv, Shape
  <1>3. UNCHANGED <<plan, replicas, disk, worker>>
    BY Zenon DEF Publishes
  <1>4. \A n, m : m = n /\ Stored(n) => m \in disk' \/ \E p \in PlanIDs : Made(p)' /\ plan'[p].source = m
    BY <1>3, Zenon DEF Stored, Made
  <1>6. t.kind = "cleanup" => plan[t.plan].target \in disk
    BY Zenon DEF Publishes, FirstPlan
  <1>7. ASSUME NEW i \in EventIDs
        PROVE  task'[i].kind = "cleanup" => plan'[task'[i].plan].target \in disk'
    BY <1>2, <1>3, <1>6, Zenon DEF FirstPlan
  <1>8. cleaner'.pc = "publish" => plan'[cleaner'.plan].target \in disk'
    BY <1>3, Zenon DEF Publishes, CleanerFewer, FirstPlan
  <1>9. ASSUME NEW w \in Workers, worker'[w].pc = "record", worker'[w].ok
        PROVE  Stored(TargetOf(w))'
    <2>1. worker[w].pc = "record" /\ worker[w].ok /\ worker[w].pc \in Executing
      BY <1>3, <1>9, RecordExecutes, Zenon
    <2>2. worker[w].msg.id \in EventIDs /\ TaskOf(w).kind \in Kinds
      BY <2>1, WorkerTask, Zenon DEF Typed
    <2>3. worker[w].msg.id # id
      <3>1. NoTask.kind \notin Kinds
        BY DEF NoTask, Kinds
      <3>2. QED
        BY <1>1, <2>2, <3>1, Zenon DEF TaskOf
    <2>4. task'[worker[w].msg.id] = task[worker[w].msg.id]
      BY <1>2, <2>2, <2>3, Zenon
    <2>5. TargetOf(w)' = TargetOf(w)
      BY <1>3, <2>1, <2>4, TargetKept, Zenon DEF Typed
    <2>6. Stored(TargetOf(w))
      BY <2>1, Zenon DEF FirstPlan
    <2>7. QED
      BY <1>4, <2>5, <2>6, Zenon DEF Stored
  <1>10. disk' # {} /\ \A n \in Nodes : replicas'[n] = "ready" => Stored(n)'
    BY <1>3, <1>4, Zenon DEF FirstPlan, Stored
  <1>12. QED
    BY <1>7, <1>8, <1>9, <1>10, ZenonT(60) DEF FirstPlan

\* The target of a plan whose cleanup is due has the data: the only node that
\* may be ready without it is the plan's source.
LEMMA FirstChooses ==
    ASSUME DeliveryInv, Typed, FirstPlan, OnePlan, NEW p \in PlanIDs, Chooses(p)
    PROVE  FirstPlan'
  <1>1. UNCHANGED <<plan, replicas, disk, task, worker>> /\ cleaner'.plan = p
    BY Zenon DEF Chooses
  <1>2. plan[p].target \in disk
    <2>1. Made(p) /\ replicas[plan[p].target] = "ready"
      BY Zenon DEF Chooses
    <2>2. plan[p].target \in Nodes /\ plan[p].source # plan[p].target
      BY <2>1, Zenon DEF Typed, PlansOK
    <2>3. plan[p].target \notin disk =>
            \E q \in PlanIDs : Made(q) /\ plan[q].source = plan[p].target
      BY <2>1, <2>2, Zenon DEF FirstPlan, Stored
    <2>4. \A q \in PlanIDs : Made(q) => q = p
      BY <2>1, Zenon DEF OnePlan
    <2>5. QED
      BY <2>2, <2>3, <2>4, Zenon
  <1>3. \A w \in Workers : TargetOf(w)' = TargetOf(w)
    BY <1>1, Zenon DEF TargetOf, TaskOf
  <1>4. \A n, m : m = n /\ Stored(n) => m \in disk' \/ \E q \in PlanIDs : Made(q)' /\ plan'[q].source = m
    BY <1>1, Zenon DEF Stored, Made
  <1>5. \A w \in Workers : worker'[w].pc = "record" /\ worker'[w].ok => Stored(TargetOf(w))'
    <2>1. SUFFICES ASSUME NEW w \in Workers, worker'[w].pc = "record" /\ worker'[w].ok
                   PROVE  Stored(TargetOf(w))'
      BY Zenon
    <2>2. Stored(TargetOf(w))
      BY <1>1, <2>1, Zenon DEF FirstPlan
    <2>3. QED
      BY <1>3, <1>4, <2>2, Zenon DEF Stored
  <1>6. \A n \in Nodes : replicas'[n] = "ready" => Stored(n)'
    BY <1>1, <1>4, Zenon DEF FirstPlan, Stored
  <1>7. QED
    BY <1>1, <1>2, <1>5, <1>6, Zenon DEF FirstPlan

\* A copy is answered.
LEMMA FirstAnswers ==
    ASSUME DeliveryInv, Typed, FirstPlan, NEW w \in Workers, Answers(w)
    PROVE  FirstPlan'
  <1>1. UNCHANGED <<plan, replicas, task, cleaner>> /\ disk \subseteq disk'
    BY Zenon DEF Answers
  <1>2. \A n, m : m = n /\ Stored(n) => m \in disk' \/ \E p \in PlanIDs : Made(p)' /\ plan'[p].source = m
    BY <1>1, Zenon DEF Stored, Made
  <1>3. ASSUME NEW v \in Workers, worker'[v].pc = "record", worker'[v].ok
        PROVE  Stored(TargetOf(v))'
    <2>1. CASE v = w
      <3>1. TargetOf(w)' = TargetOf(w)
        BY <1>1, Zenon DEF Answers, TargetOf, TaskOf
      <3>2. QED
        BY <1>3, <2>1, <3>1, Zenon DEF Answers, Stored
    <2>2. CASE v # w
      <3>1. worker'[v] = worker[v]
        BY <2>2, Zenon DEF Answers, OthersKept
      <3>2. TargetOf(v)' = TargetOf(v)
        BY <1>1, <3>1, Zenon DEF TargetOf, TaskOf
      <3>3. Stored(TargetOf(v))
        BY <1>3, <3>1, Zenon DEF FirstPlan
      <3>4. QED
        BY <1>2, <3>2, <3>3, Zenon DEF Stored
    <2>3. QED
      BY <2>1, <2>2, Zenon
  <1>4. disk' # {}
    BY <1>1, Zenon DEF FirstPlan
  <1>5. \A id \in EventIDs : task'[id].kind = "cleanup" => plan'[task'[id].plan].target \in disk'
    BY <1>1, Zenon DEF FirstPlan
  <1>6. \A n \in Nodes : replicas'[n] = "ready" => Stored(n)'
    BY <1>1, <1>2, Zenon DEF FirstPlan, Stored
  <1>7. cleaner'.pc = "publish" => plan'[cleaner'.plan].target \in disk'
    BY <1>1, Zenon DEF FirstPlan
  <1>8. QED
    BY <1>3, <1>4, <1>5, <1>6, <1>7, Zenon DEF FirstPlan

\* A copy is recorded: the row is the target's, ready when the target has the data.
LEMMA FirstRecords ==
    ASSUME DeliveryInv, Typed, FirstPlan, NEW w \in Workers, Records(w)
    PROVE  FirstPlan'
  <1>1. UNCHANGED <<plan, disk, task, cleaner>>
    BY Zenon DEF Records
  <1>2. \A n, m : m = n /\ Stored(n) => m \in disk' \/ \E p \in PlanIDs : Made(p)' /\ plan'[p].source = m
    BY <1>1, Zenon DEF Stored, Made
  <1>3. worker[w].ok => Stored(TargetOf(w))
    BY Zenon DEF Records, FirstPlan
  <1>5. ASSUME NEW n \in Nodes, replicas'[n] = "ready"
        PROVE  Stored(n)'
    <2>1. CASE n = TargetOf(w)
      <3>1. worker[w].ok
        BY <1>5, <2>1, SMTT(30) DEF Records
      <3>2. QED
        BY <1>2, <1>3, <2>1, <3>1, Zenon DEF Stored
    <2>2. CASE n # TargetOf(w)
      <3>1. Stored(n)
        BY <1>5, <2>2, Zenon DEF Records, FirstPlan
      <3>2. QED
        BY <1>2, <3>1, Zenon DEF Stored
    <2>3. QED
      BY <2>1, <2>2, Zenon
  <1>6. ASSUME NEW v \in Workers, worker'[v].pc = "record", worker'[v].ok
        PROVE  Stored(TargetOf(v))'
    <2>1. worker'[v] = worker[v]
      BY <1>6, Zenon DEF Records, OthersKept
    <2>2. TargetOf(v)' = TargetOf(v)
      BY <1>1, <2>1, Zenon DEF TargetOf, TaskOf
    <2>3. Stored(TargetOf(v))
      BY <1>6, <2>1, Zenon DEF FirstPlan
    <2>4. QED
      BY <1>2, <2>2, <2>3, Zenon DEF Stored
  <1>7. /\ disk' # {}
        /\ \A id \in EventIDs : task'[id].kind = "cleanup" => plan'[task'[id].plan].target \in disk'
        /\ cleaner'.pc = "publish" => plan'[cleaner'.plan].target \in disk'
    BY <1>1, Zenon DEF FirstPlan
  <1>8. QED
    BY <1>5, <1>6, <1>7, Zenon DEF FirstPlan

\* The source's data is deleted: the target has it, and is another node.
LEMMA FirstDeletes ==
    ASSUME DeliveryInv, Typed, FirstPlan, OnePlan, NEW w \in Workers, Deletes(w)
    PROVE  FirstPlan'
  <1> DEFINE p == TaskOf(w).plan
  <1>1. UNCHANGED <<plan, replicas, task, cleaner>> /\ disk' = disk \ {plan[p].source}
    BY Zenon DEF Deletes
  <1>3. /\ worker[w].msg.id \in EventIDs /\ TaskOf(w).kind = "cleanup" /\ Made(p)
    <2>1. "cleanup" # "repair"
      OBVIOUS
    <2>2. QED
      BY <2>1, WorkerTask, Zenon DEF Deletes, Typed
  <1>4. plan[p].target \in disk
    BY <1>3, Zenon DEF FirstPlan, TaskOf
  <1>5. plan[p].target # plan[p].source
    BY <1>3, Zenon DEF Typed, PlansOK, Made
  <1>6. \A q \in PlanIDs : Made(q) => q = p
    BY <1>3, Zenon DEF OnePlan, Made
  <1>7. \A n, m : m = n /\ Stored(n) => m \in disk' \/ \E q \in PlanIDs : Made(q)' /\ plan'[q].source = m
    <2>1. \A q \in PlanIDs : Made(q) => Made(q)' /\ plan'[q].source = plan[q].source
      BY <1>1, Zenon DEF Made
    <2>2. \E q \in PlanIDs : Made(q)' /\ plan'[q].source = plan[p].source
      BY <1>3, <2>1, Zenon DEF Made
    <2>3. \A n : n \in disk => n \in disk' \/ n = plan[p].source
      BY <1>1, Zenon
    <2>4. QED
      BY <2>1, <2>2, <2>3, Zenon DEF Stored
  <1>8. disk' # {}
    BY <1>1, <1>4, <1>5, Zenon
  <1>9. \A n \in Nodes : replicas'[n] = "ready" => Stored(n)'
    BY <1>1, <1>7, Zenon DEF FirstPlan, Stored
  <1>10. ASSUME NEW id \in EventIDs, task[id].kind = "cleanup"
         PROVE  plan[task[id].plan].target \in disk'
    <2>1. "cleanup" \in Kinds \ {"repair"}
      BY DEF Kinds
    <2>2. Made(task[id].plan)
      BY <1>10, <2>1, Zenon DEF Typed, PlansOK
    <2>3. task[id].plan = p
      BY <1>6, <2>2, Zenon DEF Made
    <2>4. QED
      BY <1>1, <1>4, <1>5, <2>3, Zenon
  <1>11. cleaner.pc = "publish" => plan[cleaner.plan].target \in disk'
    <2>1. "publish" # "idle"
      OBVIOUS
    <2>2. cleaner.pc = "publish" => cleaner.plan = p
      BY <1>6, <2>1, Zenon DEF Typed, PlansOK, Made
    <2>3. QED
      BY <1>1, <1>4, <1>5, <2>2, Zenon
  <1>12. ASSUME NEW v \in Workers, worker'[v].pc = "record", worker'[v].ok
         PROVE  Stored(TargetOf(v))'
    <2>1. worker'[v] = worker[v]
      BY <1>12, Zenon DEF Deletes, OthersKept
    <2>2. TargetOf(v)' = TargetOf(v)
      BY <1>1, <2>1, Zenon DEF TargetOf, TaskOf
    <2>3. Stored(TargetOf(v))
      BY <1>12, <2>1, Zenon DEF FirstPlan
    <2>4. QED
      BY <1>7, <2>2, <2>3, Zenon DEF Stored
  <1>13. QED
    BY <1>1, <1>8, <1>9, <1>10, <1>11, <1>12, Zenon DEF FirstPlan

\* No plan is taken out of the table.
LEMMA PlansStay ==
    ASSUME Effect, OnePlan'
    PROVE  OnePlan
  <1>1. \A p \in PlanIDs : Made(p) => Made(p)'
    <2>1. CASE Quiet
      BY <2>1, Zenon DEF Quiet, PlansKept
    <2>2. ASSUME NEW s \in Nodes, NEW t \in Nodes, Plans(s, t)
          PROVE  \A p \in PlanIDs : Made(p) => Made(p)'
      BY <2>2, Zenon DEF Plans, NewPlanMade, Made
    <2>3. CASE UNCHANGED plan
      BY <2>3, Zenon DEF Made
    <2>4. QED
      BY <2>1, <2>2, <2>3, Zenon DEF Effect, Publishes, Chooses, Answers, Records, Deletes
  <1>2. QED
    BY <1>1, Zenon DEF OnePlan

\* Every step keeps what is so with one plan.
LEMMA FirstStep ==
    ASSUME FirstInv, [Next]_vars
    PROVE  FirstInv'
  <1>1. Typed' /\ Effect
    BY StepEffect, Zenon DEF FirstInv
  <1>2. DeliveryInv' /\ Stages'
    BY Invariance, StepStages, Zenon DEF FirstInv, DeliveryInv
  <1>3. ASSUME OnePlan' PROVE FirstPlan'
    <2>1. OnePlan /\ FirstPlan
      BY <1>1, <1>3, PlansStay, Zenon DEF FirstInv
    <2>2. QED
      BY <1>1, <1>3, <2>1, FirstQuiet, FirstMade, FirstPublishes, FirstChooses, FirstAnswers,
         FirstRecords, FirstDeletes, Zenon DEF FirstInv, Effect
  <1>4. QED
    BY <1>1, <1>2, <1>3, Zenon DEF FirstInv

\* In the first state the nodes with a row have the data, and there are some.
LEMMA FirstInit == Init => FirstInv
  <1> SUFFICES ASSUME Init PROVE FirstInv
    OBVIOUS
  <1>1. DeliveryInv
    BY InitHolds
  <1>2. \A w \in Workers : worker[w].pc = "idle"
    BY SMTT(30) DEF Init, DeliveryInit, Workers, IdleWorker
  <1>3. Stages
    BY <1>2 DEF Stages
  <1>4. \A p \in PlanIDs : plan[p] = NoPlan
    BY DEF Init
  <1>5. \A id \in EventIDs : task[id].kind = "none"
    BY DEF Init, DeliveryInit, NoTask
  <1>6. PICK stored \in SUBSET Nodes, unanswered \in SUBSET Nodes :
            /\ stored # {}
            /\ replicas = [n \in Nodes |-> IF n \in stored THEN "ready"
                                         ELSE IF n \in unanswered THEN "pending" ELSE "none"]
            /\ disk = stored
    BY Zenon DEF Init
  <1>7. planner = 0 /\ todo = {} /\ cleaner.pc = "idle"
    BY DEF Init, NoCleaner
  <1>8. TypeOK
    <2>1. NoPlan \in PlanRecord
      BY DEF NoPlan, PlanRecord
    <2>2. plan \in [PlanIDs -> PlanRecord]
      BY <2>1, Zenon DEF Init
    <2>3. replicas \in [Nodes -> {"none", "pending", "ready"}] /\ disk \subseteq Nodes
      BY <1>6, SMTT(30)
    <2>4. /\ present \in BOOLEAN /\ planner \in PlanIDs \cup {0} /\ todo \subseteq PlanIDs
          /\ faults \in 0..MaxFaults
      BY TasksAssumption, SMTT(30) DEF Init
    <2>5. cleaner \in [pc : {"idle", "publish", "mark"}, plan : PlanIDs \cup {0}]
      BY DEF Init, NoCleaner
    <2>6. QED
      BY <2>2, <2>3, <2>4, <2>5, Zenon DEF TypeOK, PlanRecord
  <1>9. PlansOK
    BY <1>4, <1>5, <1>7, SMTT(30) DEF PlansOK, Made, Kinds
  <1>10. FirstPlan
    <2>1. disk # {}
      BY <1>6
    <2>2. \A n \in Nodes : replicas[n] = "ready" => n \in disk
      BY <1>6, SMTT(30)
    <2>3. \A id \in EventIDs : task[id].kind # "cleanup"
      BY <1>5
    <2>4. cleaner.pc # "publish" /\ \A w \in Workers : worker[w].pc # "record"
      BY <1>2, <1>7
    <2>5. QED
      BY <2>1, <2>2, <2>3, <2>4, Zenon DEF FirstPlan, Stored
  <1>11. QED
    BY <1>1, <1>3, <1>8, <1>9, <1>10, Zenon DEF FirstInv, Typed

\* At most one plan means that no two were made.
LEMMA FewPlans ==
    ASSUME Cardinality({p \in PlanIDs : plan[p] # NoPlan}) <= 1
    PROVE  OnePlan
  <1> DEFINE S == {p \in PlanIDs : plan[p] # NoPlan}
  <1> SUFFICES ASSUME NEW p \in PlanIDs, NEW q \in PlanIDs, Made(p), Made(q), p # q
               PROVE  FALSE
    BY Zenon DEF OnePlan
  <1>1. IsFiniteSet(PlanIDs)
    BY FS_Interval, TasksAssumption DEF PlanIDs
  <1>2. IsFiniteSet(S)
    BY <1>1, FS_Subset, SMTT(30)
  <1>3. {p, q} \subseteq S
    BY DEF Made
  <1>4. Cardinality({p, q}) = 2
    <2>1. IsFiniteSet({p}) /\ Cardinality({p}) = 1 /\ q \notin {p}
      BY FS_Singleton, SMTT(30)
    <2>2. Cardinality({p} \cup {q}) = Cardinality({p}) + 1
      BY <2>1, FS_AddElement
    <2>3. {p, q} = {p} \cup {q}
      OBVIOUS
    <2>4. QED
      BY <2>1, <2>2, <2>3
  <1>5. Cardinality({p, q}) <= Cardinality(S)
    BY <1>2, <1>3, FS_Subset
  <1>6. Cardinality(S) \in Nat
    BY <1>2, FS_CardinalityType
  <1>7. QED
    BY <1>4, <1>5, <1>6, SMTT(30)

\* The invariant of the rows and the plans.
LEMMA FirstInvariant == Spec => []FirstInv
  <1>1. FirstInv /\ [Next]_vars => FirstInv'
    BY FirstStep
  <1>2. QED
    BY <1>1, FirstInit, PTL DEF Spec

\* Type correctness of the rows, the plans and the loops, whatever the executors
\* do with plans that are gone or finished.
THEOREM TypeCorrect == Spec => []TypeOK
  <1>1. FirstInv => TypeOK
    BY Zenon DEF FirstInv, Typed
  <1>2. QED
    BY <1>1, FirstInvariant, PTL

\* As long as there has been one plan, a copy of the chunk's data is left, with
\* any number of deliveries, retries and restarts: ExecuteCleanup deletes the
\* source's data only for a plan whose target was seen ready.
THEOREM FirstPlanSafe == Spec => []FirstPlanKeepsData
  <1>1. FirstInv => FirstPlanKeepsData
    BY FewPlans, Zenon DEF FirstInv, FirstPlan, FirstPlanKeepsData
  <1>2. QED
    BY <1>1, FirstInvariant, PTL
=============================================================================
