----------------------------- MODULE ReplicaTasks -----------------------------
(***************************************************************************)
(* The coordinator in task mode (SetTaskProducer): the leader's loops only *)
(* publish tasks, and the consumers of any process run the executors       *)
(* ExecuteReplicaRepair, ExecuteReplicaPlanCopy and ExecuteCleanup.        *)
(*                                                                         *)
(* The module follows one chunk.  The node table is left out: heartbeats   *)
(* may put any node above or below a limit at any time, so a planner may   *)
(* choose any source and target, and an executor may find any node         *)
(* unusable.  Replication has the node table, and the planners' reads      *)
(* apart from their transactions; here they are one step.                  *)
(***************************************************************************)
EXTENDS TaskDelivery

CONSTANTS
    Nodes,                \* data nodes
    PlanTypes,            \* the planners that run
    Store,                \* "memory" or "postgres"
    DesiredReplicaCount,
    MaxPlans,             \* bound: plans that are ever made
    MaxFaults             \* bound: restarts and publications the broker loses

ASSUME TasksAssumption ==
    /\ PlanTypes \subseteq {"rebalance", "failover"}
    /\ Store \in {"memory", "postgres"}
    \* the in-memory store is a part of its process
    /\ Store = "memory" => \A p, q \in Processes : p = q
    /\ DesiredReplicaCount \in Nat \ {0}
    /\ MaxPlans \in Nat /\ MaxFaults \in Nat

VARIABLES
    present,   \* the chunk's row exists
    replicas,  \* its replica rows
    disk,      \* the nodes that store its data
    plan,      \* the replica plans
    planner,   \* the plan whose task the planner is about to publish, or 0
    todo,      \* the plans CleanupOnce has listed and not yet looked at
    cleaner,   \* the plan finalizeCompletedPlan is at, and where
    faults

rows == <<present, replicas, disk, plan>>
loops == <<planner, todo, cleaner>>
vars == <<delivery, rows, loops, faults>>

-----------------------------------------------------------------------------
PlanIDs == 1..MaxPlans

ActiveStates == {"materialized", "cleanup_ready"}

NoPlan == [state |-> "none", type |-> "none", source |-> None, target |-> None]

NoCleaner == [pc |-> "idle", plan |-> 0]

Ready == {n \in Nodes : replicas[n] = "ready"}

RowExists(pl) == pl.state \in ActiveStates \cup {"done"}

\* UpdateReplicaPlan of a plan that is gone is an error of the in-memory store;
\* Postgres updates no row and reports success.
PlanUpdateFails(p) == Store = "memory" /\ ~ RowExists(plan[p])

updateReplicaPlan(p, state) ==
    plan' = IF RowExists(plan[p]) THEN [plan EXCEPT ![p].state = state] ELSE plan

deleteReplicaPlan(p) == plan' = [plan EXCEPT ![p].state = "deleted"]

\* UpdateChunkReplicas inserts, overwrites or removes the row of a node.
updateChunkReplicas(n, state) ==
    /\ present
    /\ replicas' = [replicas EXCEPT ![n] = state]

removeChunkReplica(n) ==
    /\ present
    /\ replicas[n] # "none"
    /\ replicas' = [replicas EXCEPT ![n] = "none"]

TypeOK ==
    /\ present \in BOOLEAN
    /\ replicas \in [Nodes -> {"none", "pending", "ready"}]
    /\ disk \subseteq Nodes
    /\ plan \in [PlanIDs -> [state : {"none", "deleted", "done"} \cup ActiveStates,
                             type : PlanTypes \cup {"none"},
                             source : Nodes \cup {None}, target : Nodes \cup {None}]]
    /\ planner \in PlanIDs \cup {0}
    /\ todo \subseteq PlanIDs
    /\ cleaner \in [pc : {"idle", "publish", "mark"}, plan : PlanIDs \cup {0}]
    /\ faults \in 0..MaxFaults

Init ==
    /\ DeliveryInit
    /\ present = TRUE
    \* As the gateway commits a chunk: ready where it is stored, pending on the
    \* nodes that did not answer.
    /\ \E stored, unanswered \in SUBSET Nodes :
          /\ stored # {} /\ stored \cap unanswered = {}
          /\ Cardinality(stored \cup unanswered) = DesiredReplicaCount
          /\ replicas = [n \in Nodes |-> IF n \in stored THEN "ready"
                                       ELSE IF n \in unanswered THEN "pending" ELSE "none"]
          /\ disk = stored
    /\ plan = [p \in PlanIDs |-> NoPlan]
    /\ planner = 0
    /\ todo = {}
    /\ cleaner = NoCleaner
    /\ faults = 0

-----------------------------------------------------------------------------
(* The leader's loops. *)

Active(type) == {p \in PlanIDs : plan[p].state \in ActiveStates /\ plan[p].type \in type}

NewPlan(type, s, t) ==
    \E p \in PlanIDs :
        /\ plan[p] = NoPlan
        /\ \A q \in 1..(p - 1) : plan[q] # NoPlan
        /\ plan' = [plan EXCEPT ![p] = [state |-> "materialized", type |-> type,
                                        source |-> s, target |-> t]]
        /\ planner' = p

\* Both planners start from ListChunksByNode, whose query PostgreSQL refuses (see
\* Replication): there they plan nothing.
ListChunksByNodeFails == Store = "postgres"

\* A rebalance plan needs a source that is ready and enough ready replicas, and
\* no plan of the chunk that is still active.
planReplicaMove(s, t) ==
    /\ "rebalance" \in PlanTypes
    /\ planner = 0
    /\ ~ ListChunksByNodeFails
    /\ present
    /\ s \in Ready
    /\ replicas[t] = "none"
    /\ Cardinality(Ready) >= DesiredReplicaCount
    /\ Active({"rebalance", "failover"}) = {}
    /\ NewPlan("rebalance", s, t)
    /\ updateChunkReplicas(t, "pending")
    /\ UNCHANGED <<delivery, present, disk, todo, cleaner, faults>>

\* A failover plan replaces a replica of a node that is taken for lost, whatever
\* the state of the replica.
planChunkFailover(s, t) ==
    /\ "failover" \in PlanTypes
    /\ planner = 0
    /\ ~ ListChunksByNodeFails
    /\ present
    /\ replicas[s] # "none"
    /\ replicas[t] = "none"
    /\ Active({"failover"}) = {}
    /\ NewPlan("failover", s, t)
    /\ updateChunkReplicas(t, "pending")
    /\ UNCHANGED <<delivery, present, disk, todo, cleaner, faults>>

PublishPlan ==
    /\ planner # 0
    /\ publishTask([kind |-> plan[planner].type, plan |-> planner,
                    source |-> plan[planner].source, target |-> plan[planner].target])
    /\ planner' = 0
    /\ UNCHANGED <<rows, todo, cleaner, faults>>

\* The publication fails: rollbackPlannedReplica and rollbackPendingReplica take
\* the target's row and the plan back, without a look at what they have become.
RollbackPlan ==
    /\ planner # 0
    /\ \/ /\ updateChunkReplicas(plan[planner].target, "none")
          /\ deleteReplicaPlan(planner)
       \/ ~ present /\ UNCHANGED <<replicas, plan>>
    /\ planner' = 0
    /\ UNCHANGED <<delivery, present, disk, todo, cleaner, faults>>

\* repairChunk publishes a task for a pending target; deferTargets only spaces
\* the tasks out, so that a target that stays pending gets another one later.
repairChunk(s, t) ==
    /\ present
    /\ s \in Ready
    /\ replicas[t] = "pending"
    /\ publishTask([kind |-> "repair", plan |-> 0, source |-> s, target |-> t])
    /\ UNCHANGED <<rows, loops, faults>>

\* CleanupOnce lists the plans.  Of the ones in cleanup_ready,
\* finalizeCompletedPlan does nothing in task mode, so they are not kept.
CleanupOnce ==
    /\ todo = {}
    /\ cleaner = NoCleaner
    /\ todo' = {p \in PlanIDs : plan[p].state = "materialized"}
    /\ todo' # {}
    /\ UNCHANGED <<delivery, rows, planner, cleaner, faults>>

\* Mutant: the cleanup is published whether or not the target is ready.
FinalizePendingPlan(p) ==
    /\ cleaner = NoCleaner
    /\ p \in todo
    /\ \A q \in todo : p <= q
    /\ todo' = IF present THEN todo \ {p} ELSE {}
    /\ cleaner' = IF present THEN [pc |-> "publish", plan |-> p] ELSE NoCleaner
    /\ UNCHANGED <<delivery, rows, planner, faults>>

\* finalizeCompletedPlan up to the publication: GetChunk and the target's state.
\* An error of GetChunk ends the pass.
finalizeCompletedPlan(p) ==
    /\ cleaner = NoCleaner
    /\ p \in todo
    /\ \A q \in todo : p <= q
    /\ todo' = IF present THEN todo \ {p} ELSE {}
    /\ cleaner' = IF present /\ plan[p].target \in Ready
                  THEN [pc |-> "publish", plan |-> p]
                  ELSE NoCleaner
    /\ UNCHANGED <<delivery, rows, planner, faults>>

PublishCleanup ==
    /\ cleaner.pc = "publish"
    /\ publishTask([kind |-> "cleanup", plan |-> cleaner.plan, source |-> None, target |-> None])
    /\ cleaner' = [cleaner EXCEPT !.pc = "mark"]
    /\ UNCHANGED <<rows, planner, todo, faults>>

\* The publication fails: failOrRetryPlan records the error, and the plan is
\* listed again.
CleanupNotPublished ==
    /\ cleaner.pc = "publish"
    /\ todo' = IF PlanUpdateFails(cleaner.plan) THEN {} ELSE todo
    /\ cleaner' = NoCleaner
    /\ UNCHANGED <<delivery, rows, planner, faults>>

\* UpdateReplicaPlan after the publication, whatever the state is by now.  An
\* error ends the pass.
MarkCleanupReady ==
    /\ cleaner.pc = "mark"
    /\ updateReplicaPlan(cleaner.plan, "cleanup_ready")
    /\ todo' = IF PlanUpdateFails(cleaner.plan) THEN {} ELSE todo
    /\ cleaner' = NoCleaner
    /\ UNCHANGED <<delivery, present, replicas, disk, planner, faults>>

-----------------------------------------------------------------------------
(* The executors, run by the consumers. *)

TaskOf(w) == task[worker[w].msg.id]

\* The node that a copy goes to.
TargetOf(w) ==
    IF TaskOf(w).kind = "repair" THEN TaskOf(w).target ELSE plan[TaskOf(w).plan].target

\* ExecuteReplicaRepair reads the chunk and takes the task's source and target
\* as they are.
ExecuteReplicaRepair(w) ==
    /\ worker[w].pc = "start"
    /\ w[2] = "repair"
    /\ IF present
       THEN Step(w, [worker[w] EXCEPT !.pc = "copy", !.source = TaskOf(w).source])
       ELSE Fail(w)
    /\ UNCHANGED <<rows, loops, faults>>

\* ExecuteReplicaPlanCopy up to the copy.  The state of the plan is not looked
\* at.  selectReplicaCopySource takes the plan's source if it is ready and
\* healthy, otherwise another node that is.
ExecuteReplicaPlanCopy(w) ==
    LET pl == plan[TaskOf(w).plan] IN
    /\ worker[w].pc = "start"
    /\ w[2] \in {"rebalance", "failover"}
    /\ \/ /\ RowExists(pl) /\ present
          /\ \E s \in Ready \ {pl.target} :
                Step(w, [worker[w] EXCEPT !.pc = "copy", !.source = s])
       \/ Fail(w)
    /\ UNCHANGED <<rows, loops, faults>>

\* executeReplicaCopy finds the target unusable: nothing is written, and only a
\* plan's copy takes that for an error.
CopySkipped(w) ==
    /\ worker[w].pc = "copy"
    /\ IF w[2] = "repair" THEN Complete(w) ELSE Fail(w)
    /\ UNCHANGED <<rows, loops, faults>>

\* The call of the source's ReplicateChunk is answered.  A target that is
\* reported ready stores the data; one that is not may store it as well.
CopyAnswered(w, ok) ==
    /\ worker[w].pc = "copy"
    /\ worker[w].source \in disk
    /\ disk' \in {disk \cup {TargetOf(w)}} \cup (IF ok THEN {} ELSE {disk})
    /\ Step(w, [worker[w] EXCEPT !.pc = "record", !.ok = ok])
    /\ UNCHANGED <<present, replicas, plan, loops, faults>>

\* The call fails or its answer is lost.
CopyFails(w) ==
    /\ worker[w].pc = "copy"
    /\ disk' \in {disk} \cup (IF worker[w].source \in disk THEN {disk \cup {TargetOf(w)}} ELSE {})
    /\ Fail(w)
    /\ UNCHANGED <<present, replicas, plan, loops, faults>>

\* UpdateChunkReplicas writes the target's row, also one that was removed since.
CopyRecorded(w) ==
    LET ok == worker[w].ok IN
    /\ worker[w].pc = "record"
    /\ \/ /\ updateChunkReplicas(TargetOf(w), IF ok THEN "ready" ELSE "pending")
          /\ CASE w[2] = "repair" -> Complete(w)
               [] w[2] # "repair" /\ ok -> Step(w, [worker[w] EXCEPT !.pc = "mark"])
               [] OTHER -> Fail(w)
       \/ ~ present /\ UNCHANGED replicas /\ Fail(w)
    /\ UNCHANGED <<present, disk, plan, loops, faults>>

\* The end of ExecuteReplicaPlanCopy: UpdateReplicaPlan, whatever the state.
CopyMarksPlan(w) ==
    LET p == TaskOf(w).plan IN
    /\ worker[w].pc = "mark"
    /\ updateReplicaPlan(p, "cleanup_ready")
    /\ IF PlanUpdateFails(p) THEN Fail(w) ELSE Complete(w)
    /\ UNCHANGED <<present, replicas, disk, loops, faults>>

\* failOrRetryPlan records the error in the plan and reports success.
FailOrRetryPlan(w) ==
    IF PlanUpdateFails(TaskOf(w).plan) THEN Fail(w) ELSE Complete(w)

\* ExecuteCleanup for a rebalance plan: the call of DeleteChunk on the source,
\* without a look at the plan's state or its target.  The answer may be lost.
DeleteSourceData(w) ==
    LET pl == plan[TaskOf(w).plan] IN
    /\ worker[w].pc = "start"
    /\ w[2] = "cleanup"
    /\ pl.type = "rebalance" /\ RowExists(pl)
    /\ \/ /\ pl.source \in disk
          /\ disk' = disk \ {pl.source}
          /\ Step(w, [worker[w] EXCEPT !.pc = "remove"]) \/ FailOrRetryPlan(w)
       \/ UNCHANGED disk /\ FailOrRetryPlan(w)
    /\ UNCHANGED <<present, replicas, plan, loops, faults>>

\* Mutant: the source's row is marked and stays.
MarkSourceRow(w) ==
    LET p == TaskOf(w).plan IN
    /\ worker[w].pc = "remove"
    /\ replicas' = [replicas EXCEPT ![plan[p].source] = "deleted"]
    /\ updateReplicaPlan(p, "done")
    /\ Complete(w)
    /\ UNCHANGED <<present, disk, loops, faults>>

\* The transaction that removes the source's row and ends the plan.
RemoveSourceRow(w) ==
    LET p == TaskOf(w).plan
        s == plan[p].source
    IN  /\ \/ worker[w].pc = "remove"
           \/ /\ worker[w].pc = "start" /\ w[2] = "cleanup"
              /\ plan[p].type = "failover" /\ RowExists(plan[p])
        /\ \/ /\ ~ PlanUpdateFails(p)
              /\ removeChunkReplica(s)
              /\ updateReplicaPlan(p, "done")
              /\ Complete(w)
           \/ /\ PlanUpdateFails(p) \/ ~ present \/ replicas[s] = "none"
              /\ UNCHANGED <<replicas, plan>>
              /\ IF plan[p].type = "failover" THEN Fail(w) ELSE FailOrRetryPlan(w)
        /\ UNCHANGED <<present, disk, loops, faults>>

\* GetReplicaPlan finds no plan.
CleanupFindsNoPlan(w) ==
    /\ worker[w].pc = "start"
    /\ w[2] = "cleanup"
    /\ ~ RowExists(plan[TaskOf(w).plan])
    /\ Fail(w)
    /\ UNCHANGED <<rows, loops, faults>>

-----------------------------------------------------------------------------
(* Deletion and faults. *)

RowsLost ==
    /\ present' = FALSE
    /\ replicas' = [n \in Nodes |-> "none"]
    /\ plan' = [p \in PlanIDs |-> IF RowExists(plan[p])
                                  THEN [plan[p] EXCEPT !.state = "deleted"] ELSE plan[p]]

\* DeleteFile.  The foreign keys of Postgres take the plans along.
DeleteFile ==
    /\ present
    /\ present' = FALSE
    /\ replicas' = [n \in Nodes |-> "none"]
    /\ plan' = [p \in PlanIDs |->
                    IF Store = "postgres" /\ RowExists(plan[p])
                    THEN [plan[p] EXCEPT !.state = "deleted"] ELSE plan[p]]
    /\ UNCHANGED <<delivery, disk, loops, faults>>

\* A process restarts; it may be the one that leads.  The tables of the in-memory
\* store go with it, the data on the nodes does not.
Restart(p) ==
    /\ faults < MaxFaults
    /\ faults' = faults + 1
    /\ ProcessRestarts(p)
    /\ \/ Store = "postgres" /\ UNCHANGED loops
       \/ planner' = 0 /\ todo' = {} /\ cleaner' = NoCleaner
    /\ IF Store = "postgres" THEN UNCHANGED <<present, replicas, plan>> ELSE RowsLost
    /\ UNCHANGED disk

\* The leader's loops are stopped between two steps.
LeaderStops ==
    /\ faults < MaxFaults
    /\ planner # 0 \/ cleaner # NoCleaner
    /\ faults' = faults + 1
    /\ planner' = 0 /\ todo' = {} /\ cleaner' = NoCleaner
    /\ UNCHANGED <<delivery, rows>>

\* A plan's task is lost on the way to the broker, and no confirmation is missed.
PublicationLost ==
    /\ faults < MaxFaults
    /\ planner # 0
    /\ faults' = faults + 1
    /\ planner' = 0
    /\ UNCHANGED <<delivery, rows, todo, cleaner>>

-----------------------------------------------------------------------------
Leader ==
    \/ \E s, t \in Nodes : planReplicaMove(s, t)
    \/ \E s, t \in Nodes : planChunkFailover(s, t)
    \/ PublishPlan
    \/ RollbackPlan
    \/ \E s, t \in Nodes : repairChunk(s, t)
    \/ CleanupOnce
    \/ \E p \in PlanIDs : finalizeCompletedPlan(p)
    \/ PublishCleanup
    \/ CleanupNotPublished
    \/ MarkCleanupReady

Executor(w) ==
    \/ ExecuteReplicaRepair(w)
    \/ ExecuteReplicaPlanCopy(w)
    \/ CopySkipped(w)
    \/ \E ok \in BOOLEAN : CopyAnswered(w, ok)
    \/ CopyFails(w)
    \/ CopyRecorded(w)
    \/ CopyMarksPlan(w)
    \/ DeleteSourceData(w)
    \/ RemoveSourceRow(w)
    \/ CleanupFindsNoPlan(w)

Delivery(w) ==
    /\ \/ \E m \in Envelope : Handle(w, m)
       \/ RouteFailure(w)
       \/ Ack(w)
    /\ UNCHANGED <<rows, loops, faults>>

Broker ==
    /\ \E m \in Envelope : RetryExpires(m)
    /\ UNCHANGED <<rows, loops, faults>>

Expiry ==
    /\ \E p \in Processes, id \in EventIDs : ClaimExpires(p, id)
    /\ UNCHANGED <<rows, loops, faults>>

Next ==
    \/ Leader
    \/ \E w \in Processes \X Kinds : Executor(w) \/ Delivery(w)
    \/ Broker
    \/ Expiry
    \/ DeleteFile
    \/ \E p \in Processes : Restart(p)
    \/ LeaderStops
    \/ PublicationLost

Spec == Init /\ [][Next]_vars

-----------------------------------------------------------------------------
\* A first plan loses nothing, whatever is delivered twice, fails or is retried:
\* the source's data is deleted only after a cleanup task was published, and that
\* only when the target was ready.  (With two plans that move the data there and
\* back, a cleanup task that is delivered again deletes the only copy.)
FirstPlanKeepsData ==
    present /\ Cardinality({p \in PlanIDs : plan[p] # NoPlan}) <= 1 => disk # {}

\* The leader's loops, the executors and the deliveries go on, and retry queues
\* expire.  Which of its outcomes a call has is nobody's promise.
Fairness ==
    /\ WF_vars(PublishPlan \/ RollbackPlan)
    /\ WF_vars(CleanupOnce)
    /\ WF_vars(\E p \in PlanIDs : finalizeCompletedPlan(p))
    /\ WF_vars(PublishCleanup \/ CleanupNotPublished)
    /\ WF_vars(MarkCleanupReady)
    /\ \A w \in Processes \X Kinds : WF_vars(Executor(w) \/ Delivery(w))
    /\ WF_vars(Broker)

FairSpec == Spec /\ Fairness

\* A plan comes to its end once its target is ready, as long as the bound on the
\* messages leaves room: its cleanup task is published and executed.
PlanFinishes ==
    [](task[MaxMessages] = NoTask) =>
        \A p \in PlanIDs :
            present /\ plan[p].state \in ActiveStates /\ plan[p].target \in Ready
                ~> plan[p].state \notin ActiveStates \/ ~ present
=============================================================================
