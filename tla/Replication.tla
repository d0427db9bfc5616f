----------------------------- MODULE Replication -----------------------------
(***************************************************************************)
(* The replica coordination of the metadata service: the failover and the  *)
(* rebalance planner, the replica repairer and the cleanup controller of   *)
(* internal/mds/coordinator, as the leader runs them when no task producer *)
(* is set, over the node, chunk, replica and replica plan tables.          *)
(*                                                                         *)
(* The four loops run concurrently.  Every store call and every call to a  *)
(* data node is a step of its own, and what a loop read stays in its local *)
(* state until it is used.  A loop handles chunks one after the other, but *)
(* reads them in bulk before: it has a local state for each chunk.  Reads  *)
(* of the node table are merged with the read next to them: heartbeats may *)
(* change any node at any time, so nothing is lost.                        *)
(***************************************************************************)
EXTENDS Integers, FiniteSets

CONSTANTS
    Nodes, Chunks,        \* data nodes and chunks
    None,                 \* no node, no plan
    DesiredReplicaCount,  \* ReplicaPolicy.DesiredReplicaCount of the chunks
    Capacity,             \* capacity of a node, and the space that a chunk
    ChunkBytes,           \*   needs (RequiredPlacementBytes), in units
    HighWatermark,        \* usage, in the same units, from which a node is
    LowWatermark,         \*   overfull, and up to which it is underfull
    Loads,                \* the usages that nodes report
    NodeTimeout,          \* whether a missing heartbeat makes a node unavailable
    Planners,             \* the plan types whose planner loop is switched on
    Restarts,             \* whether the leader stops or crashes
    Store,                \* the metadata store: "memory" or "postgres"
    MaxPlans              \* bound: plans that are ever created

ASSUME ReplicationAssumption ==
    /\ DesiredReplicaCount \in Nat \ {0}
    /\ Capacity \in Nat /\ ChunkBytes \in Nat /\ HighWatermark \in 1..Capacity
    /\ LowWatermark \in 0..HighWatermark /\ Loads \subseteq Nat /\ MaxPlans \in Nat
    /\ NodeTimeout \in BOOLEAN /\ Restarts \in BOOLEAN
    /\ Planners \subseteq {"failover", "rebalance"}
    /\ Store \in {"memory", "postgres"}
    /\ IsFiniteSet(Nodes) /\ None \notin Nodes \cup Chunks

VARIABLES
    node,       \* mds_nodes
    present,    \* the chunk rows that exist
    replicas,   \* mds_chunk_replicas: the state of the row for a node, or "none"
    count,      \* mds_chunks.replica_count
    plan,       \* mds_replica_plans, in the order of their creation
    disk,       \* the chunks whose data a data node stores
    failover,   \* FailoverPlanner: what it has read of a chunk
    rebalance,  \* RebalancePlanner: likewise
    copier,     \* PendingReplicaRepairer: likewise
    cleaner     \* CleanupController: the plans left in this pass

tables == <<node, present, replicas, count, plan, disk>>
loops == <<failover, rebalance, copier, cleaner>>
vars == <<node, present, replicas, count, plan, disk, failover, rebalance,
          copier, cleaner>>

-----------------------------------------------------------------------------
\* A silent node has not sent a heartbeat for NodeTimeout; its row still says
\* Healthy, because only a heartbeat changes that.
NodeInfo == [status : {"up", "silent", "down"}, used : Loads]

ReplicaState == {"none", "pending", "ready"}
ReplicaSet == [Nodes -> ReplicaState]

PlanType == {"failover", "rebalance"}
PlanIDs == 1..MaxPlans

\* "none": not created yet; "deleted": removed with the chunk.
ReplicaPlan == [state : {"none", "materialized", "done", "deleted"},
                type : PlanType, chunk : Chunks, source : Nodes, target : Nodes]

NoPlan == [state |-> "none", type |-> None, chunk |-> None, source |-> None,
           target |-> None]

\* The replica rows that there are in a replica set.
Rows(rs) == {n \in Nodes : rs[n] # "none"}
ReadyOn(rs) == {n \in Nodes : rs[n] = "ready"}
PendingOn(rs) == {n \in Nodes : rs[n] = "pending"}

NoReplicas == [n \in Nodes |-> "none"]

-----------------------------------------------------------------------------
\* The local states of the loops.
IdlePlanner == [pc |-> "idle", source |-> None, target |-> None, snap |-> NoReplicas]
IdleCopier == [pc |-> "idle", source |-> None, targets |-> {}, ok |-> {},
               snap |-> NoReplicas]
IdleCleaner == [pc |-> "idle", todo |-> {}]

PlannerState == [pc : {"idle", "scanned", "selected"}, source : Nodes \cup {None},
                 target : Nodes \cup {None}, snap : ReplicaSet]
CopierState == [pc : {"idle", "copying", "copied"}, source : Nodes \cup {None},
                targets : SUBSET Nodes, ok : SUBSET Nodes, snap : ReplicaSet]
CleanerState == [pc : {"idle", "next", "deleting", "removing"}, todo : SUBSET PlanIDs]

Init ==
    /\ node \in [Nodes -> [status : {"up"}, used : Loads]]
    /\ present = [c \in Chunks |-> TRUE]
    \* As the gateway commits a chunk: ready on the nodes that stored it, among
    \* them the primary, pending on those that did not answer; on fewer nodes
    \* than desired when fewer had space.
    /\ replicas \in [Chunks -> {rs \in ReplicaSet :
                        ReadyOn(rs) # {} /\ Cardinality(Rows(rs)) <= DesiredReplicaCount}]
    /\ count = [c \in Chunks |-> Cardinality(Rows(replicas[c]))]
    /\ plan = [p \in PlanIDs |-> NoPlan]
    /\ disk = [n \in Nodes |-> {c \in Chunks : replicas[c][n] = "ready"}]
    /\ failover = [c \in Chunks |-> IdlePlanner]
    /\ rebalance = [c \in Chunks |-> IdlePlanner]
    /\ copier = [c \in Chunks |-> IdleCopier]
    /\ cleaner = IdleCleaner

-----------------------------------------------------------------------------
\* The node table.
Healthy(n) == node[n].status # "down"

ListNodes(healthyOnly) == {n \in Nodes : healthyOnly => Healthy(n)}

isNodeUnavailable(n) ==
    node[n].status = "down" \/ (NodeTimeout /\ node[n].status = "silent")

availableCapacity(n) == Capacity - node[n].used

Overfull == {n \in ListNodes(TRUE) : node[n].used >= HighWatermark}

Underfull == {n \in ListNodes(TRUE) \ Overfull : node[n].used <= LowWatermark}

\* SelectPlacementTargets takes the node with the most space among these.
PlacementTargets(excluded, requiredBytes) ==
    {n \in ListNodes(FALSE) \ excluded : /\ Healthy(n)
                                         /\ availableCapacity(n) > 0
                                         /\ availableCapacity(n) >= requiredBytes}

CountEffectiveReadyReplicas(rs) == Cardinality({n \in ReadyOn(rs) : Healthy(n)})

updateNodeHeartbeat(n, healthy, used) ==
    node' = [node EXCEPT ![n] = [status |-> IF healthy THEN "up" ELSE "down", used |-> used]]

HeartbeatNode(n) ==
    /\ \E healthy \in BOOLEAN, used \in Loads : updateNodeHeartbeat(n, healthy, used)
    /\ UNCHANGED <<present, replicas, count, plan, disk, loops>>

\* NodeTimeout passes without a heartbeat.
NodeTimesOut(n) ==
    /\ NodeTimeout
    /\ node[n].status = "up"
    /\ node' = [node EXCEPT ![n].status = "silent"]
    /\ UNCHANGED <<present, replicas, count, plan, disk, loops>>

-----------------------------------------------------------------------------
\* The plan table.
ActivePlans(c, types) ==
    {p \in PlanIDs : plan[p].state = "materialized" /\ plan[p].chunk = c
                     /\ plan[p].type \in types}

HasPlan(type, c, target) == \E p \in ActivePlans(c, {type}) : plan[p].target = target

updateReplicaPlan(p, state) == plan' = [plan EXCEPT ![p].state = state]

\* A plan for the same target is refused.
CreateReplicaPlan(type, c, source, target) ==
    /\ ~ HasPlan(type, c, target)
    /\ \E p \in PlanIDs :
          /\ plan[p].state = "none"
          /\ \A q \in 1..(p - 1) : plan[q].state # "none"
          /\ plan' = [plan EXCEPT ![p] = [state |-> "materialized", type |-> type, chunk |-> c,
                                          source |-> source, target |-> target]]

\* The chunks with a replica row for the node.  PostgreSQL refuses the query, which
\* joins two tables and takes columns that both have without saying whose: the
\* planner's pass ends with the error and plans nothing.
ListChunksByNode(n) ==
    IF Store = "postgres" THEN {} ELSE {c \in Chunks : replicas[c][n] # "none"}

\* The rows of a chunk.  Rows are inserted or overwritten, and the replica count
\* is the one that the caller gives.
UpdateChunkReplicas(c, upserts, replicaCount) ==
    /\ present[c]
    /\ replicas' = [replicas EXCEPT ![c] =
                       [n \in Nodes |-> IF n \in DOMAIN upserts THEN upserts[n]
                                        ELSE replicas[c][n]]]
    /\ count' = [count EXCEPT ![c] = replicaCount]

removeChunkReplica(c, n) ==
    /\ present[c]
    /\ replicas[c][n] # "none"
    /\ replicas' = [replicas EXCEPT ![c] = [@ EXCEPT ![n] = "none"]]
    /\ count' = [count EXCEPT ![c] = Cardinality(Rows(replicas[c]) \ {n})]

\* The transaction of both planners: the plan and the pending replica on its
\* target, counted from the rows that the planner has read.  An error leaves both
\* tables alone.
Materialize(type, c, local) ==
    \/ /\ CreateReplicaPlan(type, c, local.source, local.target)
       /\ UpdateChunkReplicas(c, [n \in {local.target} |-> "pending"],
                              Cardinality(Rows(local.snap)) + 1)
    \/ /\ ~ present[c] \/ HasPlan(type, c, local.target)
       /\ UNCHANGED <<plan, replicas, count>>

-----------------------------------------------------------------------------
\* FailoverPlanner.PlanOnce: the chunks of an unavailable node, read in bulk.
FailoverScan(c, n) ==
    /\ "failover" \in Planners
    /\ failover[c].pc = "idle"
    /\ n \in ListNodes(FALSE) /\ isNodeUnavailable(n)
    /\ c \in ListChunksByNode(n)
    /\ failover' = [failover EXCEPT ![c] =
                       [pc |-> "scanned", source |-> n, target |-> None, snap |-> replicas[c]]]
    /\ UNCHANGED <<tables, rebalance, copier, cleaner>>

\* Mutant: the active plans are not looked at.
TargetsDespitePlan(c) ==
    IF present[c] /\ CountEffectiveReadyReplicas(failover[c].snap) < DesiredReplicaCount
    THEN PlacementTargets(Rows(failover[c].snap), ChunkBytes)
    ELSE {}

\* planChunkFailover up to the choice of the target.  Only failover plans count
\* as active here.
FailoverTargets(c) ==
    IF /\ present[c]
       /\ CountEffectiveReadyReplicas(failover[c].snap) < DesiredReplicaCount
       /\ ActivePlans(c, {"failover"}) = {}
    THEN PlacementTargets(Rows(failover[c].snap), ChunkBytes)
    ELSE {}

\* Mutant: the choice is made but not kept.
SelectWithoutTarget(c) ==
    /\ failover[c].pc = "scanned"
    /\ \/ /\ FailoverTargets(c) # {}
          /\ failover' = [failover EXCEPT ![c].pc = "selected"]
       \/ /\ FailoverTargets(c) = {}
          /\ failover' = [failover EXCEPT ![c] = IdlePlanner]
    /\ UNCHANGED <<tables, rebalance, copier, cleaner>>

FailoverSelect(c) ==
    /\ failover[c].pc = "scanned"
    /\ \/ \E t \in FailoverTargets(c) :
             failover' = [failover EXCEPT ![c].pc = "selected", ![c].target = t]
       \/ /\ FailoverTargets(c) = {}
          /\ failover' = [failover EXCEPT ![c] = IdlePlanner]
    /\ UNCHANGED <<tables, rebalance, copier, cleaner>>

materializePendingReplica(c) ==
    /\ failover[c].pc = "selected"
    /\ Materialize("failover", c, failover[c])
    /\ failover' = [failover EXCEPT ![c] = IdlePlanner]
    /\ UNCHANGED <<node, present, disk, rebalance, copier, cleaner>>

-----------------------------------------------------------------------------
\* RebalancePlanner.PlanOnce: the chunks of an overfull node, read in bulk.  The
\* state of the replica on that node is not looked at.
RebalanceScan(c, n) ==
    /\ "rebalance" \in Planners
    /\ rebalance[c].pc = "idle"
    /\ n \in Overfull
    /\ c \in ListChunksByNode(n)
    /\ rebalance' = [rebalance EXCEPT ![c] =
                        [pc |-> "scanned", source |-> n, target |-> None, snap |-> replicas[c]]]
    /\ UNCHANGED <<tables, failover, copier, cleaner>>

\* selectReplicaToMove for one chunk.
RebalanceTargets(c) ==
    IF /\ ActivePlans(c, PlanType) = {}
       /\ CountEffectiveReadyReplicas(rebalance[c].snap) >= DesiredReplicaCount
    THEN PlacementTargets(Rows(rebalance[c].snap), ChunkBytes) \cap Underfull
    ELSE {}

RebalanceSelect(c) ==
    /\ rebalance[c].pc = "scanned"
    /\ \/ \E t \in RebalanceTargets(c) :
             rebalance' = [rebalance EXCEPT ![c].pc = "selected", ![c].target = t]
       \/ /\ RebalanceTargets(c) = {}
          /\ rebalance' = [rebalance EXCEPT ![c] = IdlePlanner]
    /\ UNCHANGED <<tables, failover, copier, cleaner>>

planReplicaMove(c) ==
    /\ rebalance[c].pc = "selected"
    /\ Materialize("rebalance", c, rebalance[c])
    /\ rebalance' = [rebalance EXCEPT ![c] = IdlePlanner]
    /\ UNCHANGED <<node, present, disk, failover, copier, cleaner>>

-----------------------------------------------------------------------------
\* PendingReplicaRepairer.RepairOnce: a ready source and the pending targets that
\* are due, from the rows as they are read.  Backoff only delays a target.
RepairScan(c) ==
    /\ copier[c].pc = "idle"
    /\ \E source \in ReadyOn(replicas[c]) :
       \E due \in SUBSET PendingOn(replicas[c]) \ {{}} :
          copier' = [copier EXCEPT ![c] =
                        [pc |-> "copying", source |-> source, targets |-> due, ok |-> {},
                         snap |-> replicas[c]]]
    /\ UNCHANGED <<tables, failover, rebalance, cleaner>>

\* The data node's side of a copy: the source reads its data and forwards it to
\* the targets, each of which may fail.
handleReplicate(c, source, targets) == IF c \in disk[source] THEN targets ELSE {}

\* executeReplicaCopy up to the answer of the source node, for the targets that
\* are healthy and not full.  A target may store the data without the source, or
\* the source answer without the repairer, learning of it.
RepairCopy(c) ==
    LET selected == copier[c].targets \cap PlacementTargets({}, 0)
        reached == handleReplicate(c, copier[c].source, selected)
    IN  /\ copier[c].pc = "copying"
        /\ \E written \in SUBSET reached :
              /\ disk' = [n \in Nodes |-> IF n \in written THEN disk[n] \cup {c} ELSE disk[n]]
              /\ \/ /\ reached # {}
                    /\ \E ok \in SUBSET written :
                          copier' = [copier EXCEPT ![c].pc = "copied", ![c].ok = ok]
                 \/ copier' = [copier EXCEPT ![c] = IdleCopier]
        /\ UNCHANGED <<node, present, replicas, count, plan, failover, rebalance, cleaner>>

\* Mutant: every target of an answered request is taken to be ready.
RecordAllReady(c) ==
    /\ copier[c].pc = "copied"
    /\ \/ UpdateChunkReplicas(c, [n \in copier[c].targets |-> "ready"],
                              Cardinality(Rows(copier[c].snap)))
       \/ ~ present[c] /\ UNCHANGED <<replicas, count>>
    /\ copier' = [copier EXCEPT ![c] = IdleCopier]
    /\ UNCHANGED <<node, present, plan, disk, failover, rebalance, cleaner>>

\* The rest of executeReplicaCopy: UpdateChunkReplicas with the rows of the
\* targets, whether or not they still exist, and the count read by RepairScan.
RepairRecord(c) ==
    /\ copier[c].pc = "copied"
    /\ \/ UpdateChunkReplicas(c, [n \in copier[c].targets |->
                                     IF n \in copier[c].ok THEN "ready" ELSE "pending"],
                              Cardinality(Rows(copier[c].snap)))
       \/ ~ present[c] /\ UNCHANGED <<replicas, count>>
    /\ copier' = [copier EXCEPT ![c] = IdleCopier]
    /\ UNCHANGED <<node, present, plan, disk, failover, rebalance, cleaner>>

-----------------------------------------------------------------------------
\* CleanupController.CleanupOnce lists the active plans, oldest first.
CleanupList ==
    /\ cleaner.pc = "idle"
    /\ \E p \in PlanIDs : plan[p].state = "materialized"
    /\ cleaner' = [pc |-> "next", todo |-> {p \in PlanIDs : plan[p].state = "materialized"}]
    /\ UNCHANGED <<tables, failover, rebalance, copier>>

Current == CHOOSE p \in cleaner.todo : \A q \in cleaner.todo : p <= q

\* On with the next plan of the pass.
Advance ==
    cleaner' = IF cleaner.todo = {Current} THEN IdleCleaner
               ELSE [pc |-> "next", todo |-> cleaner.todo \ {Current}]

\* Mutant: a plan is finished as soon as its target has a replica row.
FinalizePendingPlan ==
    LET p == plan[Current] IN
    /\ cleaner.pc = "next"
    /\ CASE ~ present[p.chunk] -> cleaner' = IdleCleaner
         [] present[p.chunk] /\ replicas[p.chunk][p.target] = "none" -> Advance
         [] OTHER -> cleaner' = [cleaner EXCEPT !.pc =
                                    IF p.type = "rebalance" THEN "deleting" ELSE "removing"]
    /\ UNCHANGED <<tables, failover, rebalance, copier>>

\* finalizeCompletedPlan: the plan is finished when its target is ready.  An
\* error ends the pass.
finalizeCompletedPlan ==
    LET p == plan[Current] IN
    /\ cleaner.pc = "next"
    /\ CASE ~ present[p.chunk] -> cleaner' = IdleCleaner
         [] present[p.chunk] /\ replicas[p.chunk][p.target] # "ready" -> Advance
         [] OTHER -> cleaner' = [cleaner EXCEPT !.pc =
                                    IF p.type = "rebalance" THEN "deleting" ELSE "removing"]
    /\ UNCHANGED <<tables, failover, rebalance, copier>>

\* The data node's side of a delete; without the chunk it answers 404.
DeleteChunk(n, c) ==
    /\ c \in disk[n]
    /\ disk' = [disk EXCEPT ![n] = @ \ {c}]

\* deleteSourceReplica up to the answer of the source node, which may be
\* lost.  failOrRetryPlan only counts a failure, and the pass goes on.
deleteSourceReplica ==
    LET p == plan[Current] IN
    /\ cleaner.pc = "deleting"
    /\ \/ /\ DeleteChunk(p.source, p.chunk)
          /\ cleaner' = [cleaner EXCEPT !.pc = "removing"] \/ Advance
       \/ /\ UNCHANGED disk
          /\ Advance
    /\ UNCHANGED <<node, present, replicas, count, plan, failover, rebalance, copier>>

\* The transaction of purgeLostReplicaMetadata and of deleteSourceReplica: the
\* source's row goes and the plan is done.  Without a row to remove it fails,
\* which ends the pass for a failover plan and is counted for a rebalance plan.
purgeLostReplicaMetadata ==
    LET p == plan[Current] IN
    /\ cleaner.pc = "removing"
    /\ \/ /\ removeChunkReplica(p.chunk, p.source)
          /\ updateReplicaPlan(Current, "done")
          /\ Advance
       \/ /\ ~ present[p.chunk] \/ replicas[p.chunk][p.source] = "none"
          /\ UNCHANGED <<replicas, count, plan>>
          /\ IF p.type = "failover" THEN cleaner' = IdleCleaner ELSE Advance
    /\ UNCHANGED <<node, present, disk, failover, rebalance, copier>>

-----------------------------------------------------------------------------
\* deleteFileCascade, of the file of the chunk.  In PostgreSQL the plans go with
\* the chunk; the in-memory store keeps them.
DeleteFile(c) ==
    /\ present[c]
    /\ present' = [present EXCEPT ![c] = FALSE]
    /\ replicas' = [replicas EXCEPT ![c] = NoReplicas]
    /\ count' = [count EXCEPT ![c] = 0]
    /\ plan' = [p \in PlanIDs |->
                   IF Store = "postgres" /\ plan[p].chunk = c
                   THEN [plan[p] EXCEPT !.state = "deleted"] ELSE plan[p]]
    /\ UNCHANGED <<node, disk, loops>>

\* The leader loses its lease or crashes and a leader starts its loops afresh on
\* the tables as they are.  (In memory the tables are lost with the process, so
\* there the loops only stop and start again.)
Restart ==
    /\ Restarts
    /\ loops # <<[c \in Chunks |-> IdlePlanner], [c \in Chunks |-> IdlePlanner],
                 [c \in Chunks |-> IdleCopier], IdleCleaner>>
    /\ failover' = [c \in Chunks |-> IdlePlanner]
    /\ rebalance' = [c \in Chunks |-> IdlePlanner]
    /\ copier' = [c \in Chunks |-> IdleCopier]
    /\ cleaner' = IdleCleaner
    /\ UNCHANGED tables

PlannerStep(c) ==
    \/ \E n \in Nodes : FailoverScan(c, n) \/ RebalanceScan(c, n)
    \/ FailoverSelect(c) \/ materializePendingReplica(c)
    \/ RebalanceSelect(c) \/ planReplicaMove(c)

RepairStep(c) == RepairScan(c) \/ RepairCopy(c) \/ RepairRecord(c)

CleanupStep == CleanupList \/ finalizeCompletedPlan \/ deleteSourceReplica \/ purgeLostReplicaMetadata

Next ==
    \/ \E n \in Nodes : HeartbeatNode(n) \/ NodeTimesOut(n)
    \/ \E c \in Chunks : PlannerStep(c) \/ RepairStep(c) \/ DeleteFile(c)
    \/ CleanupStep
    \/ Restart

Spec == Init /\ [][Next]_vars

\* While the leader leads, the tickers of its loops fire again and again and the
\* store and the data nodes answer or time out, so no loop stops for good.
Fairness ==
    /\ \A c \in Chunks : WF_vars(PlannerStep(c)) /\ WF_vars(RepairStep(c))
    /\ WF_vars(CleanupStep)

FairSpec == Spec /\ Fairness

-----------------------------------------------------------------------------
\* The rows and the local states of the loops are well formed.
TypeOK ==
    /\ node \in [Nodes -> NodeInfo]
    /\ present \in [Chunks -> BOOLEAN]
    /\ replicas \in [Chunks -> ReplicaSet]
    /\ count \in [Chunks -> Nat]
    /\ plan \in [PlanIDs -> ReplicaPlan \cup {NoPlan}]
    /\ disk \in [Nodes -> SUBSET Chunks]
    /\ failover \in [Chunks -> PlannerState]
    /\ rebalance \in [Chunks -> PlannerState]
    /\ copier \in [Chunks -> CopierState]
    /\ cleaner \in CleanerState

\* A chunk never has two unfinished plans of one type, although each planner
\* looks for one in a store call of its own before it creates another.
OnePlanPerType ==
    \A p, q \in PlanIDs :
        /\ plan[p].state = "materialized" /\ plan[q].state = "materialized"
        /\ plan[p].chunk = plan[q].chunk /\ plan[p].type = plan[q].type
        => p = q

\* The data of a chunk that is not deleted stays on some node: deleteSourceReplica
\* never deletes the last copy, whatever happened since its plan was made.
DataKept ==
    \A c \in Chunks : present[c] => \E n \in Nodes : c \in disk[n]

\* A replica that readers are sent to has the data, unless it is the source of a
\* move whose delete request has been sent.
ReadyHasData ==
    \A c \in Chunks, n \in Nodes :
        replicas[c][n] = "ready" =>
            c \in disk[n] \/ \E p \in ActivePlans(c, {"rebalance"}) : plan[p].source = n

\* Of a chunk that is not deleted, some replica that readers are sent to has the
\* data: copying, failing over, moving and cleaning up never leave it unreadable.
Readable ==
    \A c \in Chunks : present[c] => \E n \in ReadyOn(replicas[c]) : c \in disk[n]

\* As long as one planner only has made plans, whichever it is, neither fails: the
\* chunk stays readable and its ready replicas have the data.
OnePlannerIsSafe ==
    (\A p, q \in PlanIDs :
        plan[p].state # "none" /\ plan[q].state # "none" => plan[p].type = plan[q].type)
    => Readable /\ ReadyHasData

\* The replicas of a node that went silent are made up for on other nodes while
\* too few of the others are left and a node has space.
SilentNodeFailsOver ==
    \A c \in Chunks, n \in Nodes :
        LET Needed == /\ node[n].status = "silent"
                      /\ replicas[c][n] = "ready"
                      /\ Cardinality({m \in ReadyOn(replicas[c]) : node[m].status = "up"})
                            < DesiredReplicaCount
                      /\ \E m \in Nodes \ Rows(replicas[c]) :
                            node[m].status = "up" /\ availableCapacity(m) >= ChunkBytes
                      /\ ActivePlans(c, {"failover"}) = {}
                      /\ \E p \in PlanIDs : plan[p].state = "none"
        IN  Needed ~> ~ Needed
=============================================================================
