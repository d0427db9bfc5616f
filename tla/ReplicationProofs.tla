-------------------------- MODULE ReplicationProofs --------------------------
(***************************************************************************)
(* Theorems about Replication for every value of its constants, and what   *)
(* each step does to the rows, the copies and the plans of one chunk.      *)
(***************************************************************************)
EXTENDS Replication, FiniteSetTheorems, WellFoundedInduction, TLAPS

\* What a planner keeps between two of its store calls is complete.
PlannerOK(planner) ==
    \A c \in Chunks :
        /\ planner[c].pc # "idle" => planner[c].source \in Nodes
        /\ planner[c].pc = "selected" => planner[c].target \in Nodes

\* The cleanup pass works on plans that exist.
CleanerOK ==
    cleaner.pc # "idle" =>
        cleaner.todo # {} /\ \A p \in cleaner.todo : plan[p].state # "none"

\* Between the look at the active plans and the creation of one, no other plan
\* of the type appears.
Checked ==
    \A c \in Chunks :
        /\ failover[c].pc = "selected" => ActivePlans(c, {"failover"}) = {}
        /\ rebalance[c].pc = "selected" => ActivePlans(c, {"rebalance"}) = {}

LoopsOK == PlannerOK(failover) /\ PlannerOK(rebalance) /\ CleanerOK

TypeInv == TypeOK /\ LoopsOK

-----------------------------------------------------------------------------
\* The number of rows of a replica set, with or without one, is a number.
LEMMA RowsCounted ==
    ASSUME NEW rs, NEW n
    PROVE  Cardinality(Rows(rs)) \in Nat /\ Cardinality(Rows(rs) \ {n}) \in Nat
  <1>1. IsFiniteSet(Rows(rs)) /\ IsFiniteSet(Rows(rs) \ {n})
    BY ReplicationAssumption, FS_Subset DEF Rows
  <1>2. QED
    BY <1>1, FS_CardinalityType

\* A set of plan numbers that is not empty has a smallest element.
LEMMA OldestExists ==
    ASSUME NEW T \in SUBSET PlanIDs, T # {}
    PROVE  \E p \in T : \A q \in T : p <= q
  <1> DEFINE R == OpToRel(<, Nat)
  <1>1. T \in SUBSET Nat
    BY ReplicationAssumption DEF PlanIDs
  <1>2. IsWellFoundedOn(R, Nat)
    BY NatLessThanWellFounded, Zenon
  <1>3. \A x, y \in Nat : x < y => <<x, y>> \in R
    BY DEF OpToRel
  <1> HIDE DEF R
  <1>4. PICK p \in T : \A q \in T : ~(<<q, p>> \in R)
    BY <1>1, <1>2, WFMin, Zenon
  <1>5. \A q \in T : p \in Nat /\ q \in Nat /\ ~(q < p)
    BY <1>1, <1>3, <1>4, Zenon
  <1>6. \A q \in T : p <= q
    BY <1>5
  <1>7. QED
    BY <1>6

\* The plan at hand in a cleanup pass exists, with its chunk and its nodes.
LEMMA CurrentIsPlan ==
    ASSUME TypeInv, cleaner.pc # "idle"
    PROVE  /\ Current \in cleaner.todo
           /\ Current \in PlanIDs
           /\ plan[Current] \in ReplicaPlan
  <1>1. cleaner.todo \in SUBSET PlanIDs /\ cleaner.todo # {}
    BY DEF TypeInv, TypeOK, CleanerState, LoopsOK, CleanerOK
  <1>2. Current \in cleaner.todo
    BY <1>1, OldestExists DEF Current
  <1>3. plan[Current] \in ReplicaPlan \cup {NoPlan} /\ plan[Current].state # "none"
    BY <1>1, <1>2 DEF TypeInv, TypeOK, LoopsOK, CleanerOK
  <1>4. NoPlan.state = "none"
    BY DEF NoPlan
  <1>5. QED
    BY <1>1, <1>2, <1>3, <1>4

\* The initial local states of the loops have their types.
LEMMA IdleTyped ==
    /\ NoReplicas \in ReplicaSet
    /\ IdlePlanner \in PlannerState /\ IdlePlanner.pc = "idle"
    /\ IdleCopier \in CopierState
    /\ IdleCleaner \in CleanerState /\ IdleCleaner.pc = "idle"
  <1>1. NoReplicas \in ReplicaSet
    BY DEF NoReplicas, ReplicaSet, ReplicaState
  <1>2. QED
    BY <1>1 DEF IdlePlanner, PlannerState, IdleCopier, CopierState, IdleCleaner, CleanerState

\* The first state has the types.
LEMMA InitTyped == Init => TypeInv
  <1> SUFFICES ASSUME Init PROVE TypeInv
    OBVIOUS
  <1>1. node \in [Nodes -> NodeInfo]
    BY DEF Init, NodeInfo
  <1>2. replicas \in [Chunks -> ReplicaSet] /\ present \in [Chunks -> BOOLEAN]
    BY DEF Init
  <1>3. count \in [Chunks -> Nat]
    BY RowsCounted, Zenon DEF Init
  <1>4. plan \in [PlanIDs -> ReplicaPlan \cup {NoPlan}] /\ disk \in [Nodes -> SUBSET Chunks]
    BY DEF Init
  <1>5. /\ failover \in [Chunks -> PlannerState] /\ rebalance \in [Chunks -> PlannerState]
        /\ copier \in [Chunks -> CopierState] /\ cleaner \in CleanerState
    BY IdleTyped DEF Init
  <1>6. LoopsOK
    BY IdleTyped DEF Init, LoopsOK, PlannerOK, CleanerOK
  <1>7. QED
    BY <1>1, <1>2, <1>3, <1>4, <1>5, <1>6 DEF TypeInv, TypeOK
-----------------------------------------------------------------------------
\* UpdateChunkReplicas with states for some nodes keeps the tables well formed.
LEMMA UpdateTyped ==
    ASSUME TypeOK, NEW c \in Chunks, NEW S \in SUBSET Nodes, NEW u \in [S -> ReplicaState],
           NEW k \in Nat, UpdateChunkReplicas(c, u, k)
    PROVE  replicas' \in [Chunks -> ReplicaSet] /\ count' \in [Chunks -> Nat]
  <1> DEFINE rs == [n \in Nodes |-> IF n \in DOMAIN u THEN u[n] ELSE replicas[c][n]]
  <1>1. replicas[c] \in [Nodes -> ReplicaState]
    BY DEF TypeOK, ReplicaSet
  <1>2. rs \in ReplicaSet
    BY <1>1 DEF ReplicaSet
  <1>3. replicas' = [replicas EXCEPT ![c] = rs] /\ count' = [count EXCEPT ![c] = k]
    BY DEF UpdateChunkReplicas
  <1> HIDE DEF rs
  <1>4. QED
    BY <1>2, <1>3 DEF TypeOK

\* A plan that is created takes a free number, and nothing else changes.
LEMMA PlanCreated ==
    ASSUME NEW type, NEW c, NEW source, NEW target, CreateReplicaPlan(type, c, source, target)
    PROVE  \E p \in PlanIDs :
              /\ plan[p].state = "none"
              /\ plan' = [plan EXCEPT ![p] = [state |-> "materialized", type |-> type, chunk |-> c,
                                              source |-> source, target |-> target]]
  BY Zenon DEF CreateReplicaPlan

\* The planners' transaction keeps the tables well formed and drops no plan.
LEMMA MaterializeTyped ==
    ASSUME TypeOK, NEW type \in PlanType, NEW c \in Chunks, NEW local \in PlannerState,
           local.source \in Nodes, local.target \in Nodes, Materialize(type, c, local)
    PROVE  /\ replicas' \in [Chunks -> ReplicaSet]
           /\ count' \in [Chunks -> Nat]
           /\ plan' \in [PlanIDs -> ReplicaPlan \cup {NoPlan}]
           /\ \A p \in PlanIDs : plan[p].state # "none" => plan'[p].state # "none"
  <1>1. CASE UNCHANGED <<plan, replicas, count>>
    BY <1>1 DEF TypeOK
  <1>2. CASE /\ CreateReplicaPlan(type, c, local.source, local.target)
             /\ UpdateChunkReplicas(c, [n \in {local.target} |-> "pending"],
                                    Cardinality(Rows(local.snap)) + 1)
    <2>1. replicas' \in [Chunks -> ReplicaSet] /\ count' \in [Chunks -> Nat]
      <3>0. Cardinality(Rows(local.snap)) \in Nat
        BY RowsCounted, Zenon
      <3>1. Cardinality(Rows(local.snap)) + 1 \in Nat
        BY <3>0
      <3>2. [n \in {local.target} |-> "pending"] \in [{local.target} -> ReplicaState]
        BY DEF ReplicaState
      <3>3. {local.target} \in SUBSET Nodes
        OBVIOUS
      <3>4. QED
        BY <1>2, <3>1, <3>2, <3>3, UpdateTyped
    <2> DEFINE new == [state |-> "materialized", type |-> type, chunk |-> c,
                       source |-> local.source, target |-> local.target]
    <2>2. PICK p \in PlanIDs : plan[p].state = "none" /\ plan' = [plan EXCEPT ![p] = new]
      BY <1>2, PlanCreated
    <2>3. new \in ReplicaPlan /\ new.state = "materialized"
      BY DEF ReplicaPlan
    <2> HIDE DEF new
    <2>4. QED
      BY <2>1, <2>2, <2>3 DEF TypeOK
  <1>3. QED
    BY <1>1, <1>2 DEF Materialize

\* Going on with the next plan leaves a pass over plans of this one.
LEMMA AdvanceTyped ==
    ASSUME TypeInv, cleaner.pc # "idle", Advance
    PROVE  /\ cleaner' \in CleanerState
           /\ cleaner'.pc # "idle" => cleaner'.todo # {} /\ cleaner'.todo \subseteq cleaner.todo
  <1>1. cleaner.todo \in SUBSET PlanIDs /\ Current \in cleaner.todo
    BY CurrentIsPlan DEF TypeInv, TypeOK, CleanerState
  <1>2. CASE cleaner' = IdleCleaner
    BY <1>2, IdleTyped
  <1>3. CASE /\ cleaner.todo # {Current}
             /\ cleaner' = [pc |-> "next", todo |-> cleaner.todo \ {Current}]
    BY <1>1, <1>3 DEF CleanerState
  <1>4. QED
    BY <1>2, <1>3 DEF Advance

\* The local state of a planner stays well formed when one chunk's part changes
\* to a well formed one.
LEMMA PlannerUpdated ==
    ASSUME NEW old \in [Chunks -> PlannerState], NEW c \in Chunks, NEW v \in PlannerState,
           PlannerOK(old), v.pc # "idle" => v.source \in Nodes,
           v.pc = "selected" => v.target \in Nodes
    PROVE  /\ [old EXCEPT ![c] = v] \in [Chunks -> PlannerState]
           /\ PlannerOK([old EXCEPT ![c] = v])
  BY DEF PlannerOK

\* The choice of a target leaves a planner's local state well formed.
LEMMA PlannerSelected ==
    ASSUME NEW old \in [Chunks -> PlannerState], NEW c \in Chunks, NEW t \in Nodes,
           PlannerOK(old), old[c].pc = "scanned"
    PROVE  /\ [old EXCEPT ![c].pc = "selected", ![c].target = t] \in [Chunks -> PlannerState]
           /\ PlannerOK([old EXCEPT ![c].pc = "selected", ![c].target = t])
  <1> DEFINE v == [old[c] EXCEPT !.pc = "selected", !.target = t]
  <1>1. old[c] \in PlannerState /\ old[c].source \in Nodes
    BY DEF PlannerOK
  <1>2. v \in PlannerState /\ v.pc = "selected" /\ v.target = t /\ v.source = old[c].source
    BY <1>1, Zenon DEF PlannerState
  <1>3. [old EXCEPT ![c].pc = "selected", ![c].target = t] = [old EXCEPT ![c] = v]
    BY Zenon
  <1> HIDE DEF v
  <1>4. QED
    BY <1>1, <1>2, <1>3, PlannerUpdated, ZenonT(60)

\* As a pass that works on plans of the one before does.
LEMMA CleanerUpdated ==
    ASSUME TypeInv,
           \A p \in PlanIDs : plan[p].state # "none" => plan'[p].state # "none",
           \/ cleaner'.pc = "idle"
           \/ /\ cleaner.pc # "idle" /\ cleaner'.todo # {}
              /\ cleaner'.todo \subseteq cleaner.todo
    PROVE  CleanerOK'
  BY DEF TypeInv, TypeOK, CleanerState, LoopsOK, CleanerOK
-----------------------------------------------------------------------------
\* Every step keeps the tables and the loops well formed.
LEMMA TypeStep == TypeInv /\ [Next]_vars => TypeInv'
  <1> SUFFICES ASSUME TypeInv, [Next]_vars PROVE TypeInv'
    OBVIOUS
  <1> USE DEF TypeInv
  <1>1. ASSUME NEW n \in Nodes, HeartbeatNode(n) PROVE TypeInv'
    <2>1. node' \in [Nodes -> NodeInfo]
      BY <1>1 DEF HeartbeatNode, updateNodeHeartbeat, TypeOK, NodeInfo
    <2>2. UNCHANGED <<present, replicas, count, plan, disk, failover, rebalance, copier, cleaner>>
      BY <1>1 DEF HeartbeatNode, updateNodeHeartbeat, loops
    <2>3. QED
      BY <2>1, <2>2 DEF TypeOK, LoopsOK, PlannerOK, CleanerOK
  <1>2. ASSUME NEW n \in Nodes, NodeTimesOut(n) PROVE TypeInv'
    <2>1. node' \in [Nodes -> NodeInfo]
      BY <1>2, SMTT(30) DEF NodeTimesOut, TypeOK, NodeInfo
    <2>2. UNCHANGED <<present, replicas, count, plan, disk, failover, rebalance, copier, cleaner>>
      BY <1>2 DEF NodeTimesOut, loops
    <2>3. QED
      BY <2>1, <2>2 DEF TypeOK, LoopsOK, PlannerOK, CleanerOK
  <1>3. ASSUME NEW c \in Chunks, NEW n \in Nodes, FailoverScan(c, n) PROVE TypeInv'
    <2> DEFINE v == [pc |-> "scanned", source |-> n, target |-> None, snap |-> replicas[c]]
    <2>1. v \in PlannerState /\ v.pc = "scanned" /\ v.source = n
      BY DEF PlannerState, TypeOK
    <2>2. failover' = [failover EXCEPT ![c] = v]
      BY <1>3 DEF FailoverScan
    <2>3. failover' \in [Chunks -> PlannerState] /\ PlannerOK(failover')
      <3> HIDE DEF v
      <3>1. QED
        BY <2>1, <2>2, PlannerUpdated, Zenon DEF TypeOK, LoopsOK
    <2>4. UNCHANGED <<node, present, replicas, count, plan, disk, rebalance, copier, cleaner>>
      BY <1>3 DEF FailoverScan, tables
    <2>5. QED
      BY <2>3, <2>4 DEF TypeOK, LoopsOK, CleanerOK, PlannerOK
  <1>4. ASSUME NEW c \in Chunks, NEW n \in Nodes, RebalanceScan(c, n) PROVE TypeInv'
    <2> DEFINE v == [pc |-> "scanned", source |-> n, target |-> None, snap |-> replicas[c]]
    <2>1. v \in PlannerState /\ v.pc = "scanned" /\ v.source = n
      BY DEF PlannerState, TypeOK
    <2>2. rebalance' = [rebalance EXCEPT ![c] = v]
      BY <1>4 DEF RebalanceScan
    <2>3. rebalance' \in [Chunks -> PlannerState] /\ PlannerOK(rebalance')
      <3> HIDE DEF v
      <3>1. QED
        BY <2>1, <2>2, PlannerUpdated, Zenon DEF TypeOK, LoopsOK
    <2>4. UNCHANGED <<node, present, replicas, count, plan, disk, failover, copier, cleaner>>
      BY <1>4 DEF RebalanceScan, tables
    <2>5. QED
      BY <2>3, <2>4 DEF TypeOK, LoopsOK, CleanerOK, PlannerOK
  <1>5. ASSUME NEW c \in Chunks, FailoverSelect(c) PROVE TypeInv'
    <2>1. \A t \in FailoverTargets(c) : t \in Nodes
      BY DEF FailoverTargets, PlacementTargets, ListNodes
    <2>2. failover' \in [Chunks -> PlannerState] /\ PlannerOK(failover')
      <3>1. CASE failover' = [failover EXCEPT ![c] = IdlePlanner]
        BY <3>1, IdleTyped, PlannerUpdated, Zenon DEF TypeOK, LoopsOK
      <3>2. ASSUME NEW t \in Nodes,
                   failover' = [failover EXCEPT ![c].pc = "selected", ![c].target = t]
            PROVE  failover' \in [Chunks -> PlannerState] /\ PlannerOK(failover')
        BY <1>5, <3>2, PlannerSelected, Zenon DEF FailoverSelect, TypeOK, LoopsOK
      <3>3. QED
        BY <1>5, <2>1, <3>1, <3>2 DEF FailoverSelect
    <2>3. UNCHANGED <<node, present, replicas, count, plan, disk, rebalance, copier, cleaner>>
      BY <1>5 DEF FailoverSelect, tables
    <2>4. QED
      BY <2>2, <2>3 DEF TypeOK, LoopsOK, CleanerOK, PlannerOK
  <1>6. ASSUME NEW c \in Chunks, RebalanceSelect(c) PROVE TypeInv'
    <2>1. \A t \in RebalanceTargets(c) : t \in Nodes
      BY DEF RebalanceTargets, PlacementTargets, ListNodes
    <2>2. rebalance' \in [Chunks -> PlannerState] /\ PlannerOK(rebalance')
      <3>1. CASE rebalance' = [rebalance EXCEPT ![c] = IdlePlanner]
        BY <3>1, IdleTyped, PlannerUpdated, Zenon DEF TypeOK, LoopsOK
      <3>2. ASSUME NEW t \in Nodes,
                   rebalance' = [rebalance EXCEPT ![c].pc = "selected", ![c].target = t]
            PROVE  rebalance' \in [Chunks -> PlannerState] /\ PlannerOK(rebalance')
        BY <1>6, <3>2, PlannerSelected, Zenon DEF RebalanceSelect, TypeOK, LoopsOK
      <3>3. QED
        BY <1>6, <2>1, <3>1, <3>2 DEF RebalanceSelect
    <2>3. UNCHANGED <<node, present, replicas, count, plan, disk, failover, copier, cleaner>>
      BY <1>6 DEF RebalanceSelect, tables
    <2>4. QED
      BY <2>2, <2>3 DEF TypeOK, LoopsOK, CleanerOK, PlannerOK
  <1>7. ASSUME NEW c \in Chunks, materializePendingReplica(c) PROVE TypeInv'
    <2>1. /\ failover[c] \in PlannerState
          /\ failover[c].source \in Nodes /\ failover[c].target \in Nodes
      BY <1>7 DEF materializePendingReplica, TypeOK, LoopsOK, PlannerOK
    <2>2. /\ Materialize("failover", c, failover[c])
          /\ failover' = [failover EXCEPT ![c] = IdlePlanner]
          /\ UNCHANGED <<node, present, disk, rebalance, copier, cleaner>>
      BY <1>7 DEF materializePendingReplica
    <2>3. /\ replicas' \in [Chunks -> ReplicaSet]
          /\ count' \in [Chunks -> Nat]
          /\ plan' \in [PlanIDs -> ReplicaPlan \cup {NoPlan}]
          /\ \A p \in PlanIDs : plan[p].state # "none" => plan'[p].state # "none"
      <3>1. "failover" \in PlanType
        BY DEF PlanType
      <3>2. QED
        BY <2>1, <2>2, <3>1, MaterializeTyped
    <2>4. failover' \in [Chunks -> PlannerState] /\ PlannerOK(failover')
      BY <2>2, IdleTyped, PlannerUpdated, Zenon DEF TypeOK, LoopsOK
    <2>5. CleanerOK'
      BY <2>2, <2>3 DEF TypeOK, CleanerState, LoopsOK, CleanerOK
    <2>6. QED
      BY <2>2, <2>3, <2>4, <2>5 DEF TypeOK, LoopsOK, PlannerOK
  <1>8. ASSUME NEW c \in Chunks, planReplicaMove(c) PROVE TypeInv'
    <2>1. /\ rebalance[c] \in PlannerState
          /\ rebalance[c].source \in Nodes /\ rebalance[c].target \in Nodes
      BY <1>8 DEF planReplicaMove, TypeOK, LoopsOK, PlannerOK
    <2>2. /\ Materialize("rebalance", c, rebalance[c])
          /\ rebalance' = [rebalance EXCEPT ![c] = IdlePlanner]
          /\ UNCHANGED <<node, present, disk, failover, copier, cleaner>>
      BY <1>8 DEF planReplicaMove
    <2>3. /\ replicas' \in [Chunks -> ReplicaSet]
          /\ count' \in [Chunks -> Nat]
          /\ plan' \in [PlanIDs -> ReplicaPlan \cup {NoPlan}]
          /\ \A p \in PlanIDs : plan[p].state # "none" => plan'[p].state # "none"
      <3>1. "rebalance" \in PlanType
        BY DEF PlanType
      <3>2. QED
        BY <2>1, <2>2, <3>1, MaterializeTyped
    <2>4. rebalance' \in [Chunks -> PlannerState] /\ PlannerOK(rebalance')
      BY <2>2, IdleTyped, PlannerUpdated, Zenon DEF TypeOK, LoopsOK
    <2>5. CleanerOK'
      BY <2>2, <2>3 DEF TypeOK, CleanerState, LoopsOK, CleanerOK
    <2>6. QED
      BY <2>2, <2>3, <2>4, <2>5 DEF TypeOK, LoopsOK, PlannerOK
  <1>9. ASSUME NEW c \in Chunks, RepairScan(c) PROVE TypeInv'
    <2>1. PICK s \in ReadyOn(replicas[c]), d \in SUBSET PendingOn(replicas[c]) :
             copier' = [copier EXCEPT ![c] = [pc |-> "copying", source |-> s, targets |-> d,
                                              ok |-> {}, snap |-> replicas[c]]]
      BY <1>9, Zenon DEF RepairScan
    <2>2. s \in Nodes /\ d \in SUBSET Nodes /\ replicas[c] \in ReplicaSet
      BY DEF ReadyOn, PendingOn, TypeOK
    <2>3. copier' \in [Chunks -> CopierState]
      BY <2>1, <2>2 DEF TypeOK, CopierState
    <2>4. UNCHANGED <<node, present, replicas, count, plan, disk, failover, rebalance, cleaner>>
      BY <1>9 DEF RepairScan, tables
    <2>5. QED
      BY <2>3, <2>4 DEF TypeOK, LoopsOK, CleanerOK, PlannerOK
  <1>10. ASSUME NEW c \in Chunks, RepairCopy(c) PROVE TypeInv'
    <2> DEFINE reached == handleReplicate(c, copier[c].source,
                                          copier[c].targets \cap PlacementTargets({}, 0))
    <2>1. PICK w \in SUBSET reached :
             /\ disk' = [n \in Nodes |-> IF n \in w THEN disk[n] \cup {c} ELSE disk[n]]
             /\ \/ \E ok \in SUBSET w :
                      copier' = [copier EXCEPT ![c].pc = "copied", ![c].ok = ok]
                \/ copier' = [copier EXCEPT ![c] = IdleCopier]
      BY <1>10, Zenon DEF RepairCopy
    <2>2. w \in SUBSET Nodes
      BY DEF handleReplicate, PlacementTargets, ListNodes
    <2> HIDE DEF reached
    <2>3. disk' \in [Nodes -> SUBSET Chunks]
      BY <2>1 DEF TypeOK
    <2>4. copier' \in [Chunks -> CopierState]
      <3>1. CASE copier' = [copier EXCEPT ![c] = IdleCopier]
        BY <3>1, IdleTyped DEF TypeOK
      <3>2. ASSUME NEW ok \in SUBSET w,
                   copier' = [copier EXCEPT ![c].pc = "copied", ![c].ok = ok]
            PROVE  copier' \in [Chunks -> CopierState]
        <4> DEFINE v == [copier[c] EXCEPT !.pc = "copied", !.ok = ok]
        <4>1. copier[c] \in CopierState /\ ok \in SUBSET Nodes
          BY <2>2 DEF TypeOK
        <4>2. v \in CopierState
          BY <4>1, Zenon DEF CopierState
        <4>3. copier' = [copier EXCEPT ![c] = v]
          BY <3>2, Zenon
        <4> HIDE DEF v
        <4>4. QED
          BY <4>2, <4>3 DEF TypeOK
      <3>3. QED
        BY <2>1, <3>1, <3>2
    <2>5. UNCHANGED <<node, present, replicas, count, plan, failover, rebalance, cleaner>>
      BY <1>10 DEF RepairCopy
    <2>6. QED
      BY <2>3, <2>4, <2>5 DEF TypeOK, LoopsOK, CleanerOK, PlannerOK
  <1>11. ASSUME NEW c \in Chunks, RepairRecord(c) PROVE TypeInv'
    <2> DEFINE u == [n \in copier[c].targets |->
                        IF n \in copier[c].ok THEN "ready" ELSE "pending"]
    <2>1. copier[c].targets \in SUBSET Nodes /\ u \in [copier[c].targets -> ReplicaState]
      BY DEF TypeOK, CopierState, ReplicaState
    <2>2. Cardinality(Rows(copier[c].snap)) \in Nat
      BY RowsCounted, Zenon
    <2>3. \/ UpdateChunkReplicas(c, u, Cardinality(Rows(copier[c].snap)))
          \/ UNCHANGED <<replicas, count>>
      BY <1>11 DEF RepairRecord
    <2> HIDE DEF u
    <2>4. replicas' \in [Chunks -> ReplicaSet] /\ count' \in [Chunks -> Nat]
      BY <2>1, <2>2, <2>3, UpdateTyped, Zenon DEF TypeOK
    <2>5. copier' \in [Chunks -> CopierState]
      BY <1>11, IdleTyped DEF RepairRecord, TypeOK
    <2>6. UNCHANGED <<node, present, plan, disk, failover, rebalance, cleaner>>
      BY <1>11 DEF RepairRecord
    <2>7. QED
      BY <2>4, <2>5, <2>6 DEF TypeOK, LoopsOK, CleanerOK, PlannerOK
  <1>12. CASE CleanupList
    <2>1. cleaner' \in CleanerState /\ CleanerOK'
      BY <1>12 DEF CleanupList, CleanerState, CleanerOK, tables
    <2>2. UNCHANGED <<node, present, replicas, count, plan, disk, failover, rebalance, copier>>
      BY <1>12 DEF CleanupList, tables
    <2>3. QED
      BY <2>1, <2>2 DEF TypeOK, LoopsOK, PlannerOK
  <1>13. CASE finalizeCompletedPlan
    <2>1. \/ cleaner' = IdleCleaner
          \/ Advance
          \/ \E pc \in {"deleting", "removing"} : cleaner' = [cleaner EXCEPT !.pc = pc]
      BY <1>13 DEF finalizeCompletedPlan
    <2>2. cleaner.pc # "idle"
      BY <1>13 DEF finalizeCompletedPlan
    <2>3. UNCHANGED <<node, present, replicas, count, plan, disk, failover, rebalance, copier>>
      BY <1>13 DEF finalizeCompletedPlan, tables
    <2>4. cleaner' \in CleanerState
      BY <2>1, <2>2, IdleTyped, AdvanceTyped DEF TypeOK, CleanerState
    <2>5. \/ cleaner'.pc = "idle"
          \/ cleaner'.todo # {} /\ cleaner'.todo \subseteq cleaner.todo
      BY <2>1, <2>2, IdleTyped, AdvanceTyped DEF TypeOK, CleanerState, LoopsOK, CleanerOK
    <2>6. CleanerOK'
      BY <2>2, <2>3, <2>5, CleanerUpdated
    <2>7. QED
      BY <2>3, <2>4, <2>6 DEF TypeOK, LoopsOK, PlannerOK
  <1>14. CASE deleteSourceReplica
    <2>1. cleaner' = [cleaner EXCEPT !.pc = "removing"] \/ Advance
      BY <1>14 DEF deleteSourceReplica
    <2>2. cleaner.pc # "idle"
      BY <1>14 DEF deleteSourceReplica
    <2>3. UNCHANGED <<node, present, replicas, count, plan, failover, rebalance, copier>>
      BY <1>14 DEF deleteSourceReplica
    <2>4. disk' \in [Nodes -> SUBSET Chunks]
      BY <1>14 DEF deleteSourceReplica, DeleteChunk, TypeOK
    <2>5. cleaner' \in CleanerState
      BY <2>1, <2>2, AdvanceTyped DEF TypeOK, CleanerState
    <2>6. \/ cleaner'.pc = "idle"
          \/ cleaner'.todo # {} /\ cleaner'.todo \subseteq cleaner.todo
      BY <2>1, <2>2, AdvanceTyped DEF TypeOK, CleanerState, LoopsOK, CleanerOK
    <2>7. CleanerOK'
      BY <2>2, <2>3, <2>6, CleanerUpdated
    <2>8. QED
      BY <2>3, <2>4, <2>5, <2>7 DEF TypeOK, LoopsOK, PlannerOK
  <1>15. CASE purgeLostReplicaMetadata
    <2>1. cleaner' = IdleCleaner \/ Advance
      BY <1>15 DEF purgeLostReplicaMetadata, updateReplicaPlan
    <2>2. cleaner.pc # "idle" /\ UNCHANGED <<node, present, disk, failover, rebalance, copier>>
      BY <1>15 DEF purgeLostReplicaMetadata, updateReplicaPlan
    <2>3. /\ Current \in PlanIDs
          /\ plan[Current] \in ReplicaPlan
          /\ plan[Current].chunk \in Chunks /\ plan[Current].source \in Nodes
      BY <2>2, CurrentIsPlan DEF ReplicaPlan
    <2>4. /\ replicas' \in [Chunks -> ReplicaSet]
          /\ count' \in [Chunks -> Nat]
          /\ plan' \in [PlanIDs -> ReplicaPlan \cup {NoPlan}]
          /\ \A p \in PlanIDs : plan[p].state # "none" => plan'[p].state # "none"
      <3>1. CASE UNCHANGED <<replicas, count, plan>>
        BY <3>1 DEF TypeOK
      <3>2. CASE /\ removeChunkReplica(plan[Current].chunk, plan[Current].source)
                 /\ plan' = [plan EXCEPT ![Current].state = "done"]
        <4>1. replicas' \in [Chunks -> ReplicaSet]
          BY <2>3, <3>2 DEF removeChunkReplica, TypeOK, ReplicaSet, ReplicaState
        <4>2. count' \in [Chunks -> Nat]
          BY <2>3, <3>2, RowsCounted, Zenon DEF removeChunkReplica, TypeOK
        <4>3. [plan[Current] EXCEPT !.state = "done"] \in ReplicaPlan
          BY <2>3 DEF ReplicaPlan
        <4>4. plan' = [plan EXCEPT ![Current] = [plan[Current] EXCEPT !.state = "done"]]
          BY <3>2
        <4>5. [plan[Current] EXCEPT !.state = "done"].state = "done"
          BY <2>3 DEF ReplicaPlan
        <4>6. plan' \in [PlanIDs -> ReplicaPlan \cup {NoPlan}]
          BY <2>3, <4>3, <4>4 DEF TypeOK
        <4>7. \A p \in PlanIDs : plan[p].state # "none" => plan'[p].state # "none"
          BY <2>3, <4>4, <4>5 DEF TypeOK
        <4>8. QED
          BY <4>1, <4>2, <4>6, <4>7
      <3>3. QED
        BY <1>15, <3>1, <3>2 DEF purgeLostReplicaMetadata, updateReplicaPlan
    <2>5. cleaner' \in CleanerState
      BY <2>1, <2>2, IdleTyped, AdvanceTyped
    <2>6. \/ cleaner'.pc = "idle"
          \/ cleaner'.todo # {} /\ cleaner'.todo \subseteq cleaner.todo
      BY <2>1, <2>2, IdleTyped, AdvanceTyped
    <2>7. CleanerOK'
      BY <2>2, <2>4, <2>6, CleanerUpdated
    <2>8. QED
      BY <2>2, <2>4, <2>5, <2>7 DEF TypeOK, LoopsOK, PlannerOK
  <1>16. ASSUME NEW c \in Chunks, DeleteFile(c) PROVE TypeInv'
    <2>1. UNCHANGED <<node, disk, failover, rebalance, copier, cleaner>>
      BY <1>16 DEF DeleteFile, loops
    <2>2. /\ replicas' \in [Chunks -> ReplicaSet] /\ present' \in [Chunks -> BOOLEAN]
          /\ count' \in [Chunks -> Nat]
      BY <1>16, IdleTyped DEF DeleteFile, TypeOK
    <2>3. \A p \in PlanIDs :
             /\ plan'[p] \in ReplicaPlan \cup {NoPlan}
             /\ plan[p].state # "none" => plan'[p].state # "none"
      <3> SUFFICES ASSUME NEW p \in PlanIDs
                   PROVE  /\ plan'[p] \in ReplicaPlan \cup {NoPlan}
                          /\ plan[p].state # "none" => plan'[p].state # "none"
        OBVIOUS
      <3>1. CASE plan'[p] = plan[p]
        BY <3>1 DEF TypeOK
      <3>2. CASE plan[p].chunk = c /\ plan'[p] = [plan[p] EXCEPT !.state = "deleted"]
        <4>1. plan[p] \in ReplicaPlan
          <5>1. None \notin Chunks
            BY ReplicationAssumption
          <5>2. NoPlan.chunk = None
            BY DEF NoPlan
          <5>3. QED
            BY <3>2, <5>1, <5>2 DEF TypeOK
        <4>2. plan'[p] \in ReplicaPlan /\ plan'[p].state = "deleted"
          BY <3>2, <4>1 DEF ReplicaPlan
        <4>3. QED
          BY <4>2
      <3>3. QED
        BY <1>16, <3>1, <3>2 DEF DeleteFile
    <2>4. plan' \in [PlanIDs -> ReplicaPlan \cup {NoPlan}]
      <3>1. plan' = [p \in PlanIDs |-> plan'[p]]
        BY <1>16 DEF DeleteFile
      <3>2. QED
        BY <2>3, <3>1
    <2>5. CleanerOK'
      BY <2>1, <2>3 DEF TypeOK, CleanerState, LoopsOK, CleanerOK
    <2>6. QED
      BY <2>1, <2>2, <2>4, <2>5 DEF TypeOK, LoopsOK, PlannerOK
  <1>17. CASE Restart
    <2>1. UNCHANGED <<node, present, replicas, count, plan, disk>>
      BY <1>17 DEF Restart, tables
    <2>2. /\ failover' \in [Chunks -> PlannerState] /\ rebalance' \in [Chunks -> PlannerState]
          /\ copier' \in [Chunks -> CopierState] /\ cleaner' \in CleanerState
      BY <1>17, IdleTyped DEF Restart
    <2>3. LoopsOK'
      BY <1>17, IdleTyped DEF Restart, LoopsOK, PlannerOK, CleanerOK
    <2>4. QED
      BY <2>1, <2>2, <2>3 DEF TypeOK
  <1>18. CASE UNCHANGED vars
    BY <1>18 DEF vars, TypeOK, LoopsOK, PlannerOK, CleanerOK
  <1> HIDE DEF TypeInv
  <1>19. ASSUME NEW c \in Chunks, PlannerStep(c) PROVE TypeInv'
    BY <1>19, <1>3, <1>4, <1>5, <1>6, <1>7, <1>8 DEF PlannerStep
  <1>20. ASSUME NEW c \in Chunks, RepairStep(c) PROVE TypeInv'
    BY <1>20, <1>9, <1>10, <1>11 DEF RepairStep
  <1>21. CASE CleanupStep
    BY <1>21, <1>12, <1>13, <1>14, <1>15 DEF CleanupStep
  <1>22. QED
    BY <1>1, <1>2, <1>16, <1>17, <1>18, <1>19, <1>20, <1>21 DEF Next

\* The rows and the local states of the loops are well formed in every
\* reachable state, for every set of nodes and chunks: no loop uses a source, a
\* target or a plan that it did not read or choose before.
THEOREM TypeCorrect == Spec => []TypeOK
  <1>1. TypeInv => TypeOK
    BY DEF TypeInv
  <1>2. QED
    BY <1>1, InitTyped, TypeStep, PTL DEF Spec
-----------------------------------------------------------------------------
\* The inductive invariant behind OnePlanPerType.
PlanInv == TypeInv /\ Checked /\ OnePlanPerType

\* A step that creates no plan, and after which a planner is about to create one
\* only if it was before or has just seen none of its type, is harmless.
LEMMA NoPlanCreated ==
    ASSUME PlanInv,
           \A p \in PlanIDs : plan'[p].state = "materialized" => plan'[p] = plan[p],
           \A c \in Chunks : failover'[c].pc = "selected" =>
              failover[c].pc = "selected" \/ ActivePlans(c, {"failover"}) = {},
           \A c \in Chunks : rebalance'[c].pc = "selected" =>
              rebalance[c].pc = "selected" \/ ActivePlans(c, {"rebalance"}) = {}
    PROVE  Checked' /\ OnePlanPerType'
  <1>1. OnePlanPerType'
    BY DEF PlanInv, OnePlanPerType
  <1>2. \A c \in Chunks, ty \in PlanType : ActivePlans(c, {ty})' \subseteq ActivePlans(c, {ty})
    BY DEF ActivePlans
  <1>3. Checked'
    BY <1>2 DEF PlanInv, Checked, PlanType
  <1>4. QED
    BY <1>1, <1>3

\* Creating a plan where there is none of its type keeps one per type, and the
\* other chunks and types as they are.
LEMMA OnePlanCreated ==
    ASSUME TypeOK, OnePlanPerType, NEW type \in PlanType, NEW c \in Chunks,
           NEW source \in Nodes, NEW target \in Nodes,
           ActivePlans(c, {type}) = {}, CreateReplicaPlan(type, c, source, target)
    PROVE  /\ OnePlanPerType'
           /\ \A d \in Chunks, ty \in PlanType :
                 d # c \/ ty # type => ActivePlans(d, {ty})' \subseteq ActivePlans(d, {ty})
  <1> DEFINE new == [state |-> "materialized", type |-> type, chunk |-> c,
                     source |-> source, target |-> target]
  <1>1. PICK p \in PlanIDs : plan[p].state = "none" /\ plan' = [plan EXCEPT ![p] = new]
    BY PlanCreated
  <1>2. new.type = type /\ new.chunk = c
    OBVIOUS
  <1> HIDE DEF new
  <1>3. plan'[p] = new /\ \A q \in PlanIDs : q # p => plan'[q] = plan[q]
    BY <1>1 DEF TypeOK
  <1>4. \A q \in PlanIDs : ~ (plan[q].state = "materialized" /\ plan[q].chunk = c
                              /\ plan[q].type = type)
    BY SMTT(30) DEF ActivePlans
  <1>5. OnePlanPerType'
    BY <1>2, <1>3, <1>4, SMTT(30) DEF OnePlanPerType
  <1>6. \A d \in Chunks, ty \in PlanType :
           d # c \/ ty # type => ActivePlans(d, {ty})' \subseteq ActivePlans(d, {ty})
    BY <1>2, <1>3 DEF ActivePlans
  <1>7. QED
    BY <1>5, <1>6

\* Every step keeps at most one active plan of a type for a chunk.
LEMMA PlanStep == PlanInv /\ TypeInv' /\ [Next]_vars => PlanInv'
  <1> SUFFICES ASSUME PlanInv, TypeInv', [Next]_vars PROVE Checked' /\ OnePlanPerType'
    BY DEF PlanInv
  <1> DEFINE Kept == \A p \in PlanIDs : plan'[p].state = "materialized" => plan'[p] = plan[p]
             F == \A c \in Chunks : failover'[c].pc = "selected" =>
                     failover[c].pc = "selected" \/ ActivePlans(c, {"failover"}) = {}
             R == \A c \in Chunks : rebalance'[c].pc = "selected" =>
                     rebalance[c].pc = "selected" \/ ActivePlans(c, {"rebalance"}) = {}
             Goal == Checked' /\ OnePlanPerType'
  <1>1. Kept /\ F /\ R => Goal
    BY NoPlanCreated
  <1>2. UNCHANGED <<plan, failover, rebalance>> => Kept /\ F /\ R
    OBVIOUS
  <1>3. ASSUME NEW n \in Nodes, HeartbeatNode(n) \/ NodeTimesOut(n) PROVE Goal
    BY <1>1, <1>2, <1>3 DEF HeartbeatNode, updateNodeHeartbeat, NodeTimesOut, loops
  <1>4. ASSUME NEW c \in Chunks, NEW n \in Nodes, FailoverScan(c, n) PROVE Goal
    <2>1. Kept /\ R
      BY <1>4, SMTT(30) DEF FailoverScan, tables
    <2>2. F
      BY <1>4 DEF FailoverScan, PlanInv, TypeInv, TypeOK
    <2>3. QED
      BY <1>1, <2>1, <2>2
  <1>5. ASSUME NEW c \in Chunks, NEW n \in Nodes, RebalanceScan(c, n) PROVE Goal
    <2>1. Kept /\ F
      BY <1>5 DEF RebalanceScan, tables
    <2>2. R
      BY <1>5 DEF RebalanceScan, PlanInv, TypeInv, TypeOK
    <2>3. QED
      BY <1>1, <2>1, <2>2
  <1>6. ASSUME NEW c \in Chunks, FailoverSelect(c) PROVE Goal
    <2>1. Kept /\ R
      BY <1>6 DEF FailoverSelect, tables
    <2>2. FailoverTargets(c) # {} => ActivePlans(c, {"failover"}) = {}
      BY DEF FailoverTargets
    <2>3. \A d \in Chunks : d # c => failover'[d] = failover[d]
      BY <1>6 DEF FailoverSelect, PlanInv, TypeInv, TypeOK
    <2>4. FailoverTargets(c) # {} \/ failover'[c].pc = "idle"
      BY <1>6, IdleTyped DEF FailoverSelect, PlanInv, TypeInv, TypeOK
    <2>5. F
      BY <2>2, <2>3, <2>4
    <2>6. QED
      BY <1>1, <2>1, <2>5
  <1>7. ASSUME NEW c \in Chunks, RebalanceSelect(c) PROVE Goal
    <2>1. Kept /\ F
      BY <1>7 DEF RebalanceSelect, tables
    <2>2. RebalanceTargets(c) # {} => ActivePlans(c, {"rebalance"}) = {}
      BY DEF RebalanceTargets, ActivePlans, PlanType
    <2>3. \A d \in Chunks : d # c => rebalance'[d] = rebalance[d]
      BY <1>7 DEF RebalanceSelect, PlanInv, TypeInv, TypeOK
    <2>4. RebalanceTargets(c) # {} \/ rebalance'[c].pc = "idle"
      BY <1>7, IdleTyped DEF RebalanceSelect, PlanInv, TypeInv, TypeOK
    <2>5. R
      BY <2>2, <2>3, <2>4
    <2>6. QED
      BY <1>1, <2>1, <2>5
  <1>8. ASSUME NEW c \in Chunks, materializePendingReplica(c) PROVE Goal
    <2>1. /\ failover[c].pc = "selected"
          /\ Materialize("failover", c, failover[c])
          /\ failover' = [failover EXCEPT ![c] = IdlePlanner]
          /\ rebalance' = rebalance
      BY <1>8 DEF materializePendingReplica
    <2>2. failover'[c].pc = "idle" /\ \A d \in Chunks : d # c => failover'[d] = failover[d]
      BY <2>1, IdleTyped DEF PlanInv, TypeInv, TypeOK
    <2>3. CASE UNCHANGED plan
      BY <1>1, <2>1, <2>2, <2>3
    <2>4. CASE CreateReplicaPlan("failover", c, failover[c].source, failover[c].target)
      <3>1. failover[c].source \in Nodes /\ failover[c].target \in Nodes
        BY <2>1 DEF PlanInv, TypeInv, LoopsOK, PlannerOK
      <3>2. ActivePlans(c, {"failover"}) = {}
        BY <2>1 DEF PlanInv, Checked
      <3>3. "failover" \in PlanType /\ "rebalance" \in PlanType
        BY DEF PlanType
      <3>4. /\ OnePlanPerType'
            /\ \A d \in Chunks, ty \in PlanType : d # c \/ ty # "failover" =>
                  ActivePlans(d, {ty})' \subseteq ActivePlans(d, {ty})
        BY <2>4, <3>1, <3>2, <3>3, OnePlanCreated DEF PlanInv, TypeInv
      <3>5. Checked'
        BY <2>1, <2>2, <3>3, <3>4, ZenonT(60) DEF PlanInv, Checked
      <3>6. QED
        BY <3>4, <3>5
    <2>5. QED
      BY <2>1, <2>3, <2>4 DEF Materialize
  <1>9. ASSUME NEW c \in Chunks, planReplicaMove(c) PROVE Goal
    <2>1. /\ rebalance[c].pc = "selected"
          /\ Materialize("rebalance", c, rebalance[c])
          /\ rebalance' = [rebalance EXCEPT ![c] = IdlePlanner]
          /\ failover' = failover
      BY <1>9 DEF planReplicaMove
    <2>2. rebalance'[c].pc = "idle" /\ \A d \in Chunks : d # c => rebalance'[d] = rebalance[d]
      BY <2>1, IdleTyped DEF PlanInv, TypeInv, TypeOK
    <2>3. CASE UNCHANGED plan
      BY <1>1, <2>1, <2>2, <2>3
    <2>4. CASE CreateReplicaPlan("rebalance", c, rebalance[c].source, rebalance[c].target)
      <3>1. rebalance[c].source \in Nodes /\ rebalance[c].target \in Nodes
        BY <2>1 DEF PlanInv, TypeInv, LoopsOK, PlannerOK
      <3>2. ActivePlans(c, {"rebalance"}) = {}
        BY <2>1 DEF PlanInv, Checked
      <3>3. "failover" \in PlanType /\ "rebalance" \in PlanType
        BY DEF PlanType
      <3>4. /\ OnePlanPerType'
            /\ \A d \in Chunks, ty \in PlanType : d # c \/ ty # "rebalance" =>
                  ActivePlans(d, {ty})' \subseteq ActivePlans(d, {ty})
        BY <2>4, <3>1, <3>2, <3>3, OnePlanCreated DEF PlanInv, TypeInv
      <3>5. Checked'
        BY <2>1, <2>2, <3>3, <3>4, Zenon DEF PlanInv, Checked
      <3>6. QED
        BY <3>4, <3>5
    <2>5. QED
      BY <2>1, <2>3, <2>4 DEF Materialize
  <1>10. ASSUME NEW c \in Chunks, RepairStep(c) PROVE Goal
    <2>1. UNCHANGED <<plan, failover, rebalance>>
      BY <1>10 DEF RepairStep, RepairScan, RepairCopy, RepairRecord, tables
    <2>2. QED
      BY <1>1, <1>2, <2>1
  <1>11. CASE CleanupList \/ finalizeCompletedPlan \/ deleteSourceReplica
    <2>1. UNCHANGED <<plan, failover, rebalance>>
      BY <1>11 DEF CleanupList, finalizeCompletedPlan, deleteSourceReplica, tables
    <2>2. QED
      BY <1>1, <1>2, <2>1
  <1>12. CASE purgeLostReplicaMetadata
    <2>1. F /\ R
      BY <1>12 DEF purgeLostReplicaMetadata, updateReplicaPlan
    <2>2. Current \in PlanIDs /\ plan[Current] \in ReplicaPlan
      BY <1>12, CurrentIsPlan DEF updateReplicaPlan, purgeLostReplicaMetadata, PlanInv
    <2>3. [plan[Current] EXCEPT !.state = "done"].state = "done"
      BY <2>2 DEF ReplicaPlan
    <2>4. \/ plan' = plan
          \/ plan' = [plan EXCEPT ![Current] = [plan[Current] EXCEPT !.state = "done"]]
      BY <1>12 DEF purgeLostReplicaMetadata, updateReplicaPlan
    <2>5. Kept
      BY <2>2, <2>3, <2>4, Zenon DEF PlanInv, TypeInv, TypeOK
    <2>6. QED
      BY <1>1, <2>1, <2>5
  <1>13. ASSUME NEW c \in Chunks, DeleteFile(c) PROVE Goal
    <2>1. F /\ R
      BY <1>13 DEF DeleteFile, loops
    <2>2. Kept
      <3> SUFFICES ASSUME NEW p \in PlanIDs, plan'[p].state = "materialized"
                   PROVE  plan'[p] = plan[p]
        OBVIOUS
      <3>1. plan'[p] = plan[p] \/ plan'[p] = [plan[p] EXCEPT !.state = "deleted"]
        BY <1>13 DEF DeleteFile
      <3>2. plan[p] \in ReplicaPlan \cup {NoPlan}
        BY DEF PlanInv, TypeInv, TypeOK
      <3>3. [plan[p] EXCEPT !.state = "deleted"].state = "deleted"
        BY <3>2 DEF ReplicaPlan, NoPlan
      <3>4. QED
        BY <3>1, <3>3, Zenon
    <2>3. QED
      BY <1>1, <2>1, <2>2
  <1>14. CASE Restart
    <2>1. Kept
      BY <1>14 DEF Restart, tables
    <2>2. F /\ R
      BY <1>14, IdleTyped DEF Restart
    <2>3. QED
      BY <1>1, <2>1, <2>2
  <1>15. CASE UNCHANGED vars
    BY <1>1, <1>2, <1>15 DEF vars
  <1> HIDE DEF Goal, Kept, F, R
  <1>16. ASSUME NEW c \in Chunks, PlannerStep(c) PROVE Goal
    BY <1>16, <1>4, <1>5, <1>6, <1>7, <1>8, <1>9 DEF PlannerStep
  <1>17. CASE CleanupStep
    BY <1>17, <1>11, <1>12 DEF CleanupStep
  <1>18. Goal
    <2>1. CASE \E n \in Nodes : HeartbeatNode(n) \/ NodeTimesOut(n)
      BY <1>3, <2>1
    <2>2. CASE \E c \in Chunks : PlannerStep(c) \/ RepairStep(c) \/ DeleteFile(c)
      BY <1>10, <1>13, <1>16, <2>2
    <2>3. QED
      BY <1>14, <1>15, <1>17, <2>1, <2>2 DEF Next, Goal
  <1>19. QED
    BY <1>18 DEF Goal

\* The first state has no plan.
LEMMA PlanInit == Init => PlanInv
  <1> SUFFICES ASSUME Init PROVE PlanInv
    OBVIOUS
  <1>1. \A p \in PlanIDs : plan[p].state = "none"
    BY DEF Init, NoPlan
  <1>2. Checked
    BY <1>1 DEF Checked, ActivePlans
  <1>3. OnePlanPerType
    BY <1>1 DEF OnePlanPerType
  <1>4. QED
    BY <1>2, <1>3, InitTyped DEF PlanInv

\* At most one unfinished plan of a type exists for a chunk at any time, for
\* every number of nodes, chunks and plans and for both stores: the look at the
\* plan table and the creation of a plan are two store calls, but the planner of
\* a type is the only loop that creates plans of the type.
THEOREM OnePlan == Spec => []OnePlanPerType
  <1>1. PlanInv /\ [Next]_vars => PlanInv'
    BY TypeStep, PlanStep DEF PlanInv
  <1>2. PlanInv => OnePlanPerType
    BY DEF PlanInv
  <1>3. QED
    BY <1>1, <1>2, PlanInit, PTL DEF Spec

-----------------------------------------------------------------------------
(* One chunk as the loops see it. *)

\* The nodes that store its data.
Copies(c) == {n \in Nodes : c \in disk[n]}

\* The nodes the repairer copies it to, and those that it has been told have it.
Targets(c) == IF copier[c].pc = "idle" THEN {} ELSE copier[c].targets
Answered(c) == IF copier[c].pc = "copied" THEN copier[c].ok ELSE {}

\* Its unfinished plans, and those that move a replica.
Active(c) == ActivePlans(c, PlanType)
Moves(c) == ActivePlans(c, {"rebalance"})

\* Its plans in the pass of the cleanup: all, the one being finished, and the
\* one whose source is being deleted.
Todo(c) == {p \in PlanIDs : cleaner.pc # "idle" /\ p \in cleaner.todo /\ plan[p].chunk = c}
Cleaned(c) == {p \in Todo(c) : cleaner.pc \in {"deleting", "removing"} /\ p = Current}
Deleting(c) == {p \in Todo(c) : cleaner.pc = "deleting" /\ p = Current}

-----------------------------------------------------------------------------
(* The steps by what they do to one chunk. *)

RowsKept(c) == replicas'[c] = replicas[c]
CopiesKept(c) == Copies(c)' = Copies(c)
PlansKept(c) ==
    \A p \in PlanIDs : \/ plan[p].state # "none" /\ plan[p].chunk = c
                       \/ plan'[p].state # "none" /\ plan'[p].chunk = c
                       => plan'[p] = plan[p]
CopierKept(c) == copier'[c] = copier[c] \/ copier'[c].pc = "idle"

\* The cleanup stays with its plan, goes on, or lists unfinished plans.
CleanerKept(c) ==
    /\ Todo(c)' \subseteq Todo(c) \cup Active(c)
    /\ Cleaned(c)' \subseteq Cleaned(c)
    /\ Deleting(c)' \subseteq Deleting(c)

\* A planner reads the rows.
Reads(old, new, c) ==
    /\ new[c].pc = "scanned"
    /\ new[c].snap = replicas[c]
    /\ new[c].source \in Rows(replicas[c])

\* A planner chooses a target among the nodes without a row.
Chooses(old, new, c) ==
    /\ old[c].pc = "scanned" /\ new[c].pc = "selected"
    /\ new[c].source = old[c].source /\ new[c].snap = old[c].snap
    /\ new[c].target \in Nodes \ Rows(old[c].snap)

MoverKept(c) ==
    \/ rebalance'[c] = rebalance[c]
    \/ rebalance'[c].pc = "idle"
    \/ Reads(rebalance, rebalance', c)

FailoverKept(c) ==
    \/ failover'[c] = failover[c]
    \/ failover'[c].pc = "idle"
    \/ Reads(failover, failover', c)
    \/ Chooses(failover, failover', c) /\ ActivePlans(c, {"failover"}) = {}

LoopsKept(c) == MoverKept(c) /\ FailoverKept(c) /\ CleanerKept(c)

\* Nothing happens to the chunk.
Still(c) == RowsKept(c) /\ CopiesKept(c) /\ PlansKept(c) /\ CopierKept(c) /\ LoopsKept(c)

\* The rebalance planner chooses a target.
Selects(c) ==
    /\ RowsKept(c) /\ CopiesKept(c) /\ PlansKept(c) /\ CopierKept(c)
    /\ FailoverKept(c) /\ CleanerKept(c)
    /\ Chooses(rebalance, rebalance', c)
    /\ Active(c) = {}
    /\ Cardinality(ReadyOn(rebalance[c].snap)) >= DesiredReplicaCount

\* A planner creates plan p and the pending row of its target.
CreatedBy(planner, c, p) ==
    /\ planner[c].pc = "selected"
    /\ plan'[p].source = planner[c].source /\ plan'[p].target = planner[c].target

Creates(c, p) ==
    /\ CopiesKept(c) /\ copier'[c] = copier[c] /\ LoopsKept(c)
    /\ plan[p].state = "none" /\ plan'[p].state = "materialized" /\ plan'[p].chunk = c
    /\ \A q \in PlanIDs \ {p} : plan'[q] = plan[q]
    /\ replicas'[c] = [replicas[c] EXCEPT ![plan'[p].target] = "pending"]
    /\ \/ /\ plan'[p].type = "rebalance" /\ CreatedBy(rebalance, c, p)
          /\ rebalance'[c].pc = "idle" /\ failover'[c] = failover[c]
       \/ /\ plan'[p].type = "failover" /\ CreatedBy(failover, c, p)
          /\ failover'[c].pc = "idle" /\ rebalance'[c] = rebalance[c]

\* The repairer reads the rows.
Scans(c) ==
    /\ RowsKept(c) /\ CopiesKept(c) /\ PlansKept(c) /\ LoopsKept(c)
    /\ copier'[c].pc = "copying"
    /\ copier'[c].source \in ReadyOn(replicas[c])
    /\ copier'[c].targets \subseteq PendingOn(replicas[c])

\* The data node copies the data to some of the targets.
Sends(c) ==
    /\ RowsKept(c) /\ PlansKept(c) /\ LoopsKept(c)
    /\ copier[c].pc = "copying" /\ c \in disk[copier[c].source]
    /\ Copies(c) \subseteq Copies(c)' /\ Copies(c)' \subseteq Copies(c) \cup copier[c].targets
    /\ \/ copier'[c].pc = "idle"
       \/ /\ copier'[c].pc = "copied" /\ copier'[c].targets = copier[c].targets
          /\ copier'[c].ok \subseteq Copies(c)' \cap copier[c].targets

\* The repairer writes the rows of its targets.
Records(c) ==
    /\ CopiesKept(c) /\ PlansKept(c) /\ LoopsKept(c)
    /\ copier[c].pc = "copied" /\ copier'[c].pc = "idle"
    /\ replicas'[c] = [n \in Nodes |-> IF n \in copier[c].targets
                                       THEN IF n \in copier[c].ok THEN "ready" ELSE "pending"
                                       ELSE replicas[c][n]]

\* The cleanup finds the target of plan p ready.
Takes(c, p) ==
    /\ RowsKept(c) /\ CopiesKept(c) /\ PlansKept(c) /\ CopierKept(c)
    /\ MoverKept(c) /\ FailoverKept(c)
    /\ p \in Todo(c) /\ replicas[c][plan[p].target] = "ready"
    /\ Todo(c)' \subseteq Todo(c)
    /\ Cleaned(c)' \subseteq {p}
    /\ Deleting(c)' \subseteq {q \in {p} : plan[q].type = "rebalance"}

\* The source of plan p deletes the data.
Erases(c, p) ==
    /\ RowsKept(c) /\ PlansKept(c) /\ CopierKept(c) /\ LoopsKept(c)
    /\ p \in Deleting(c)
    /\ plan[p].source \in Copies(c)
    /\ Copies(c)' = Copies(c) \ {plan[p].source}

\* The row of the source of plan p goes, and the plan is done.
Purges(c, p) ==
    /\ CopiesKept(c) /\ CopierKept(c) /\ LoopsKept(c)
    /\ p \in Cleaned(c)
    /\ replicas'[c] = [replicas[c] EXCEPT ![plan[p].source] = "none"]
    /\ plan'[p].state = "done" /\ plan'[p].type = plan[p].type /\ plan'[p].chunk = c
    /\ \A q \in PlanIDs \ {p} : plan'[q] = plan[q]
    /\ Todo(c)' \subseteq Todo(c) \ {p}

Effect(c) ==
    \/ Still(c) \/ Selects(c) \/ Scans(c) \/ Sends(c) \/ Records(c)
    \/ \E p \in PlanIDs : Creates(c, p) \/ Takes(c, p) \/ Erases(c, p) \/ Purges(c, p)

-----------------------------------------------------------------------------
\* A pass that is left alone stays with its plans.
LEMMA SamePass ==
    ASSUME TypeInv, NEW c \in Chunks, cleaner' = cleaner,
           \A q \in PlanIDs : plan[q].state # "none" => plan'[q].chunk = plan[q].chunk
    PROVE  CleanerKept(c)
  <1>1. cleaner.pc # "idle" => \A q \in cleaner.todo : q \in PlanIDs /\ plan[q].state # "none"
    BY Zenon DEF TypeInv, TypeOK, CleanerState, LoopsOK, CleanerOK
  <1>2. Current' = Current
    BY Zenon DEF Current
  <1>3. Todo(c)' \subseteq Todo(c)
    BY <1>1, Zenon DEF Todo
  <1>4. QED
    BY <1>2, <1>3, Zenon DEF CleanerKept, Cleaned, Deleting

\* A pass that ends has no plans.
LEMMA PassEnds ==
    ASSUME NEW c \in Chunks, cleaner'.pc = "idle"
    PROVE  CleanerKept(c) /\ Todo(c)' = {}
  BY Zenon DEF CleanerKept, Todo, Cleaned, Deleting

\* A pass that goes on leaves its plan behind.
LEMMA PassAdvances ==
    ASSUME TypeInv, NEW c \in Chunks, cleaner.pc # "idle", Advance,
           \A q \in PlanIDs : plan[q].state # "none" => plan'[q].chunk = plan[q].chunk
    PROVE  CleanerKept(c) /\ Todo(c)' \subseteq Todo(c) \ {Current}
  <1>1. \A q \in cleaner.todo : q \in PlanIDs /\ plan[q].state # "none"
    BY Zenon DEF TypeInv, TypeOK, CleanerState, LoopsOK, CleanerOK
  <1>2. CASE cleaner' = IdleCleaner
    BY <1>2, IdleTyped, PassEnds, Zenon
  <1>3. CASE cleaner' = [pc |-> "next", todo |-> cleaner.todo \ {Current}]
    <2>1. cleaner'.pc = "next" /\ cleaner'.todo = cleaner.todo \ {Current}
      BY <1>3, Zenon
    <2>2. Todo(c)' \subseteq Todo(c) \ {Current}
      BY <1>1, <2>1, Zenon DEF Todo
    <2>3. Cleaned(c)' = {} /\ Deleting(c)' = {}
      BY <2>1, Zenon DEF Cleaned, Deleting
    <2>4. QED
      BY <2>2, <2>3, Zenon DEF CleanerKept
  <1>4. QED
    BY <1>2, <1>3, Zenon DEF Advance

\* A step that leaves the tables of the chunk and the loops alone.
LEMMA NothingHappens ==
    ASSUME TypeInv, NEW c \in Chunks, RowsKept(c), disk' = disk, plan' = plan, CopierKept(c),
           MoverKept(c), FailoverKept(c), cleaner' = cleaner
    PROVE  Still(c)
  <1>1. CleanerKept(c)
    BY SamePass, Zenon
  <1>2. CopiesKept(c) /\ PlansKept(c)
    BY Zenon DEF CopiesKept, Copies, PlansKept
  <1>3. QED
    BY <1>1, <1>2, Zenon DEF Still, LoopsKept

\* What a scan or a choice of a planner for chunk d does to chunk c.
LEMMA PlannerEffect ==
    ASSUME TypeInv, NEW c \in Chunks, NEW d \in Chunks, NEW n,
           \/ n \in Nodes /\ (FailoverScan(d, n) \/ RebalanceScan(d, n))
           \/ FailoverSelect(d) \/ RebalanceSelect(d)
    PROVE  Still(c) \/ Selects(c)
  <1>1. UNCHANGED <<present, replicas, plan, disk, copier, cleaner>>
    BY Zenon DEF FailoverScan, RebalanceScan, FailoverSelect, RebalanceSelect, tables
  <1>2. RowsKept(c) /\ CopierKept(c)
    BY <1>1, Zenon DEF RowsKept, CopierKept
  <1>3. failover \in [Chunks -> PlannerState] /\ rebalance \in [Chunks -> PlannerState]
    BY Zenon DEF TypeInv, TypeOK
  <1>4. CASE n \in Nodes /\ FailoverScan(d, n)
    <2>1. MoverKept(c) /\ (c # d => failover'[c] = failover[c])
      BY <1>3, <1>4, Zenon DEF FailoverScan, MoverKept
    <2>2. c = d => Reads(failover, failover', c)
      BY <1>3, <1>4, Zenon DEF FailoverScan, Reads, ListChunksByNode, Rows
    <2>3. FailoverKept(c)
      BY <2>1, <2>2, Zenon DEF FailoverKept
    <2>4. QED
      BY <1>1, <1>2, <2>1, <2>3, NothingHappens, Zenon
  <1>5. CASE n \in Nodes /\ RebalanceScan(d, n)
    <2>1. FailoverKept(c) /\ (c # d => rebalance'[c] = rebalance[c])
      BY <1>3, <1>5, Zenon DEF RebalanceScan, FailoverKept
    <2>2. c = d => Reads(rebalance, rebalance', c)
      BY <1>3, <1>5, Zenon DEF RebalanceScan, Reads, ListChunksByNode, Rows
    <2>3. MoverKept(c)
      BY <2>1, <2>2, Zenon DEF MoverKept
    <2>4. QED
      BY <1>1, <1>2, <2>1, <2>3, NothingHappens, Zenon
  <1>6. CASE FailoverSelect(d)
    <2>1. MoverKept(c)
      BY <1>6, Zenon DEF FailoverSelect, MoverKept
    <2>2. FailoverKept(c)
      <3>1. CASE failover' = [failover EXCEPT ![d] = IdlePlanner]
        BY <1>3, <3>1, IdleTyped, Zenon DEF FailoverKept
      <3>2. ASSUME NEW t \in FailoverTargets(d),
                   failover' = [failover EXCEPT ![d].pc = "selected", ![d].target = t]
            PROVE  FailoverKept(c)
        <4> DEFINE v == [failover[d] EXCEPT !.pc = "selected", !.target = t]
        <4>1. failover' = [failover EXCEPT ![d] = v]
          BY <3>2, Zenon
        <4>2. v.pc = "selected" /\ v.target = t /\ v.source = failover[d].source
              /\ v.snap = failover[d].snap
          BY <1>3, Zenon DEF PlannerState
        <4>3. t \in Nodes \ Rows(failover[d].snap) /\ ActivePlans(d, {"failover"}) = {}
          BY Zenon DEF FailoverTargets, PlacementTargets, ListNodes
        <4>4. failover[d].pc = "scanned"
          BY <1>6, Zenon DEF FailoverSelect
        <4> HIDE DEF v
        <4>5. QED
          BY <1>3, <4>1, <4>2, <4>3, <4>4, Zenon DEF FailoverKept, Chooses
      <3>3. QED
        BY <1>6, <3>1, <3>2, Zenon DEF FailoverSelect
    <2>3. QED
      BY <1>1, <1>2, <2>1, <2>2, NothingHappens, Zenon
  <1>7. CASE RebalanceSelect(d)
    <2>1. FailoverKept(c)
      BY <1>7, Zenon DEF RebalanceSelect, FailoverKept
    <2>2. CASE rebalance' = [rebalance EXCEPT ![d] = IdlePlanner]
      <3>1. MoverKept(c)
        BY <1>3, <2>2, IdleTyped, Zenon DEF MoverKept
      <3>2. QED
        BY <1>1, <1>2, <2>1, <3>1, NothingHappens, Zenon
    <2>3. ASSUME NEW t \in RebalanceTargets(d),
                 rebalance' = [rebalance EXCEPT ![d].pc = "selected", ![d].target = t]
          PROVE  Still(c) \/ Selects(c)
      <3> DEFINE v == [rebalance[d] EXCEPT !.pc = "selected", !.target = t]
      <3>1. rebalance' = [rebalance EXCEPT ![d] = v]
        BY <2>3, Zenon
      <3>2. v.pc = "selected" /\ v.target = t /\ v.source = rebalance[d].source
            /\ v.snap = rebalance[d].snap
        BY <1>3, Zenon DEF PlannerState
      <3>3. /\ t \in Nodes \ Rows(rebalance[d].snap) /\ Active(d) = {}
            /\ CountEffectiveReadyReplicas(rebalance[d].snap) >= DesiredReplicaCount
        BY Zenon DEF RebalanceTargets, PlacementTargets, ListNodes, Active
      <3>4. rebalance[d].pc = "scanned"
        BY <1>7, Zenon DEF RebalanceSelect
      <3> HIDE DEF v
      <3>5. CASE c # d
        <4>1. MoverKept(c)
          BY <1>3, <3>1, <3>5, Zenon DEF MoverKept
        <4>2. QED
          BY <1>1, <1>2, <2>1, <4>1, NothingHappens, Zenon
      <3>6. CASE c = d
        <4>1. Chooses(rebalance, rebalance', c)
          BY <1>3, <3>1, <3>2, <3>3, <3>4, <3>6, Zenon DEF Chooses
        <4>2. Cardinality(ReadyOn(rebalance[c].snap)) >= DesiredReplicaCount
          <5> DEFINE S == ReadyOn(rebalance[c].snap)
                     T == {m \in S : Healthy(m)}
          <5>1. IsFiniteSet(S) /\ IsFiniteSet(T)
            BY ReplicationAssumption, FS_Subset, Zenon DEF ReadyOn
          <5>2. Cardinality(T) <= Cardinality(S) /\ Cardinality(S) \in Nat /\ Cardinality(T) \in Nat
            BY <5>1, FS_Subset, FS_CardinalityType, Zenon
          <5>3. Cardinality(T) >= DesiredReplicaCount
            BY <3>3, <3>6, Zenon DEF CountEffectiveReadyReplicas
          <5>4. QED
            BY <5>2, <5>3, ReplicationAssumption
        <4>3. CleanerKept(c) /\ CopiesKept(c) /\ PlansKept(c)
          BY <1>1, SamePass, Zenon DEF CopiesKept, Copies, PlansKept
        <4>4. QED
          BY <1>2, <2>1, <3>3, <3>6, <4>1, <4>2, <4>3, Zenon DEF Selects
      <3>7. QED
        BY <3>5, <3>6, Zenon
    <2>4. QED
      BY <1>7, <2>2, <2>3, Zenon DEF RebalanceSelect
  <1>8. QED
    BY <1>4, <1>5, <1>6, <1>7, Zenon

\* A plan and the pending row of its target appear.
Made(p, type, c, local) ==
    /\ plan[p].state = "none"
    /\ plan'[p].state = "materialized" /\ plan'[p].type = type /\ plan'[p].chunk = c
    /\ plan'[p].source = local.source /\ plan'[p].target = local.target
    /\ \A q \in PlanIDs \ {p} : plan'[q] = plan[q]
    /\ replicas'[c] = [replicas[c] EXCEPT ![local.target] = "pending"]
    /\ \A d \in Chunks \ {c} : replicas'[d] = replicas[d]

\* The planners' transaction creates a plan and a pending row, or nothing.
LEMMA MaterializeEffect ==
    ASSUME TypeInv, NEW type \in PlanType, NEW c \in Chunks, NEW local \in PlannerState,
           local.source \in Nodes, local.target \in Nodes, Materialize(type, c, local)
    PROVE  \/ UNCHANGED <<plan, replicas>>
           \/ \E p \in PlanIDs : Made(p, type, c, local)
  <1>1. CASE UNCHANGED <<plan, replicas, count>>
    BY <1>1, Zenon
  <1>2. CASE /\ CreateReplicaPlan(type, c, local.source, local.target)
             /\ UpdateChunkReplicas(c, [n \in {local.target} |-> "pending"],
                                    Cardinality(Rows(local.snap)) + 1)
    <2> DEFINE new == [state |-> "materialized", type |-> type, chunk |-> c,
                       source |-> local.source, target |-> local.target]
               u == [n \in {local.target} |-> "pending"]
               rs == [n \in Nodes |-> IF n \in DOMAIN u THEN u[n] ELSE replicas[c][n]]
    <2>1. PICK p \in PlanIDs : plan[p].state = "none" /\ plan' = [plan EXCEPT ![p] = new]
      BY <1>2, PlanCreated
    <2>2. /\ new.state = "materialized" /\ new.type = type /\ new.chunk = c
          /\ new.source = local.source /\ new.target = local.target
      BY Zenon
    <2>4. replicas' = [replicas EXCEPT ![c] = rs]
      BY <1>2, Zenon DEF UpdateChunkReplicas
    <2>5. rs = [replicas[c] EXCEPT ![local.target] = "pending"]
      BY Zenon DEF TypeInv, TypeOK, ReplicaSet
    <2> HIDE DEF new, rs
    <2>6. /\ replicas'[c] = [replicas[c] EXCEPT ![local.target] = "pending"]
          /\ \A d \in Chunks \ {c} : replicas'[d] = replicas[d]
      BY <2>4, <2>5, Zenon DEF TypeInv, TypeOK
    <2>7. plan'[p] = new /\ \A q \in PlanIDs \ {p} : plan'[q] = plan[q]
      BY <2>1, Zenon DEF TypeInv, TypeOK
    <2>8. QED
      BY <2>1, <2>2, <2>6, <2>7, ZenonT(60) DEF Made
  <1>3. QED
    BY <1>1, <1>2, Zenon DEF Materialize

\* What the transaction of a planner for chunk d does to chunk c.
LEMMA PlanEffect ==
    ASSUME TypeInv, NEW c \in Chunks, NEW d \in Chunks,
           materializePendingReplica(d) \/ planReplicaMove(d)
    PROVE  Still(c) \/ \E p \in PlanIDs : Creates(c, p)
  <1>1. failover \in [Chunks -> PlannerState] /\ rebalance \in [Chunks -> PlannerState]
    BY Zenon DEF TypeInv, TypeOK
  <1> DEFINE Same == UNCHANGED <<plan, replicas>>
  <1>2. UNCHANGED <<disk, copier, cleaner>>
    BY Zenon DEF materializePendingReplica, planReplicaMove
  <1>3. CopiesKept(c) /\ CopierKept(c)
    BY <1>2, Zenon DEF CopiesKept, Copies, CopierKept
  <1>4. MoverKept(c) /\ FailoverKept(c)
    BY <1>1, IdleTyped, Zenon DEF materializePendingReplica, planReplicaMove, MoverKept, FailoverKept
  <1>5. Same => Still(c)
    BY <1>2, <1>3, <1>4, NothingHappens, Zenon DEF RowsKept
  <1>6. ASSUME NEW p \in PlanIDs, NEW type, NEW local, Made(p, type, d, local)
        PROVE  LoopsKept(c) /\ (c # d => Still(c))
    <2>1. CleanerKept(c)
      BY <1>2, <1>6, SamePass, Zenon DEF Made
    <2>2. c # d => RowsKept(c) /\ PlansKept(c)
      BY <1>6, Zenon DEF Made, RowsKept, PlansKept
    <2>3. QED
      BY <1>3, <1>4, <2>1, <2>2, Zenon DEF Still, LoopsKept
  <1>7. CASE materializePendingReplica(d)
    <2>1. /\ failover[d].pc = "selected" /\ failover[d] \in PlannerState
          /\ failover[d].source \in Nodes /\ failover[d].target \in Nodes
      BY <1>7, Zenon DEF materializePendingReplica, TypeInv, TypeOK, LoopsOK, PlannerOK
    <2>2. Same \/ \E p \in PlanIDs : Made(p, "failover", d, failover[d])
      <3>1. "failover" \in PlanType /\ Materialize("failover", d, failover[d])
        BY <1>7, Zenon DEF materializePendingReplica, PlanType
      <3>2. QED
        BY <2>1, <3>1, MaterializeEffect, Zenon
    <2>3. failover'[d].pc = "idle" /\ rebalance' = rebalance
      BY <1>1, <1>7, IdleTyped, Zenon DEF materializePendingReplica
    <2>4. ASSUME NEW p \in PlanIDs, Made(p, "failover", d, failover[d])
          PROVE  Still(c) \/ Creates(c, p)
      <3>1. LoopsKept(c) /\ (c # d => Still(c))
        BY <1>6, <2>4, Zenon
      <3>2. c = d => Creates(c, p)
        BY <1>2, <1>3, <2>1, <2>3, <2>4, <3>1, ZenonT(60) DEF Made, Creates, CreatedBy
      <3>3. QED
        BY <3>1, <3>2, Zenon
    <2>5. QED
      BY <1>5, <2>2, <2>4, Zenon
  <1>8. CASE planReplicaMove(d)
    <2>1. /\ rebalance[d].pc = "selected" /\ rebalance[d] \in PlannerState
          /\ rebalance[d].source \in Nodes /\ rebalance[d].target \in Nodes
      BY <1>8, Zenon DEF planReplicaMove, TypeInv, TypeOK, LoopsOK, PlannerOK
    <2>2. Same \/ \E p \in PlanIDs : Made(p, "rebalance", d, rebalance[d])
      <3>1. "rebalance" \in PlanType /\ Materialize("rebalance", d, rebalance[d])
        BY <1>8, Zenon DEF planReplicaMove, PlanType
      <3>2. QED
        BY <2>1, <3>1, MaterializeEffect, Zenon
    <2>3. rebalance'[d].pc = "idle" /\ failover' = failover
      BY <1>1, <1>8, IdleTyped, Zenon DEF planReplicaMove
    <2>4. ASSUME NEW p \in PlanIDs, Made(p, "rebalance", d, rebalance[d])
          PROVE  Still(c) \/ Creates(c, p)
      <3>1. LoopsKept(c) /\ (c # d => Still(c))
        BY <1>6, <2>4, Zenon
      <3>2. c = d => Creates(c, p)
        BY <1>2, <1>3, <2>1, <2>3, <2>4, <3>1, Zenon DEF Made, Creates, CreatedBy
      <3>3. QED
        BY <3>1, <3>2, Zenon
    <2>5. QED
      BY <1>5, <2>2, <2>4, Zenon
  <1>9. QED
    BY <1>7, <1>8, Zenon

\* What the repairer does to chunk c when it works on chunk d.
LEMMA RepairEffect ==
    ASSUME TypeInv, NEW c \in Chunks, NEW d \in Chunks, RepairStep(d)
    PROVE  Still(c) \/ Scans(c) \/ Sends(c) \/ Records(c)
  <1>1. UNCHANGED <<plan, failover, rebalance, cleaner>>
    BY Zenon DEF RepairStep, RepairScan, RepairCopy, RepairRecord, tables
  <1>2. LoopsKept(c) /\ PlansKept(c)
    <2>1. CleanerKept(c)
      BY <1>1, SamePass, Zenon
    <2>2. MoverKept(c) /\ FailoverKept(c) /\ PlansKept(c)
      BY <1>1, Zenon DEF MoverKept, FailoverKept, PlansKept
    <2>3. QED
      BY <2>1, <2>2, Zenon DEF LoopsKept
  <1>3. copier \in [Chunks -> CopierState]
    BY Zenon DEF TypeInv, TypeOK
  <1>4. CASE RepairScan(d)
    <2>1. UNCHANGED <<replicas, disk>>
      BY <1>4, Zenon DEF RepairScan, tables
    <2>2. RowsKept(c) /\ CopiesKept(c)
      BY <2>1, Zenon DEF RowsKept, CopiesKept, Copies
    <2>3. c # d => CopierKept(c)
      BY <1>3, <1>4, Zenon DEF RepairScan, CopierKept
    <2>4. c = d => /\ copier'[c].pc = "copying"
                   /\ copier'[c].source \in ReadyOn(replicas[c])
                   /\ copier'[c].targets \subseteq PendingOn(replicas[c])
      BY <1>3, <1>4 DEF RepairScan
    <2>5. QED
      BY <1>2, <2>2, <2>3, <2>4, Zenon DEF Still, Scans
  <1>5. CASE RepairCopy(d)
    <2> DEFINE selected == copier[d].targets \cap PlacementTargets({}, 0)
               reached == handleReplicate(d, copier[d].source, selected)
    <2>1. PICK written \in SUBSET reached :
             /\ disk' = [n \in Nodes |-> IF n \in written THEN disk[n] \cup {d} ELSE disk[n]]
             /\ \/ /\ reached # {}
                   /\ \E ok \in SUBSET written :
                         copier' = [copier EXCEPT ![d].pc = "copied", ![d].ok = ok]
                \/ copier' = [copier EXCEPT ![d] = IdleCopier]
      BY <1>5, Zenon DEF RepairCopy
    <2>2. /\ copier[d].pc = "copying" /\ replicas' = replicas
      BY <1>5, Zenon DEF RepairCopy
    <2>3. RowsKept(c)
      BY <2>2, Zenon DEF RowsKept
    <2>4. written \subseteq copier[d].targets
      BY Zenon DEF handleReplicate
    <2>5. reached # {} => d \in disk[copier[d].source]
      BY Zenon DEF handleReplicate
    <2>6. IdleCopier.pc = "idle"
      BY Zenon DEF IdleCopier
    <2>7. CASE c # d
      <3>1. CopiesKept(c)
        BY <2>1, <2>7, Zenon DEF CopiesKept, Copies
      <3>2. CopierKept(c)
        BY <1>3, <2>1, <2>7, Zenon DEF CopierKept
      <3>3. QED
        BY <1>2, <2>3, <3>1, <3>2, Zenon DEF Still
    <2>8. CASE c = d /\ written = {} /\ copier' = [copier EXCEPT ![d] = IdleCopier]
      <3>1. CopiesKept(c)
        BY <2>1, <2>8, Zenon DEF CopiesKept, Copies
      <3>2. CopierKept(c)
        BY <1>3, <2>6, <2>8, Zenon DEF CopierKept
      <3>3. QED
        BY <1>2, <2>3, <3>1, <3>2, Zenon DEF Still
    <2>9. CASE c = d /\ reached # {}
      <3>1. c \in disk[copier[c].source]
        BY <2>5, <2>9, Zenon
      <3>2. Copies(c) \subseteq Copies(c)' /\ Copies(c)' \subseteq Copies(c) \cup copier[c].targets
        BY <2>1, <2>4, <2>9, Zenon DEF Copies
      <3>3. \/ copier'[c].pc = "idle"
            \/ /\ copier'[c].pc = "copied" /\ copier'[c].targets = copier[c].targets
               /\ copier'[c].ok \subseteq written
        <4>1. CASE copier' = [copier EXCEPT ![d] = IdleCopier]
          BY <1>3, <2>6, <2>9, <4>1, Zenon
        <4>2. ASSUME NEW ok \in SUBSET written,
                     copier' = [copier EXCEPT ![d].pc = "copied", ![d].ok = ok]
              PROVE  /\ copier'[c].pc = "copied" /\ copier'[c].targets = copier[c].targets
                     /\ copier'[c].ok \subseteq written
          <5> DEFINE v == [copier[d] EXCEPT !.pc = "copied", !.ok = ok]
          <5>1. copier' = [copier EXCEPT ![d] = v]
            BY <4>2, Zenon
          <5>2. v.pc = "copied" /\ v.ok = ok /\ v.targets = copier[d].targets
            BY <1>3, Zenon DEF CopierState
          <5> HIDE DEF v
          <5>3. QED
            BY <1>3, <2>9, <4>2, <5>1, <5>2, Zenon
        <4>3. QED
          BY <2>1, <4>1, <4>2, Zenon
      <3>4. written \subseteq Copies(c)' \cap copier[c].targets
        <4>1. copier[c].targets \subseteq Nodes
          BY <1>3, Zenon DEF CopierState
        <4>2. QED
          BY <2>1, <2>4, <2>9, <4>1, Zenon DEF Copies
      <3>5. Sends(c)
        BY <1>2, <2>2, <2>3, <2>9, <3>1, <3>2, <3>3, <3>4, Zenon DEF Sends
      <3>6. QED
        BY <3>5, Zenon
    <2> HIDE DEF reached
    <2>10. QED
      BY <2>1, <2>7, <2>8, <2>9, Zenon
  <1>6. CASE RepairRecord(d)
    <2>1. disk' = disk /\ copier[d].pc = "copied" /\ copier' = [copier EXCEPT ![d] = IdleCopier]
      BY <1>6, Zenon DEF RepairRecord
    <2>2. CopiesKept(c)
      BY <2>1, Zenon DEF CopiesKept, Copies
    <2>3. IdleCopier.pc = "idle"
      BY Zenon DEF IdleCopier
    <2>4. CopierKept(c) /\ (c = d => copier'[c].pc = "idle")
      BY <1>3, <2>1, <2>3, Zenon DEF CopierKept
    <2>5. CASE replicas' = replicas
      BY <1>2, <2>2, <2>4, <2>5, ZenonT(60) DEF Still, RowsKept
    <2> DEFINE u == [n \in copier[d].targets |-> IF n \in copier[d].ok THEN "ready" ELSE "pending"]
               rs == [n \in Nodes |-> IF n \in DOMAIN u THEN u[n] ELSE replicas[d][n]]
    <2>6. CASE replicas' = [replicas EXCEPT ![d] = rs]
      <3>1. rs = [n \in Nodes |-> IF n \in copier[d].targets
                                  THEN IF n \in copier[d].ok THEN "ready" ELSE "pending"
                                  ELSE replicas[d][n]]
        BY Zenon
      <3> HIDE DEF rs
      <3>2. c # d => RowsKept(c)
        BY <2>6, Zenon DEF RowsKept, TypeInv, TypeOK
      <3>3. c = d => replicas'[c] = rs
        BY <2>6, Zenon DEF TypeInv, TypeOK
      <3>4. QED
        BY <1>2, <2>1, <2>2, <2>4, <3>1, <3>2, <3>3 DEF Still, Records
    <2>7. QED
      BY <1>6, <2>5, <2>6, Zenon DEF RepairRecord, UpdateChunkReplicas
  <1>7. QED
    BY <1>4, <1>5, <1>6, Zenon DEF RepairStep

\* The plan at hand, for a chunk and in its pass.
LEMMA CurrentIn ==
    ASSUME TypeInv, cleaner.pc # "idle", NEW c \in Chunks, plan[Current].chunk = c
    PROVE  /\ Current \in Todo(c)
           /\ cleaner.pc \in {"deleting", "removing"} => Current \in Cleaned(c)
           /\ cleaner.pc = "deleting" => Current \in Deleting(c)
  BY CurrentIsPlan, Zenon DEF Todo, Cleaned, Deleting

\* What the cleanup does to chunk c, whatever plan it is at.
LEMMA CleanupEffect ==
    ASSUME TypeInv, NEW c \in Chunks, present[c], CleanupStep
    PROVE  Still(c) \/ \E p \in PlanIDs : Takes(c, p) \/ Erases(c, p) \/ Purges(c, p)
  <1>1. UNCHANGED <<failover, rebalance, copier>>
    BY Zenon DEF CleanupStep, CleanupList, finalizeCompletedPlan, deleteSourceReplica,
           purgeLostReplicaMetadata, tables
  <1>2. CopierKept(c) /\ MoverKept(c) /\ FailoverKept(c)
    BY <1>1, Zenon DEF CopierKept, MoverKept, FailoverKept
  <1>3. ASSUME UNCHANGED <<replicas, plan, disk>> PROVE RowsKept(c) /\ CopiesKept(c) /\ PlansKept(c)
    BY <1>3, Zenon DEF RowsKept, CopiesKept, Copies, PlansKept
  <1>4. cleaner \in CleanerState
    BY Zenon DEF TypeInv, TypeOK
  <1>5. CASE CleanupList
    <2>1. UNCHANGED <<replicas, plan, disk>>
      BY <1>5, Zenon DEF CleanupList, tables
    <2>2. /\ cleaner' = [pc |-> "next", todo |-> {p \in PlanIDs : plan[p].state = "materialized"}]
      BY <1>5, Zenon DEF CleanupList
    <2>3. cleaner'.pc = "next" /\ cleaner'.todo = {p \in PlanIDs : plan[p].state = "materialized"}
      BY <2>2, Zenon
    <2>4. \A p \in Todo(c)' : p \in Active(c)
      <3>1. \A p \in PlanIDs : plan[p].state = "materialized" /\ plan[p].chunk = c
                               => plan[p].type \in PlanType
        <4>1. \A p \in PlanIDs : plan[p] \in ReplicaPlan \cup {NoPlan}
          BY Zenon DEF TypeInv, TypeOK
        <4>2. NoPlan.state = "none"
          BY Zenon DEF NoPlan
        <4>3. QED
          BY <4>1, <4>2, Zenon DEF ReplicaPlan
      <3>2. QED
        BY <2>1, <2>3, <3>1, Zenon DEF Todo, Active, ActivePlans
    <2>5. Cleaned(c)' = {} /\ Deleting(c)' = {}
      BY <2>3, Zenon DEF Cleaned, Deleting
    <2>6. CleanerKept(c)
      BY <2>4, <2>5, Zenon DEF CleanerKept
    <2>7. QED
      BY <1>2, <1>3, <2>1, <2>6, Zenon DEF Still, LoopsKept
  <1> DEFINE d == plan[Current].chunk
             v(pc) == [cleaner EXCEPT !.pc = pc]
  <1>6. ASSUME cleaner.pc # "idle" PROVE d \in Chunks /\ Current \in PlanIDs
    BY <1>6, CurrentIsPlan, Zenon DEF ReplicaPlan
  <1>7. ASSUME NEW pc, cleaner' = v(pc) PROVE cleaner'.pc = pc /\ cleaner'.todo = cleaner.todo
    BY <1>4, <1>7, Zenon DEF CleanerState
  <1>8. ASSUME NEW pc, cleaner' = v(pc), plan' = plan, cleaner.pc # "idle"
        PROVE  Todo(c)' \subseteq Todo(c) /\ Current' = Current
    BY <1>7, <1>8, Zenon DEF Todo, Current
  <1>9. CASE finalizeCompletedPlan
    <2>1. UNCHANGED <<replicas, plan, disk>> /\ cleaner.pc = "next"
      BY <1>9, Zenon DEF finalizeCompletedPlan, tables
    <2>2. CleanerKept(c) => Still(c)
      BY <1>2, <1>3, <2>1, Zenon DEF Still, LoopsKept
    <2>3. CASE cleaner' = IdleCleaner \/ Advance
      BY <2>1, <2>2, <2>3, PassEnds, PassAdvances, IdleTyped, Zenon
    <2>4. CASE /\ replicas[d][plan[Current].target] = "ready"
               /\ cleaner' = v(IF plan[Current].type = "rebalance" THEN "deleting" ELSE "removing")
      <3>1. Todo(c)' \subseteq Todo(c) /\ Current' = Current
        BY <1>8, <2>1, <2>4, Zenon
      <3>2. plan[Current].type # "rebalance" => cleaner'.pc = "removing"
        BY <1>7, <2>4, Zenon
      <3>3. CASE c = d
        <4>1. Cleaned(c)' \subseteq {Current}
          BY <3>1, Zenon DEF Cleaned
        <4>2. Deleting(c)' \subseteq {q \in {Current} : plan[q].type = "rebalance"}
          BY <3>1, <3>2, Zenon DEF Deleting
        <4>3. Current \in Todo(c)
          BY <2>1, <3>3, CurrentIn, Zenon
        <4>4. Takes(c, Current)
          BY <1>2, <1>3, <2>1, <2>4, <3>1, <3>3, <4>1, <4>2, <4>3, Zenon DEF Takes
        <4>5. QED
          BY <1>6, <2>1, <4>4, Zenon
      <3>4. CASE c # d
        <4>1. Cleaned(c)' = {} /\ Deleting(c)' = {}
          <5>1. Current \notin Todo(c)
            BY <3>4, Zenon DEF Todo
          <5>2. QED
            BY <3>1, <5>1, Zenon DEF Cleaned, Deleting
        <4>2. QED
          BY <2>2, <3>1, <4>1, Zenon DEF CleanerKept
      <3>5. QED
        BY <3>3, <3>4, Zenon
    <2>5. QED
      BY <1>6, <1>9, <2>3, <2>4, Zenon DEF finalizeCompletedPlan
  <1>10. CASE deleteSourceReplica
    <2>1. UNCHANGED <<replicas, plan>> /\ cleaner.pc = "deleting"
      BY <1>10, Zenon DEF deleteSourceReplica
    <2>2. RowsKept(c) /\ PlansKept(c)
      BY <2>1, Zenon DEF RowsKept, PlansKept
    <2>3. CleanerKept(c)
      <3>1. CASE Advance
        BY <2>1, <3>1, PassAdvances, Zenon
      <3>2. CASE cleaner' = v("removing")
        <4>1. Todo(c)' \subseteq Todo(c) /\ Current' = Current /\ cleaner'.pc = "removing"
          BY <1>7, <1>8, <2>1, <3>2, Zenon
        <4>2. Cleaned(c)' \subseteq Cleaned(c) /\ Deleting(c)' = {}
          BY <2>1, <4>1, Zenon DEF Cleaned, Deleting
        <4>3. QED
          BY <4>1, <4>2, Zenon DEF CleanerKept
      <3>3. QED
        BY <1>10, <3>1, <3>2, Zenon DEF deleteSourceReplica
    <2>4. CASE disk' = disk
      BY <1>2, <2>2, <2>3, <2>4, Zenon DEF Still, LoopsKept, CopiesKept, Copies
    <2>5. CASE DeleteChunk(plan[Current].source, d)
      <3>1. plan[Current].source \in Nodes
        BY <2>1, CurrentIsPlan, Zenon DEF ReplicaPlan
      <3>2. /\ d \in disk[plan[Current].source]
            /\ disk' = [disk EXCEPT ![plan[Current].source] =
                           disk[plan[Current].source] \ {d}]
        BY <2>5, Zenon DEF DeleteChunk
      <3>3. disk \in [Nodes -> SUBSET Chunks]
        BY Zenon DEF TypeInv, TypeOK
      <3>4. CASE c # d
        <4>1. CopiesKept(c)
          BY <3>1, <3>2, <3>3, <3>4, Zenon DEF CopiesKept, Copies
        <4>2. QED
          BY <1>2, <2>2, <2>3, <4>1, Zenon DEF Still, LoopsKept
      <3>5. CASE c = d
        <4>1. Copies(c)' = Copies(c) \ {plan[Current].source}
          BY <3>1, <3>2, <3>3, <3>5, Zenon DEF Copies
        <4>2. plan[Current].source \in Copies(c)
          BY <3>1, <3>2, <3>5, Zenon DEF Copies
        <4>3. Current \in Deleting(c)
          BY <2>1, <3>5, CurrentIn, Zenon
        <4>4. Erases(c, Current)
          BY <1>2, <2>2, <2>3, <4>1, <4>2, <4>3, Zenon DEF Erases, LoopsKept
        <4>5. QED
          BY <1>6, <2>1, <4>4, Zenon
      <3>6. QED
        BY <3>4, <3>5, Zenon
    <2>6. QED
      BY <1>10, <2>4, <2>5, Zenon DEF deleteSourceReplica
  <1>11. CASE purgeLostReplicaMetadata
    <2>1. disk' = disk /\ cleaner.pc = "removing"
      BY <1>11, Zenon DEF purgeLostReplicaMetadata
    <2>2. CopiesKept(c)
      BY <2>1, Zenon DEF CopiesKept, Copies
    <2>3. CASE UNCHANGED <<replicas, count, plan>> /\ (cleaner' = IdleCleaner \/ Advance)
      <3>1. CleanerKept(c)
        BY <2>1, <2>3, PassEnds, PassAdvances, IdleTyped, Zenon
      <3>2. QED
        BY <1>2, <1>3, <2>1, <2>3, <3>1, Zenon DEF Still, LoopsKept
    <2>4. CASE removeChunkReplica(d, plan[Current].source) /\ updateReplicaPlan(Current, "done")
               /\ Advance
      <3> DEFINE w == [plan[Current] EXCEPT !.state = "done"]
                 rs == [replicas[d] EXCEPT ![plan[Current].source] = "none"]
      <3>1. Current \in PlanIDs /\ plan[Current] \in ReplicaPlan /\ d \in Chunks
        BY <1>6, <2>1, CurrentIsPlan, Zenon
      <3>2. plan' = [plan EXCEPT ![Current] = w]
        BY <2>4, Zenon DEF updateReplicaPlan
      <3>3. w.state = "done" /\ w.type = plan[Current].type /\ w.chunk = d
        BY <3>1, Zenon DEF ReplicaPlan
      <3>4. replicas' = [replicas EXCEPT ![d] = rs]
        BY <2>4, Zenon DEF removeChunkReplica
      <3> HIDE DEF w, rs, d
      <3>5. plan'[Current] = w /\ \A q \in PlanIDs \ {Current} : plan'[q] = plan[q]
        BY <3>1, <3>2, Zenon DEF TypeInv, TypeOK
      <3>6. replicas'[d] = rs /\ (c # d => replicas'[c] = replicas[c])
        BY <3>1, <3>4, Zenon DEF TypeInv, TypeOK
      <3>7. CleanerKept(c) /\ Todo(c)' \subseteq Todo(c) \ {Current}
        <4>1. \A q \in PlanIDs : plan'[q].chunk = plan[q].chunk
          BY <3>3, <3>5, Zenon DEF d
        <4>2. QED
          BY <2>1, <2>4, <4>1, PassAdvances, Zenon
      <3>8. CASE c # d
        <4>1. RowsKept(c) /\ PlansKept(c)
          BY <3>3, <3>5, <3>6, <3>8, Zenon DEF RowsKept, PlansKept, d
        <4>2. QED
          BY <1>2, <2>2, <3>7, <4>1, Zenon DEF Still, LoopsKept
      <3>9. CASE c = d
        <4>1. Current \in Cleaned(c)
          BY <2>1, <3>9, CurrentIn, Zenon DEF d
        <4>2. Purges(c, Current)
          BY <1>2, <2>2, <3>3, <3>5, <3>6, <3>7, <3>9, <4>1, Zenon DEF Purges, LoopsKept, rs
        <4>3. QED
          BY <3>1, <4>2, Zenon
      <3>10. QED
        BY <3>8, <3>9, Zenon
    <2>5. QED
      BY <1>11, <2>3, <2>4, Zenon DEF purgeLostReplicaMetadata
  <1>12. QED
    BY <1>5, <1>9, <1>10, <1>11, Zenon DEF CleanupStep

\* What any step does to a chunk that is there after it.
LEMMA StepEffect ==
    ASSUME TypeInv, [Next]_vars, NEW c \in Chunks, present'[c]
    PROVE  present[c] /\ Effect(c)
  <1>1. CASE UNCHANGED <<present, replicas, plan, disk, failover, rebalance, copier, cleaner>>
    <2>1. RowsKept(c) /\ CopierKept(c) /\ MoverKept(c) /\ FailoverKept(c)
      BY <1>1, Zenon DEF RowsKept, CopierKept, MoverKept, FailoverKept
    <2>2. Still(c)
      BY <1>1, <2>1, NothingHappens, Zenon
    <2>3. QED
      BY <1>1, <2>2, Zenon DEF Effect
  <1>2. ASSUME NEW n \in Nodes, HeartbeatNode(n) \/ NodeTimesOut(n)
        PROVE  present[c] /\ Effect(c)
    BY <1>1, <1>2, Zenon DEF HeartbeatNode, updateNodeHeartbeat, NodeTimesOut, loops
  <1>3. ASSUME NEW d \in Chunks, PlannerStep(d) PROVE present[c] /\ Effect(c)
    <2>1. present' = present
      BY <1>3, Zenon DEF PlannerStep, FailoverScan, RebalanceScan, FailoverSelect, RebalanceSelect,
                  materializePendingReplica, planReplicaMove, tables
    <2>2. ASSUME NEW n \in Nodes, FailoverScan(d, n) \/ RebalanceScan(d, n) PROVE Effect(c)
      BY <2>2, PlannerEffect, Zenon DEF Effect
    <2>3. CASE FailoverSelect(d) \/ RebalanceSelect(d)
      <3>1. Still(c) \/ Selects(c)
        BY <2>3, PlannerEffect, Zenon
      <3>2. QED
        BY <2>1, <3>1, Zenon DEF Effect
    <2>4. CASE materializePendingReplica(d) \/ planReplicaMove(d)
      <3>1. Still(c) \/ \E p \in PlanIDs : Creates(c, p)
        BY <2>4, PlanEffect, Zenon
      <3>2. QED
        BY <2>1, <3>1, Zenon DEF Effect
    <2>5. Effect(c)
      BY <1>3, <2>2, <2>3, <2>4, Zenon DEF PlannerStep
    <2>6. QED
      BY <2>1, <2>5, Zenon
  <1>4. ASSUME NEW d \in Chunks, RepairStep(d) PROVE present[c] /\ Effect(c)
    <2>1. present' = present
      BY <1>4, Zenon DEF RepairStep, RepairScan, RepairCopy, RepairRecord, tables
    <2>2. QED
      BY <1>4, <2>1, RepairEffect, Zenon DEF Effect
  <1>5. ASSUME NEW d \in Chunks, DeleteFile(d) PROVE present[c] /\ Effect(c)
    <2>1. c # d /\ present[c]
      BY <1>5, Zenon DEF DeleteFile, TypeInv, TypeOK
    <2>2. RowsKept(c)
      BY <1>5, <2>1, Zenon DEF DeleteFile, RowsKept, TypeInv, TypeOK
    <2>3. UNCHANGED <<disk, failover, rebalance, copier, cleaner>>
      BY <1>5, Zenon DEF DeleteFile, loops
    <2>4. \A p \in PlanIDs : plan'[p].chunk = plan[p].chunk
                             /\ (plan'[p] = plan[p] \/ plan[p].chunk = d)
      <3> SUFFICES ASSUME NEW p \in PlanIDs
                   PROVE  plan'[p].chunk = plan[p].chunk
                          /\ (plan'[p] = plan[p] \/ plan[p].chunk = d)
        BY Zenon
      <3>1. \/ plan'[p] = plan[p]
            \/ plan'[p] = [plan[p] EXCEPT !.state = "deleted"] /\ plan[p].chunk = d
        BY <1>5, Zenon DEF DeleteFile
      <3>2. plan[p] \in ReplicaPlan \cup {NoPlan}
        BY Zenon DEF TypeInv, TypeOK
      <3>3. [plan[p] EXCEPT !.state = "deleted"].chunk = plan[p].chunk
        BY <3>2, Zenon DEF ReplicaPlan, NoPlan
      <3>4. QED
        BY <3>1, <3>3, Zenon
    <2>5. PlansKept(c)
      BY <2>1, <2>4, Zenon DEF PlansKept
    <2>6. CleanerKept(c)
      BY <2>3, <2>4, SamePass, Zenon
    <2>7. CopiesKept(c) /\ CopierKept(c) /\ MoverKept(c) /\ FailoverKept(c)
      BY <2>3, Zenon DEF CopiesKept, Copies, CopierKept, MoverKept, FailoverKept
    <2>8. QED
      BY <2>1, <2>2, <2>5, <2>6, <2>7, Zenon DEF Effect, Still, LoopsKept
  <1>6. CASE CleanupStep
    <2>1. present' = present
      BY <1>6, Zenon DEF CleanupStep, CleanupList, finalizeCompletedPlan, deleteSourceReplica,
                  purgeLostReplicaMetadata, tables
    <2>2. QED
      BY <1>6, <2>1, CleanupEffect, Zenon DEF Effect
  <1>7. CASE Restart
    <2>1. UNCHANGED <<present, replicas, plan, disk>>
      BY <1>7, Zenon DEF Restart, tables
    <2>2. IdleCopier.pc = "idle"
      BY Zenon DEF IdleCopier
    <2>3. failover'[c].pc = "idle" /\ rebalance'[c].pc = "idle" /\ copier'[c].pc = "idle"
          /\ cleaner'.pc = "idle"
      BY <1>7, <2>2, IdleTyped, Zenon DEF Restart
    <2>4. CleanerKept(c)
      BY <2>3, PassEnds, Zenon
    <2>5. QED
      BY <2>1, <2>3, <2>4, Zenon DEF Effect, Still, LoopsKept, RowsKept, CopiesKept, Copies, PlansKept,
                              CopierKept, MoverKept, FailoverKept
  <1>8. QED
    BY <1>1, <1>2, <1>3, <1>4, <1>5, <1>6, <1>7, Zenon DEF Next, vars

=============================================================================
