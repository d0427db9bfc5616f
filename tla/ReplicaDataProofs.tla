------------------------- MODULE ReplicaDataProofs -------------------------
(***************************************************************************)
(* Proofs that the replica loops keep the data of a chunk, for every value *)
(* of the constants of Replication: from what each step does to the rows,  *)
(* the copies and the plans of one chunk, the invariants it preserves.     *)
(***************************************************************************)
EXTENDS ReplicationProofs

-----------------------------------------------------------------------------
(* The invariant behind DataKept. *)

\* The nodes that the unfinished plans of a chunk aim at.
Aimed(c) == {plan[p].target : p \in Active(c)}

\* The nodes that are to get the data although no plan asks for it any more.
Orphans(c) == (PendingOn(replicas[c]) \cup Targets(c)) \ Aimed(c)

\* The copies that are not about to be made: those that count.
Settled(c) == Copies(c) \ Orphans(c)

Two(S) == \E m, n \in S : m # n

\* Of the copies S, node x can be spared, and even its copy to come if it waits
\* for one.
Spare(O, S, x) == S \ {x} # {} /\ (x \in O => Two(S))

\* A plan is due when the cleanup finishes it, or would.
Due(c, p) == plan[p].target \in ReadyOn(replicas[c]) \cup Answered(c) \/ p \in Cleaned(c)

\* How the loops and the plans of a chunk fit together.
Base(c) ==
    /\ Todo(c) \subseteq Active(c) /\ Deleting(c) \subseteq Moves(c)
    /\ \A p \in Moves(c) : plan[p].source # plan[p].target
    /\ rebalance[c].pc = "scanned" => rebalance[c].source \in Rows(rebalance[c].snap)
    /\ rebalance[c].pc = "selected" => rebalance[c].source # rebalance[c].target
    /\ Targets(c) \cap ReadyOn(replicas[c]) = {}
    /\ Answered(c) \subseteq Targets(c)
    /\ copier[c].pc = "copying" => copier[c].source \in Nodes \ (Targets(c) \cup Orphans(c))
    \* A plan that is being finished while its target has to be copied to again
    \* is not the only one that aims at it.
    /\ \A p \in Cleaned(c) :
          plan[p].target \in PendingOn(replicas[c]) \cup Targets(c) =>
              \E q \in Active(c) \ {p} : plan[q].target = plan[p].target

\* A copy that has been deleted since it was made is the source of a move; or the
\* move is over, no other one can delete, and there are copies left.
Lost(c) ==
    \A t \in Answered(c) \ Copies(c) :
        \/ \E p \in Moves(c) : plan[p].source = t
        \/ /\ Deleting(c) = {}
           /\ \A p \in Moves(c) : replicas[c][plan[p].target] # "ready"
           /\ t \in Aimed(c) \/ Two(Settled(c))

\* The copies that count once the rebalance planner has made its plan.
Choice(c) == Settled(c) \cup (Copies(c) \cap {rebalance[c].target})

\* A copy is settled, and the source of a move that is due can be spared.
Safe(c) ==
    /\ Settled(c) # {}
    /\ \A p \in Moves(c) : Due(c, p) => Spare(Orphans(c), Settled(c), plan[p].source)
    /\ rebalance[c].pc = "selected" /\ rebalance[c].target \in Answered(c)
       => Spare(Orphans(c), Choice(c), rebalance[c].source)

DataInv ==
    PlanInv /\ \A c \in Chunks : present[c] => Base(c) /\ Lost(c) /\ Safe(c)

-----------------------------------------------------------------------------
\* The unfinished plans of a chunk, when its plans are left alone.
LEMMA SamePlans ==
    ASSUME NEW c \in Chunks, PlansKept(c)
    PROVE  /\ Active(c)' = Active(c) /\ Moves(c)' = Moves(c) /\ Aimed(c)' = Aimed(c)
           /\ \A p \in Active(c) : plan'[p] = plan[p]
  <1>1. Active(c)' = Active(c) /\ Moves(c)' = Moves(c) /\ \A p \in Active(c) : plan'[p] = plan[p]
    BY Zenon DEF PlansKept, Active, Moves, ActivePlans
  <1>2. QED
    BY <1>1, Zenon DEF Aimed

\* The unfinished plans of a chunk, when one is created.
LEMMA OneMorePlan ==
    ASSUME TypeInv, TypeInv', NEW c \in Chunks, NEW p \in PlanIDs, Creates(c, p)
    PROVE  /\ p \notin Active(c) /\ p \notin Todo(c)
           /\ Active(c)' = Active(c) \cup {p}
           /\ Moves(c)' = Moves(c) \cup {q \in {p} : plan'[p].type = "rebalance"}
           /\ Aimed(c)' = Aimed(c) \cup {plan'[p].target}
           /\ \A q \in Active(c) : plan'[q] = plan[q]
           /\ plan'[p].target \in Nodes
  <1>1. p \notin Active(c) /\ \A q \in Active(c) : plan'[q] = plan[q]
    BY Zenon DEF Creates, Active, ActivePlans
  <1>2. plan'[p] \in ReplicaPlan
    <2>1. plan'[p] \in ReplicaPlan \cup {NoPlan} /\ plan'[p].state = "materialized"
      BY Zenon DEF TypeInv, TypeOK, Creates
    <2>2. NoPlan.state = "none"
      BY Zenon DEF NoPlan
    <2>3. QED
      BY <2>1, <2>2, Zenon
  <1>3. plan'[p].type \in PlanType /\ plan'[p].target \in Nodes
    BY <1>2, Zenon DEF ReplicaPlan
  <1>4. Active(c)' = Active(c) \cup {p}
    BY <1>3, ZenonT(60) DEF Creates, Active, ActivePlans
  <1>5. Moves(c)' = Moves(c) \cup {q \in {p} : plan'[p].type = "rebalance"}
    BY DEF Creates, Moves, ActivePlans
  <1>6. Aimed(c)' = Aimed(c) \cup {plan'[p].target}
    BY <1>1, <1>4, Zenon DEF Aimed
  <1>7. p \notin Todo(c)
    BY Zenon DEF Creates, Todo, TypeInv, LoopsOK, CleanerOK
  <1>8. QED
    BY <1>1, <1>3, <1>4, <1>5, <1>6, <1>7, Zenon

\* The rows of a chunk, when a plan is created.
LEMMA CreatedRows ==
    ASSUME TypeInv, TypeInv', NEW c \in Chunks, NEW p \in PlanIDs, Creates(c, p)
    PROVE  /\ ReadyOn(replicas'[c]) = ReadyOn(replicas[c]) \ {plan'[p].target}
           /\ PendingOn(replicas'[c]) = PendingOn(replicas[c]) \cup {plan'[p].target}
           /\ Rows(replicas'[c]) = Rows(replicas[c]) \cup {plan'[p].target}
           /\ replicas'[c][plan'[p].target] = "pending"
           /\ \A n \in Nodes : n # plan'[p].target => replicas'[c][n] = replicas[c][n]
  <1>1. plan'[p].target \in Nodes
    BY OneMorePlan, Zenon
  <1>2. /\ replicas'[c][plan'[p].target] = "pending"
        /\ \A n \in Nodes : n # plan'[p].target => replicas'[c][n] = replicas[c][n]
    BY <1>1 DEF Creates, TypeInv, TypeOK, ReplicaSet
  <1>3. QED
    BY <1>1, <1>2 DEF ReadyOn, PendingOn, Rows

\* The rows of a chunk, when a plan is done.
LEMMA PurgedRows ==
    ASSUME TypeInv, NEW c \in Chunks, NEW p \in PlanIDs, Purges(c, p)
    PROVE  /\ ReadyOn(replicas'[c]) = ReadyOn(replicas[c]) \ {plan[p].source}
           /\ PendingOn(replicas'[c]) \subseteq PendingOn(replicas[c])
           /\ Rows(replicas'[c]) \subseteq Rows(replicas[c])
           /\ \A n \in Nodes : replicas'[c][n] = "ready" => replicas[c][n] = "ready"
  BY DEF Purges, ReadyOn, PendingOn, Rows, TypeInv, TypeOK, ReplicaSet

\* The unfinished plans of a chunk, when one is done.
LEMMA OnePlanLess ==
    ASSUME NEW c \in Chunks, NEW p \in PlanIDs, Purges(c, p)
    PROVE  /\ Active(c)' = Active(c) \ {p} /\ Moves(c)' = Moves(c) \ {p}
           /\ \A q \in Active(c) \ {p} : plan'[q] = plan[q]
           /\ Cleaned(c)' = {} /\ Deleting(c)' = {}
  <1>1. Active(c)' = Active(c) \ {p} /\ Moves(c)' = Moves(c) \ {p}
        /\ \A q \in Active(c) \ {p} : plan'[q] = plan[q]
    BY Zenon DEF Purges, Active, Moves, ActivePlans
  <1>2. \A q \in Cleaned(c) : q = p
    BY Zenon DEF Purges, Cleaned
  <1>3. Cleaned(c)' \subseteq Cleaned(c) /\ Cleaned(c)' \subseteq Todo(c)' /\ p \notin Todo(c)'
    BY Zenon DEF Purges, LoopsKept, CleanerKept, Cleaned
  <1>4. Cleaned(c)' = {}
    BY <1>2, <1>3, Zenon
  <1>5. Deleting(c)' \subseteq Cleaned(c)'
    BY Zenon DEF Deleting, Cleaned
  <1>6. QED
    BY <1>1, <1>4, <1>5, Zenon

\* Two unfinished moves of a chunk are the same.
LEMMA OneMove ==
    ASSUME PlanInv, NEW c \in Chunks, NEW p \in Moves(c), NEW q \in Moves(c)
    PROVE  p = q
  BY Zenon DEF PlanInv, OnePlanPerType, Moves, ActivePlans

\* An unfinished plan has its nodes.
LEMMA ActiveIsPlan ==
    ASSUME TypeInv, NEW c \in Chunks, NEW p \in Active(c)
    PROVE  plan[p] \in ReplicaPlan
  <1>1. plan[p] \in ReplicaPlan \cup {NoPlan} /\ plan[p].state = "materialized"
    BY Zenon DEF TypeInv, TypeOK, Active, ActivePlans
  <1>2. NoPlan.state = "none"
    BY Zenon DEF NoPlan
  <1>3. QED
    BY <1>1, <1>2, Zenon

\* Moves are plans of the chunk, and the plan being deleted for is being finished.
LEMMA MovesAreActive ==
    ASSUME NEW c \in Chunks
    PROVE  /\ Moves(c) \subseteq Active(c)
           /\ Active(c) \subseteq PlanIDs
           /\ Deleting(c) \subseteq Cleaned(c) /\ Cleaned(c) \subseteq Todo(c)
           /\ \A p, q \in Cleaned(c) : p = q
  BY Zenon DEF Moves, Active, ActivePlans, PlanType, Deleting, Cleaned

\* What the repairer is left with by a step that does not let it go on.
LEMMA CopierLeft ==
    ASSUME NEW c \in Chunks, CopierKept(c)
    PROVE  /\ Targets(c)' \subseteq Targets(c) /\ Answered(c)' \subseteq Answered(c)
           /\ copier'[c].pc = "copying" => copier'[c] = copier[c]
  BY Zenon DEF CopierKept, Targets, Answered

\* The nodes that wait for a copy without a plan never become more.
LEMMA OrphansShrink ==
    ASSUME TypeInv, TypeInv', NEW c \in Chunks, Effect(c), Base(c)
    PROVE  Orphans(c)' \subseteq Orphans(c)
  <1>1. CASE RowsKept(c) /\ PlansKept(c) /\ CopierKept(c)
    BY <1>1, SamePlans, CopierLeft, Zenon DEF Orphans, RowsKept
  <1>2. CASE Scans(c)
    <2>1. Aimed(c)' = Aimed(c) /\ replicas'[c] = replicas[c]
      BY <1>2, SamePlans, Zenon DEF Scans, RowsKept
    <2>2. Targets(c)' \subseteq PendingOn(replicas[c])
      BY <1>2, Zenon DEF Scans, Targets
    <2>3. QED
      BY <2>1, <2>2, Zenon DEF Orphans
  <1>3. CASE Sends(c)
    <2>1. Aimed(c)' = Aimed(c) /\ replicas'[c] = replicas[c]
      BY <1>3, SamePlans, Zenon DEF Sends, RowsKept
    <2>2. Targets(c)' \subseteq Targets(c)
      BY <1>3, Zenon DEF Sends, Targets
    <2>3. QED
      BY <2>1, <2>2, Zenon DEF Orphans
  <1>4. CASE Records(c)
    <2>1. Aimed(c)' = Aimed(c)
      BY <1>4, SamePlans, Zenon DEF Records
    <2>2. Targets(c)' = {} /\ Targets(c) = copier[c].targets
      BY <1>4, Zenon DEF Records, Targets
    <2>3. PendingOn(replicas'[c]) \subseteq PendingOn(replicas[c]) \cup Targets(c)
      BY <1>4, <2>2, Zenon DEF Records, PendingOn
    <2>4. QED
      BY <2>1, <2>2, <2>3, Zenon DEF Orphans
  <1>5. ASSUME NEW p \in PlanIDs, Creates(c, p) PROVE Orphans(c)' \subseteq Orphans(c)
    <2>1. Aimed(c)' = Aimed(c) \cup {plan'[p].target} /\ plan'[p].target \in Nodes
      BY <1>5, OneMorePlan, Zenon
    <2>2. Targets(c)' = Targets(c)
      BY <1>5, ZenonT(60) DEF Creates, Targets
    <2>3. PendingOn(replicas'[c]) \subseteq PendingOn(replicas[c]) \cup {plan'[p].target}
      BY <1>5, CreatedRows, Zenon
    <2>4. QED
      BY <2>1, <2>2, <2>3, Zenon DEF Orphans
  <1>6. ASSUME NEW p \in PlanIDs, Purges(c, p) PROVE Orphans(c)' \subseteq Orphans(c)
    <2>1. Active(c)' = Active(c) \ {p} /\ \A q \in Active(c) \ {p} : plan'[q] = plan[q]
      BY <1>6, OnePlanLess, Zenon
    <2>2. PendingOn(replicas'[c]) \subseteq PendingOn(replicas[c])
      BY <1>6, PurgedRows, Zenon
    <2>3. Targets(c)' \subseteq Targets(c)
      BY <1>6, CopierLeft, Zenon DEF Purges
    <2>4. \A t \in PendingOn(replicas[c]) \cup Targets(c) : t \in Aimed(c) => t \in Aimed(c)'
      <3> SUFFICES ASSUME NEW t \in PendingOn(replicas[c]) \cup Targets(c), t \in Aimed(c)
                   PROVE  t \in Aimed(c)'
        BY Zenon
      <3>1. PICK r \in Active(c) : plan[r].target = t
        BY Zenon DEF Aimed
      <3>2. PICK q \in Active(c) \ {p} : plan[q].target = t
        BY <1>6, <3>1 DEF Base, Purges
      <3>3. q \in Active(c)' /\ plan'[q].target = t
        BY <2>1, <3>2, Zenon
      <3>4. QED
        BY <3>3, Zenon DEF Aimed
    <2>5. QED
      BY <2>2, <2>3, <2>4, Zenon DEF Orphans
  <1>7. ASSUME NEW p \in PlanIDs, Takes(c, p) \/ Erases(c, p) PROVE Orphans(c)' \subseteq Orphans(c)
    BY <1>1, <1>7, Zenon DEF Takes, Erases
  <1>8. QED
    BY <1>1, <1>2, <1>3, <1>4, <1>5, <1>6, <1>7, Zenon DEF Effect, Still, Selects

-----------------------------------------------------------------------------
(* Base. *)

\* The part of Base that is about the planner.
LEMMA MoverFits ==
    ASSUME NEW c \in Chunks, Base(c), MoverKept(c) \/ Selects(c)
    PROVE  /\ rebalance'[c].pc = "scanned" => rebalance'[c].source \in Rows(rebalance'[c].snap)
           /\ rebalance'[c].pc = "selected" => rebalance'[c].source # rebalance'[c].target
  BY Zenon DEF Base, MoverKept, Selects, Reads, Chooses

\* The part about the repairer, when it does nothing.
LEMMA CopierFits ==
    ASSUME NEW c \in Chunks, Base(c), CopierKept(c), Orphans(c)' \subseteq Orphans(c)
    PROVE  /\ Targets(c)' \subseteq Targets(c) /\ Answered(c)' \subseteq Targets(c)'
           /\ copier'[c].pc = "copying" =>
                 copier'[c].source \in Nodes \ (Targets(c)' \cup Orphans(c)')
  <1>1. Targets(c)' \subseteq Targets(c) /\ Answered(c)' \subseteq Targets(c)'
    BY Zenon DEF CopierKept, Targets, Answered, Base
  <1>2. copier'[c].pc = "copying" => copier'[c].source = copier[c].source
                                     /\ copier[c].pc = "copying"
    BY Zenon DEF CopierKept
  <1>3. QED
    BY <1>1, <1>2, Zenon DEF Base

\* The part about the plans and the cleanup, when they are left alone.
LEMMA PlansFit ==
    ASSUME NEW c \in Chunks, Base(c), PlansKept(c), CleanerKept(c)
    PROVE  /\ Todo(c)' \subseteq Active(c)' /\ Deleting(c)' \subseteq Moves(c)'
           /\ \A p \in Moves(c)' : plan'[p].source # plan'[p].target
  <1>1. /\ Active(c)' = Active(c) /\ Moves(c)' = Moves(c)
        /\ \A p \in Active(c) : plan'[p] = plan[p]
    BY SamePlans, Zenon
  <1>2. Todo(c)' \subseteq Todo(c) \cup Active(c) /\ Deleting(c)' \subseteq Deleting(c)
    BY Zenon DEF CleanerKept
  <1>3. QED
    BY <1>1, <1>2, MovesAreActive DEF Base

\* Every plan that is finished too early has another one for its target.
Backed(c) ==
    \A p \in Cleaned(c) :
        plan[p].target \in PendingOn(replicas[c]) \cup Targets(c) =>
            \E q \in Active(c) \ {p} : plan[q].target = plan[p].target

\* A step that changes no row, copier or plan of a chunk, and lets the cleanup go
\* on to no other of its plans, leaves the finished plans backed.
LEMMA BackedKept ==
    ASSUME NEW c \in Chunks, Base(c), PlansKept(c), CleanerKept(c),
           PendingOn(replicas'[c]) \cup Targets(c)' \subseteq PendingOn(replicas[c]) \cup Targets(c)
    PROVE  Backed(c)'
  <1>1. Active(c)' = Active(c) /\ \A p \in Active(c) : plan'[p] = plan[p]
    BY SamePlans, Zenon
  <1>2. Cleaned(c)' \subseteq Cleaned(c) /\ Cleaned(c) \subseteq Active(c)
    BY MovesAreActive, Zenon DEF CleanerKept, Base
  <1>3. QED
    BY <1>1, <1>2, Zenon DEF Base, Backed

\* Base after a step that leaves the rows, the plans and the repairer alone.
LEMMA StillBase ==
    ASSUME NEW c \in Chunks, Base(c), Orphans(c)' \subseteq Orphans(c),
           RowsKept(c), PlansKept(c), CopierKept(c), CleanerKept(c), MoverKept(c) \/ Selects(c)
    PROVE  Base(c)'
  <1>1. replicas'[c] = replicas[c]
    BY Zenon DEF RowsKept
  <1>2. Targets(c)' \subseteq Targets(c)
    BY CopierFits, Zenon
  <1>3. Targets(c)' \cap ReadyOn(replicas'[c]) = {}
    BY <1>1, <1>2, Zenon DEF Base
  <1>4. PendingOn(replicas'[c]) \cup Targets(c)' \subseteq PendingOn(replicas[c]) \cup Targets(c)
    BY <1>1, <1>2, Zenon
  <1>5. Backed(c)'
    BY <1>4, BackedKept, Zenon
  <1>6. QED
    BY <1>3, <1>5, MoverFits, CopierFits, PlansFit, Zenon DEF Base, Backed

\* Base after a step of the repairer.
LEMMA RepairBase ==
    ASSUME TypeInv, NEW c \in Chunks, Base(c), Orphans(c)' \subseteq Orphans(c),
           Scans(c) \/ Sends(c) \/ Records(c)
    PROVE  Base(c)'
  <1>1. PlansKept(c) /\ CleanerKept(c) /\ MoverKept(c)
    BY Zenon DEF Scans, Sends, Records, LoopsKept
  <1>2. /\ PendingOn(replicas'[c]) \cup Targets(c)' \subseteq PendingOn(replicas[c]) \cup Targets(c)
        /\ Targets(c)' \cap ReadyOn(replicas'[c]) = {}
        /\ Answered(c)' \subseteq Targets(c)'
        /\ copier'[c].pc = "copying" =>
              copier'[c].source \in Nodes \ (Targets(c)' \cup Orphans(c)')
    <2>1. CASE Scans(c)
      <3>1. /\ replicas'[c] = replicas[c]
            /\ Targets(c)' \subseteq PendingOn(replicas[c]) /\ Answered(c)' = {}
            /\ copier'[c].source \in ReadyOn(replicas[c])
        BY <2>1, Zenon DEF Scans, Targets, Answered, RowsKept
      <3>2. PendingOn(replicas[c]) \cap ReadyOn(replicas[c]) = {}
            /\ ReadyOn(replicas[c]) \subseteq Nodes
        BY Zenon DEF PendingOn, ReadyOn
      <3>3. Orphans(c)' \subseteq PendingOn(replicas[c])
        BY <3>1, Zenon DEF Orphans
      <3>4. QED
        BY <3>1, <3>2, <3>3, Zenon
    <2>2. CASE Sends(c)
      <3>1. /\ replicas'[c] = replicas[c]
            /\ Targets(c)' \subseteq Targets(c) /\ Answered(c)' \subseteq Targets(c)'
            /\ copier'[c].pc # "copying"
        BY <2>2, Zenon DEF Sends, Targets, Answered, RowsKept
      <3>2. QED
        BY <3>1, Zenon DEF Base
    <2>3. CASE Records(c)
      <3>1. /\ Targets(c)' = {} /\ Answered(c)' = {} /\ copier'[c].pc = "idle"
            /\ Targets(c) = copier[c].targets
        BY <2>3, Zenon DEF Records, Targets, Answered
      <3>2. PendingOn(replicas'[c]) \subseteq PendingOn(replicas[c]) \cup Targets(c)
        BY <2>3, <3>1, Zenon DEF Records, PendingOn
      <3>3. QED
        BY <3>1, <3>2, Zenon
    <2>4. QED
      BY <2>1, <2>2, <2>3, Zenon
  <1>3. Backed(c)'
    BY <1>1, <1>2, BackedKept, Zenon
  <1>4. QED
    BY <1>1, <1>2, <1>3, MoverFits, PlansFit, Zenon DEF Base, Backed

\* Base after the cleanup has found the target of a plan ready.
LEMMA TakesBase ==
    ASSUME TypeInv, NEW c \in Chunks, Base(c), Orphans(c)' \subseteq Orphans(c),
           NEW p \in PlanIDs, Takes(c, p)
    PROVE  Base(c)'
  <1>1. /\ replicas'[c] = replicas[c] /\ PlansKept(c) /\ CopierKept(c) /\ MoverKept(c)
    BY Zenon DEF Takes, RowsKept
  <1>2. /\ Active(c)' = Active(c) /\ Moves(c)' = Moves(c)
        /\ \A q \in Active(c) : plan'[q] = plan[q]
    BY <1>1, SamePlans, Zenon
  <1>3. /\ p \in Active(c) /\ Todo(c)' \subseteq Active(c) /\ Cleaned(c)' \subseteq {p}
        /\ replicas[c][plan[p].target] = "ready"
        /\ Deleting(c)' \subseteq {q \in {p} : plan[q].type = "rebalance"}
    BY Zenon DEF Takes, Base
  <1>4. Deleting(c)' \subseteq Moves(c)
    BY <1>3, Zenon DEF Moves, Active, ActivePlans
  <1>5. plan[p].target \in ReadyOn(replicas[c]) /\ plan[p].target \notin PendingOn(replicas[c])
    <2>1. plan[p] \in ReplicaPlan
      BY <1>3, ActiveIsPlan, Zenon
    <2>2. QED
      BY <1>3, <2>1, Zenon DEF ReplicaPlan, ReadyOn, PendingOn
  <1>6. Targets(c)' \subseteq Targets(c)
    BY <1>1, CopierFits, Zenon
  <1>7. Backed(c)'
    <2>1. plan[p].target \notin PendingOn(replicas'[c]) \cup Targets(c)'
      BY <1>1, <1>5, <1>6, Zenon DEF Base
    <2>2. QED
      BY <1>2, <1>3, <2>1, Zenon DEF Backed
  <1>8. Targets(c)' \cap ReadyOn(replicas'[c]) = {}
    BY <1>1, <1>6, Zenon DEF Base
  <1>9. \A q \in Moves(c)' : plan'[q].source # plan'[q].target
    BY <1>2, MovesAreActive, ZenonT(60) DEF Base
  <1>10. QED
    BY <1>1, <1>2, <1>3, <1>4, <1>7, <1>8, <1>9, MoverFits, CopierFits DEF Base, Backed

\* Base after a plan has been created.
LEMMA CreatesBase ==
    ASSUME TypeInv, TypeInv', NEW c \in Chunks, Base(c), Orphans(c)' \subseteq Orphans(c),
           NEW p \in PlanIDs, Creates(c, p)
    PROVE  Base(c)'
  <1>1. CopierKept(c) /\ CleanerKept(c) /\ MoverKept(c)
    BY Zenon DEF Creates, LoopsKept, CopierKept
  <1>2. /\ p \notin Active(c) /\ p \notin Todo(c)
        /\ Active(c)' = Active(c) \cup {p}
        /\ Moves(c)' = Moves(c) \cup {q \in {p} : plan'[p].type = "rebalance"}
        /\ \A q \in Active(c) : plan'[q] = plan[q]
        /\ plan'[p].target \in Nodes
    BY OneMorePlan, Zenon
  <1>3. /\ PendingOn(replicas'[c]) = PendingOn(replicas[c]) \cup {plan'[p].target}
        /\ ReadyOn(replicas'[c]) \subseteq ReadyOn(replicas[c])
    BY CreatedRows, Zenon
  <1>4. Todo(c)' \subseteq Active(c)' /\ Deleting(c)' \subseteq Moves(c)'
    BY <1>1, <1>2, Zenon DEF CleanerKept, Base
  <1>5. \A q \in Moves(c)' : plan'[q].source # plan'[q].target
    <2>1. plan'[p].type = "rebalance" => plan'[p].source # plan'[p].target
      BY Zenon DEF Creates, CreatedBy, Base
    <2>2. QED
      BY <1>2, <2>1, MovesAreActive, Zenon DEF Base
  <1>6. Targets(c)' \subseteq Targets(c)
    BY <1>1, CopierFits, Zenon
  <1>7. Targets(c)' \cap ReadyOn(replicas'[c]) = {}
    BY <1>3, <1>6, Zenon DEF Base
  <1>8. Backed(c)'
    <2> SUFFICES ASSUME NEW q \in Cleaned(c)',
                        plan'[q].target \in PendingOn(replicas'[c]) \cup Targets(c)'
                 PROVE  \E r \in Active(c)' \ {q} : plan'[r].target = plan'[q].target
      BY Zenon DEF Backed
    <2>1. q \in Cleaned(c) /\ q \in Active(c) /\ q # p /\ plan'[q] = plan[q]
      BY <1>1, <1>2, MovesAreActive, ZenonT(60) DEF CleanerKept, Base
    <2>2. CASE plan'[q].target = plan'[p].target
      BY <1>2, <2>1, <2>2, Zenon
    <2>3. CASE plan'[q].target \in PendingOn(replicas[c]) \cup Targets(c)
      <3>1. PICK r \in Active(c) \ {q} : plan[r].target = plan[q].target
        BY <2>1, <2>3, Zenon DEF Base
      <3>2. QED
        BY <1>2, <2>1, <3>1, Zenon
    <2>4. QED
      BY <1>3, <1>6, <2>2, <2>3, Zenon
  <1>9. QED
    BY <1>1, <1>4, <1>5, <1>7, <1>8, MoverFits, CopierFits, Zenon DEF Base, Backed

\* Base after a plan is done.
LEMMA PurgesBase ==
    ASSUME TypeInv, NEW c \in Chunks, Base(c), Orphans(c)' \subseteq Orphans(c),
           NEW p \in PlanIDs, Purges(c, p)
    PROVE  Base(c)'
  <1>1. CopierKept(c) /\ MoverKept(c) /\ Todo(c)' \subseteq Todo(c) \ {p}
    BY Zenon DEF Purges, LoopsKept
  <1>2. /\ Active(c)' = Active(c) \ {p} /\ Moves(c)' = Moves(c) \ {p}
        /\ \A q \in Active(c) \ {p} : plan'[q] = plan[q]
        /\ Cleaned(c)' = {} /\ Deleting(c)' = {}
    BY OnePlanLess, Zenon
  <1>3. ReadyOn(replicas'[c]) \subseteq ReadyOn(replicas[c])
    BY PurgedRows, Zenon
  <1>4. Targets(c)' \subseteq Targets(c)
    BY <1>1, CopierFits, Zenon
  <1>5. Targets(c)' \cap ReadyOn(replicas'[c]) = {}
    BY <1>3, <1>4, Zenon DEF Base
  <1>6. \A q \in Moves(c)' : plan'[q].source # plan'[q].target
    BY <1>2, MovesAreActive, Zenon DEF Base
  <1>7. QED
    BY <1>1, <1>2, <1>5, <1>6, MoverFits, CopierFits, Zenon DEF Base

\* Every step keeps the loops and the plans of a chunk fitting together.
LEMMA StepBase ==
    ASSUME TypeInv, TypeInv', NEW c \in Chunks, Effect(c), Base(c)
    PROVE  Base(c)'
  <1>1. Orphans(c)' \subseteq Orphans(c)
    BY OrphansShrink, Zenon
  <1>2. CASE Still(c) \/ Selects(c) \/ \E p \in PlanIDs : Erases(c, p)
    <2>1. /\ RowsKept(c) /\ PlansKept(c) /\ CopierKept(c) /\ CleanerKept(c)
          /\ MoverKept(c) \/ Selects(c)
      BY <1>2, Zenon DEF Still, Selects, Erases, LoopsKept
    <2>2. QED
      BY <1>1, <2>1, StillBase, Zenon
  <1>3. CASE Scans(c) \/ Sends(c) \/ Records(c)
    BY <1>1, <1>3, RepairBase, Zenon
  <1>4. ASSUME NEW p \in PlanIDs, Takes(c, p) \/ Creates(c, p) \/ Purges(c, p) PROVE Base(c)'
    BY <1>1, <1>4, TakesBase, CreatesBase, PurgesBase, Zenon
  <1>5. QED
    BY <1>2, <1>3, <1>4, Zenon DEF Effect

-----------------------------------------------------------------------------
(* Lost. *)

\* What Lost says of one copy.
Accounted(c, t) ==
    \/ \E p \in Moves(c) : plan[p].source = t
    \/ /\ Deleting(c) = {}
       /\ \A p \in Moves(c) : replicas[c][plan[p].target] # "ready"
       /\ t \in Aimed(c) \/ Two(Settled(c))

\* A copy whose plans, rows and cleanup are left alone stays accounted for.
LEMMA StillAccounted ==
    ASSUME NEW c \in Chunks, NEW t, Accounted(c, t), RowsKept(c), PlansKept(c),
           Settled(c) \subseteq Settled(c)', Deleting(c) = {} => Deleting(c)' = {}
    PROVE  Accounted(c, t)'
  <1>1. /\ Moves(c)' = Moves(c) /\ Aimed(c)' = Aimed(c) /\ replicas'[c] = replicas[c]
        /\ \A p \in Moves(c) : plan'[p] = plan[p]
    BY SamePlans, MovesAreActive, Zenon DEF RowsKept
  <1>2. CASE \E p \in Moves(c) : plan[p].source = t
    BY <1>1, <1>2, Zenon DEF Accounted
  <1>3. CASE ~ \E p \in Moves(c) : plan[p].source = t
    BY <1>1, <1>3, Zenon DEF Accounted, Two
  <1>4. QED
    BY <1>2, <1>3, Zenon

\* So does one when a plan is created,
LEMMA CreatesAccounted ==
    ASSUME TypeInv, TypeInv', NEW c \in Chunks, NEW t, Accounted(c, t), NEW p \in PlanIDs,
           Creates(c, p), Settled(c) \subseteq Settled(c)'
    PROVE  Accounted(c, t)'
  <1>1. /\ Moves(c)' = Moves(c) \cup {q \in {p} : plan'[p].type = "rebalance"}
        /\ Aimed(c)' = Aimed(c) \cup {plan'[p].target}
        /\ \A q \in Active(c) : plan'[q] = plan[q]
        /\ plan'[p].target \in Nodes
    BY OneMorePlan, Zenon
  <1>2. CASE \E q \in Moves(c) : plan[q].source = t
    BY <1>1, <1>2, MovesAreActive, Zenon DEF Accounted
  <1>3. CASE /\ Deleting(c) = {}
             /\ \A q \in Moves(c) : replicas[c][plan[q].target] # "ready"
             /\ t \in Aimed(c) \/ Two(Settled(c))
    <2>1. Deleting(c)' = {}
      BY <1>3, Zenon DEF Creates, LoopsKept, CleanerKept
    <2>2. /\ replicas'[c][plan'[p].target] = "pending"
          /\ \A n \in Nodes : n # plan'[p].target => replicas'[c][n] = replicas[c][n]
      BY CreatedRows, Zenon
    <2>3. ASSUME NEW q \in Moves(c)' PROVE replicas'[c][plan'[q].target] # "ready"
      <3>1. CASE q = p
        BY <2>2, <3>1, Zenon
      <3>2. CASE q \in Moves(c)
        <4>1. plan'[q] = plan[q] /\ plan[q] \in ReplicaPlan /\ replicas[c][plan[q].target] # "ready"
          BY <1>1, <1>3, <3>2, MovesAreActive, ActiveIsPlan, Zenon
        <4>2. plan[q].target \in Nodes
          BY <4>1, Zenon DEF ReplicaPlan
        <4>3. QED
          BY <2>2, <4>1, <4>2, Zenon
      <3>3. QED
        BY <1>1, <3>1, <3>2, Zenon
    <2>4. t \in Aimed(c)' \/ Two(Settled(c)')
      BY <1>1, <1>3, Zenon DEF Two
    <2>5. QED
      BY <2>1, <2>3, <2>4, Zenon DEF Accounted, Two
  <1>4. QED
    BY <1>2, <1>3, Zenon DEF Accounted

\* and when a plan is done: were it its move, the copy is aimed at by another
\* plan, or its node waits for a copy without a plan and two others are settled.
LEMMA PurgesAccounted ==
    ASSUME PlanInv, NEW c \in Chunks, NEW t \in Targets(c), Accounted(c, t), NEW p \in PlanIDs,
           Purges(c, p), Settled(c) \subseteq Settled(c)', Base(c), Safe(c)
    PROVE  Accounted(c, t)'
  <1>1. /\ Active(c)' = Active(c) \ {p} /\ Moves(c)' = Moves(c) \ {p}
        /\ \A q \in Active(c) \ {p} : plan'[q] = plan[q]
        /\ Deleting(c)' = {}
    BY OnePlanLess, Zenon
  <1>2. p \in Cleaned(c)
    BY Zenon DEF Purges
  <1>3. \A n \in Nodes : replicas'[c][n] = "ready" => replicas[c][n] = "ready"
    BY PurgedRows, Zenon DEF PlanInv
  <1>4. ASSUME NEW q \in Active(c) \ {p}, plan[q].target = t PROVE t \in Aimed(c)'
    BY <1>1, <1>4, Zenon DEF Aimed
  <1>5. CASE \E q \in Moves(c) \ {p} : plan[q].source = t
    BY <1>1, <1>5, MovesAreActive, Zenon DEF Accounted
  <1>6. CASE p \in Moves(c) /\ plan[p].source = t
    <2>1. Moves(c)' = {}
      BY <1>1, <1>6, OneMove, Zenon
    <2>2. CASE t \in Aimed(c)
      <3>1. PICK q \in Active(c) : plan[q].target = t
        BY <2>2, Zenon DEF Aimed
      <3>2. q # p
        BY <1>6, <3>1, Zenon DEF Base
      <3>3. t \in Aimed(c)'
        BY <1>4, <3>1, <3>2, Zenon
      <3>4. QED
        BY <1>1, <2>1, <3>3, Zenon DEF Accounted
    <2>3. CASE t \notin Aimed(c)
      <3>1. t \in Orphans(c)
        BY <2>3, Zenon DEF Orphans
      <3>2. Two(Settled(c))
        BY <1>2, <1>6, <3>1, Zenon DEF Safe, Due, Spare
      <3>3. QED
        BY <1>1, <2>1, <3>2, Zenon DEF Accounted, Two
    <2>4. QED
      BY <2>2, <2>3, Zenon
  <1>7. CASE /\ \A q \in Moves(c) : replicas[c][plan[q].target] # "ready"
             /\ t \in Aimed(c) \/ Two(Settled(c))
    <2>1. t \in Aimed(c)' \/ Two(Settled(c)')
      <3>1. CASE t \in Aimed(c)
        <4>1. PICK q \in Active(c) : plan[q].target = t
          BY <3>1, Zenon DEF Aimed
        <4>2. PICK r \in Active(c) \ {p} : plan[r].target = t
          BY <1>2, <4>1, Zenon DEF Base
        <4>3. QED
          BY <1>4, <4>2, Zenon
      <3>2. QED
        BY <1>7, <3>1, Zenon DEF Two
    <2>2. ASSUME NEW q \in Moves(c)' PROVE replicas'[c][plan'[q].target] # "ready"
      <3>1. /\ plan'[q] = plan[q] /\ plan[q] \in ReplicaPlan
            /\ replicas[c][plan[q].target] # "ready"
        BY <1>1, <1>7, MovesAreActive, ActiveIsPlan, Zenon DEF PlanInv
      <3>2. plan[q].target \in Nodes
        BY <3>1, Zenon DEF ReplicaPlan
      <3>3. QED
        BY <1>3, <3>1, <3>2, Zenon
    <2>3. QED
      BY <1>1, <2>1, <2>2, Zenon DEF Accounted, Two
  <1>8. QED
    BY <1>5, <1>6, <1>7, Zenon DEF Accounted

\* Every step accounts for the copies that were deleted after they were made.
LEMMA StepLost ==
    ASSUME PlanInv, TypeInv', NEW c \in Chunks, Effect(c), Base(c), Lost(c), Safe(c)
    PROVE  Lost(c)'
  <1>1. TypeInv /\ Orphans(c)' \subseteq Orphans(c)
    BY OrphansShrink, Zenon DEF PlanInv
  <1> SUFFICES ASSUME NEW t \in Answered(c)' \ Copies(c)'
               PROVE  Accounted(c, t)'
    BY Zenon DEF Lost, Accounted
  <1>2. ~ (Scans(c) \/ Sends(c) \/ Records(c))
    BY Zenon DEF Scans, Sends, Records, Answered
  <1>3. CopierKept(c)
    BY <1>2, Zenon DEF Effect, Still, Selects, Takes, Erases, Creates, Purges, CopierKept
  <1>4. t \in Answered(c) /\ t \in Targets(c) /\ (t \notin Copies(c) => Accounted(c, t))
    BY <1>3, CopierLeft, Zenon DEF Base, Lost, Accounted
  <1>5. Copies(c)' = Copies(c) => Settled(c) \subseteq Settled(c)'
    BY <1>1, Zenon DEF Settled
  <1>6. CASE Still(c) \/ Selects(c)
    <2>1. RowsKept(c) /\ Copies(c)' = Copies(c) /\ PlansKept(c) /\ CleanerKept(c)
      BY <1>6, Zenon DEF Still, Selects, LoopsKept, CopiesKept
    <2>2. Deleting(c) = {} => Deleting(c)' = {}
      BY <2>1, Zenon DEF CleanerKept
    <2>3. QED
      BY <1>4, <1>5, <2>1, <2>2, StillAccounted, Zenon
  <1>7. ASSUME NEW p \in PlanIDs, Takes(c, p) PROVE Accounted(c, t)'
    <2>1. RowsKept(c) /\ Copies(c)' = Copies(c) /\ PlansKept(c)
      BY <1>7, Zenon DEF Takes, CopiesKept
    <2>2. p \in Active(c) /\ replicas[c][plan[p].target] = "ready"
          /\ Deleting(c)' \subseteq {q \in {p} : plan[q].type = "rebalance"}
      BY <1>7, Zenon DEF Takes, Base
    <2>3. plan[p].type = "rebalance" => p \in Moves(c)
      BY <2>2, Zenon DEF Active, Moves, ActivePlans
    <2>4. CASE \E q \in Moves(c) : plan[q].source = t
      BY <2>1, <2>4, SamePlans, MovesAreActive, Zenon DEF Accounted
    <2>5. CASE \A q \in Moves(c) : replicas[c][plan[q].target] # "ready"
      <3>1. Deleting(c)' = {}
        BY <2>2, <2>3, <2>5, Zenon
      <3>2. QED
        BY <1>4, <1>5, <2>1, <3>1, StillAccounted, Zenon
    <2>6. QED
      BY <1>4, <2>1, <2>4, <2>5, Zenon DEF Accounted
  <1>8. ASSUME NEW p \in PlanIDs, Erases(c, p) PROVE Accounted(c, t)'
    <2>1. PlansKept(c) /\ p \in Deleting(c) /\ Copies(c)' = Copies(c) \ {plan[p].source}
      BY <1>8, Zenon DEF Erases
    <2>2. p \in Moves(c)
      BY <2>1, Zenon DEF Base
    <2>3. \E q \in Moves(c) : plan[q].source = t
      BY <1>4, <2>1, <2>2, Zenon DEF Accounted
    <2>4. QED
      BY <2>1, <2>3, SamePlans, MovesAreActive, Zenon DEF Accounted
  <1>9. ASSUME NEW p \in PlanIDs, Creates(c, p) PROVE Accounted(c, t)'
    <2>1. Copies(c)' = Copies(c)
      BY <1>9, Zenon DEF Creates, CopiesKept
    <2>2. QED
      BY <1>1, <1>4, <1>5, <1>9, <2>1, CreatesAccounted, Zenon
  <1>10. ASSUME NEW p \in PlanIDs, Purges(c, p) PROVE Accounted(c, t)'
    <2>1. Copies(c)' = Copies(c)
      BY <1>10, Zenon DEF Purges, CopiesKept
    <2>2. QED
      BY <1>4, <1>5, <1>10, <2>1, PurgesAccounted, Zenon
  <1>11. QED
    BY <1>2, <1>6, <1>7, <1>8, <1>9, <1>10, Zenon DEF Effect

-----------------------------------------------------------------------------
(* Safe. *)

\* What can be spared can be spared of more, and two copies are enough.
LEMMA SpareGrows ==
    /\ \A O, P, S, T, x : P \subseteq O /\ S \subseteq T /\ Spare(O, S, x) => Spare(P, T, x)
    /\ \A O, S, x : Two(S) => Spare(O, S, x)
  BY DEF Spare, Two

\* What Safe says of a move and of the planner.
SafeMove(c, p) == Due(c, p) => Spare(Orphans(c), Settled(c), plan[p].source)
SafeChoice(c) ==
    rebalance[c].pc = "selected" /\ rebalance[c].target \in Answered(c)
    => Spare(Orphans(c), Choice(c), rebalance[c].source)

\* A move that is not due because of the step is as safe as before,
LEMMA SameMove ==
    ASSUME NEW c \in Chunks, Safe(c), Orphans(c)' \subseteq Orphans(c),
           Settled(c) \subseteq Settled(c)', NEW p \in Moves(c), plan'[p] = plan[p],
           Due(c, p)' => Due(c, p)
    PROVE  SafeMove(c, p)'
  BY SpareGrows, Zenon DEF Safe, SafeMove

\* and so is a choice that the planner has not just made.
LEMMA SameChoice ==
    ASSUME NEW c \in Chunks, Safe(c), Orphans(c)' \subseteq Orphans(c),
           Settled(c) \subseteq Settled(c)', Copies(c) \subseteq Copies(c)', MoverKept(c),
           Answered(c)' \subseteq Answered(c)
    PROVE  SafeChoice(c)'
  <1> SUFFICES ASSUME rebalance'[c].pc = "selected", rebalance'[c].target \in Answered(c)'
               PROVE  Spare(Orphans(c)', Choice(c)', rebalance'[c].source)
    BY Zenon DEF SafeChoice
  <1>1. rebalance'[c] = rebalance[c]
    BY Zenon DEF MoverKept, Reads
  <1>2. Choice(c) \subseteq Choice(c)'
    BY <1>1, Zenon DEF Choice
  <1>3. Spare(Orphans(c), Choice(c), rebalance[c].source)
    BY <1>1, Zenon DEF Safe
  <1>4. QED
    BY <1>1, <1>2, <1>3, SpareGrows, Zenon

\* Safe after a step that makes no move due and no copy known.
LEMMA StillSafe ==
    ASSUME NEW c \in Chunks, Safe(c), Orphans(c)' \subseteq Orphans(c), PlansKept(c),
           CopiesKept(c), MoverKept(c), Answered(c)' \subseteq Answered(c),
           ReadyOn(replicas'[c]) \subseteq ReadyOn(replicas[c]) \cup Answered(c),
           \A p \in Cleaned(c)' : p \in Cleaned(c) \/ plan[p].target \in ReadyOn(replicas[c])
    PROVE  Safe(c)'
  <1>1. Copies(c)' = Copies(c) /\ Settled(c) \subseteq Settled(c)'
    BY Zenon DEF CopiesKept, Settled
  <1>2. Moves(c)' = Moves(c) /\ \A p \in Moves(c) : plan'[p] = plan[p]
    BY SamePlans, MovesAreActive, Zenon
  <1>3. \A p \in Moves(c) : Due(c, p)' => Due(c, p)
    BY <1>2, Zenon DEF Due
  <1>4. \A p \in Moves(c)' : SafeMove(c, p)'
    BY <1>1, <1>2, <1>3, SameMove, Zenon
  <1>5. SafeChoice(c)'
    BY <1>1, SameChoice, Zenon
  <1>6. QED
    BY <1>1, <1>4, <1>5, Zenon DEF Safe, SafeMove, SafeChoice

\* Safe after the rebalance planner has chosen a target that the repairer has
\* copied to: the target is a copy that does not count yet, or it was deleted.
LEMMA SelectsSafe ==
    ASSUME NEW c \in Chunks, Base(c), Lost(c), Safe(c), Orphans(c)' \subseteq Orphans(c), Selects(c)
    PROVE  Safe(c)'
  <1>1. PlansKept(c) /\ CopiesKept(c) /\ CopierKept(c)
    BY Zenon DEF Selects
  <1>2. Copies(c)' = Copies(c) /\ Settled(c) \subseteq Settled(c)'
    BY <1>1, Zenon DEF CopiesKept, Settled
  <1>3. Moves(c) = {} /\ Moves(c)' = {} /\ Aimed(c) = {}
    <2>1. Active(c) = {}
      BY Zenon DEF Selects
    <2>2. Aimed(c) = {}
      BY <2>1, Zenon DEF Aimed
    <2>3. QED
      BY <1>1, <2>1, <2>2, SamePlans, MovesAreActive
  <1>4. SafeChoice(c)'
    <2> SUFFICES ASSUME rebalance'[c].target \in Answered(c)'
                 PROVE  Two(Choice(c)')
      BY SpareGrows, Zenon DEF SafeChoice
    <2> DEFINE t == rebalance'[c].target
    <2>1. t \in Answered(c) /\ t \notin Settled(c)
      BY <1>1, <1>3, CopierLeft, Zenon DEF Base, Orphans, Settled
    <2>2. CASE t \in Copies(c)
      <3>1. t \in Choice(c)' /\ Settled(c) \subseteq Choice(c)'
        BY <1>2, <2>2, Zenon DEF Choice
      <3>2. PICK m \in Settled(c) : TRUE
        BY Zenon DEF Safe
      <3>3. m # t /\ m \in Choice(c)'
        BY <2>1, <3>1, <3>2, Zenon
      <3>4. QED
        BY <3>1, <3>3, Zenon DEF Two
    <2>3. CASE t \notin Copies(c)
      <3>1. Two(Settled(c))
        BY <1>3, <2>1, <2>3, Zenon DEF Lost
      <3>2. Settled(c) \subseteq Choice(c)'
        BY <1>2, Zenon DEF Choice
      <3>3. QED
        BY <3>1, <3>2, Zenon DEF Two
    <2>4. QED
      BY <2>2, <2>3, Zenon
  <1>5. QED
    BY <1>2, <1>3, <1>4, Zenon DEF Safe, SafeChoice

\* Safe after a copy: the source and the target are two copies that count.
LEMMA SendsSafe ==
    ASSUME NEW c \in Chunks, Base(c), Safe(c), Orphans(c)' \subseteq Orphans(c), Sends(c)
    PROVE  Safe(c)'
  <1> DEFINE s == copier[c].source
  <1>1. /\ RowsKept(c) /\ PlansKept(c) /\ LoopsKept(c) /\ Copies(c) \subseteq Copies(c)'
        /\ c \in disk[s] /\ copier[c].pc = "copying"
    BY Zenon DEF Sends
  <1>2. Settled(c) \subseteq Settled(c)'
    BY <1>1, Zenon DEF Settled
  <1>3. Answered(c)' \subseteq Copies(c)' \cap Targets(c)
    BY Zenon DEF Sends, Answered, Targets
  <1>4. s \in Settled(c)' /\ s \notin Targets(c)
    <2>1. s \in Nodes \ (Targets(c) \cup Orphans(c))
      BY <1>1, Zenon DEF Base
    <2>2. s \in Copies(c)
      BY <1>1, <2>1, Zenon DEF Copies
    <2>3. QED
      BY <1>2, <2>1, <2>2, Zenon DEF Settled
  <1> HIDE DEF s
  <1>5. Moves(c)' = Moves(c) /\ Aimed(c)' = Aimed(c) /\ \A p \in Moves(c) : plan'[p] = plan[p]
    BY <1>1, SamePlans, MovesAreActive, Zenon
  <1>6. ASSUME NEW p \in Moves(c) PROVE SafeMove(c, p)'
    <2>1. CASE plan[p].target \in Answered(c)'
      <3>1. plan[p].target \in Aimed(c)'
        BY <1>5, MovesAreActive, Zenon DEF Aimed
      <3>2. plan[p].target \in Settled(c)' /\ plan[p].target # s
        BY <1>3, <1>4, <2>1, <3>1, Zenon DEF Settled, Orphans
      <3>3. Two(Settled(c)')
        BY <1>4, <3>2, Zenon DEF Two
      <3>4. QED
        BY <3>3, SpareGrows, Zenon DEF SafeMove
    <2>2. CASE plan[p].target \notin Answered(c)'
      <3>1. Due(c, p)' => Due(c, p)
        BY <1>1, <1>5, <2>2, Zenon DEF Due, RowsKept, LoopsKept, CleanerKept
      <3>2. QED
        BY <1>2, <1>5, <3>1, SameMove, Zenon
    <2>3. QED
      BY <2>1, <2>2, Zenon
  <1>7. SafeChoice(c)'
    <2> SUFFICES ASSUME rebalance'[c].target \in Answered(c)'
                 PROVE  Two(Choice(c)')
      BY SpareGrows, Zenon DEF SafeChoice
    <2>1. rebalance'[c].target \in Choice(c)' /\ s \in Choice(c)' /\ s # rebalance'[c].target
      BY <1>3, <1>4, Zenon DEF Choice
    <2>2. QED
      BY <2>1, Zenon DEF Two
  <1>8. QED
    BY <1>2, <1>5, <1>6, <1>7, Zenon DEF Safe, SafeMove, SafeChoice

\* Safe after the source of a move has deleted its copy.
LEMMA ErasesSafe ==
    ASSUME PlanInv, NEW c \in Chunks, Base(c), Safe(c), Orphans(c)' \subseteq Orphans(c),
           NEW p \in PlanIDs, Erases(c, p)
    PROVE  Safe(c)'
  <1>1. /\ PlansKept(c) /\ MoverKept(c) /\ p \in Deleting(c)
        /\ Copies(c)' = Copies(c) \ {plan[p].source}
    BY Zenon DEF Erases, LoopsKept
  <1>2. p \in Moves(c) /\ p \in Cleaned(c)
    BY <1>1, MovesAreActive, Zenon DEF Base
  <1>3. Moves(c)' = {p} /\ plan'[p] = plan[p]
    <2>1. \A q \in Moves(c) : q = p
      BY <1>2, OneMove, Zenon
    <2>2. /\ Moves(c)' = Moves(c) /\ Moves(c) \subseteq Active(c)
          /\ \A q \in Active(c) : plan'[q] = plan[q]
      BY <1>1, SamePlans, MovesAreActive, Zenon
    <2>3. QED
      BY <1>2, <2>1, <2>2, Zenon
  <1>4. Settled(c) \ {plan[p].source} \subseteq Settled(c)'
    BY <1>1, Zenon DEF Settled
  <1>5. Spare(Orphans(c), Settled(c), plan[p].source)
    BY <1>2, Zenon DEF Safe, Due
  <1>6. plan[p].source \in Orphans(c)' => Settled(c) \subseteq Settled(c)'
    BY <1>4, Zenon DEF Settled
  <1>7. Settled(c)' # {} /\ Spare(Orphans(c)', Settled(c)', plan[p].source)
    BY <1>4, <1>5, <1>6, Zenon DEF Spare, Two
  <1>8. rebalance[c].pc # "selected"
    BY <1>2, Zenon DEF PlanInv, Checked, Moves
  <1>9. rebalance'[c].pc # "selected"
    BY <1>1, <1>8, Zenon DEF MoverKept, Reads
  <1>10. QED
    BY <1>3, <1>7, <1>9, Zenon DEF Safe

\* Safe after a plan has been created.
LEMMA CreatesSafe ==
    ASSUME TypeInv, TypeInv', NEW c \in Chunks, Base(c), Safe(c), Orphans(c)' \subseteq Orphans(c),
           NEW p \in PlanIDs, Creates(c, p)
    PROVE  Safe(c)'
  <1>1. CopiesKept(c) /\ MoverKept(c) /\ CleanerKept(c) /\ Answered(c)' = Answered(c)
    BY Zenon DEF Creates, LoopsKept, Answered
  <1>2. Copies(c)' = Copies(c) /\ Settled(c) \subseteq Settled(c)'
    BY <1>1, Zenon DEF CopiesKept, Settled
  <1>3. /\ p \notin Todo(c)
        /\ Moves(c)' = Moves(c) \cup {q \in {p} : plan'[p].type = "rebalance"}
        /\ Aimed(c)' = Aimed(c) \cup {plan'[p].target}
        /\ \A q \in Active(c) : plan'[q] = plan[q]
        /\ plan'[p].target \in Nodes
    BY OneMorePlan, Zenon
  <1>4. SafeChoice(c)'
    BY <1>1, <1>2, SameChoice, Zenon
  <1>5. /\ ReadyOn(replicas'[c]) \subseteq ReadyOn(replicas[c])
        /\ plan'[p].target \notin ReadyOn(replicas'[c])
    BY CreatedRows, ZenonT(60)
  <1>6. ASSUME NEW q \in Moves(c) PROVE SafeMove(c, q)'
    <2>1. plan'[q] = plan[q]
      BY <1>3, MovesAreActive, Zenon
    <2>2. Due(c, q)' => Due(c, q)
      BY <1>1, <1>5, <2>1, Zenon DEF Due, CleanerKept
    <2>3. QED
      BY <1>2, <2>1, <2>2, SameMove, Zenon
  <1>7. ASSUME plan'[p].type = "rebalance" PROVE SafeMove(c, p)'
    <2> SUFFICES ASSUME Due(c, p)'
                 PROVE  Spare(Orphans(c)', Settled(c)', plan'[p].source)
      BY Zenon DEF SafeMove
    <2>1. /\ rebalance[c].pc = "selected"
          /\ plan'[p].source = rebalance[c].source /\ plan'[p].target = rebalance[c].target
      BY <1>7, Zenon DEF Creates, CreatedBy
    <2>2. p \notin Cleaned(c)'
      BY <1>1, <1>3, MovesAreActive, Zenon DEF CleanerKept
    <2>3. rebalance[c].target \in Answered(c)
      BY <1>1, <1>5, <2>1, <2>2, Zenon DEF Due
    <2>4. Spare(Orphans(c), Choice(c), rebalance[c].source)
      BY <2>1, <2>3, Zenon DEF Safe
    <2>5. Choice(c) \subseteq Settled(c)'
      <3>1. rebalance[c].target \notin Orphans(c)'
        BY <1>3, <2>1, Zenon DEF Orphans
      <3>2. QED
        BY <1>2, <3>1, Zenon DEF Choice, Settled
    <2>6. QED
      BY <2>1, <2>4, <2>5, SpareGrows, Zenon
  <1>8. QED
    BY <1>2, <1>3, <1>4, <1>6, <1>7, Zenon DEF Safe, SafeMove, SafeChoice

\* Safe after a plan is done.
LEMMA PurgesSafe ==
    ASSUME TypeInv, NEW c \in Chunks, Safe(c), Orphans(c)' \subseteq Orphans(c),
           NEW p \in PlanIDs, Purges(c, p)
    PROVE  Safe(c)'
  <1>1. CopierKept(c) /\ CopiesKept(c) /\ MoverKept(c)
    BY Zenon DEF Purges, LoopsKept
  <1>2. Copies(c)' = Copies(c) /\ Settled(c) \subseteq Settled(c)'
    BY <1>1, Zenon DEF CopiesKept, Settled
  <1>3. /\ Moves(c)' = Moves(c) \ {p} /\ Cleaned(c)' = {}
        /\ \A q \in Active(c) \ {p} : plan'[q] = plan[q]
    BY OnePlanLess, Zenon
  <1>4. Answered(c)' \subseteq Answered(c)
    BY <1>1, CopierLeft, Zenon
  <1>5. SafeChoice(c)'
    BY <1>1, <1>2, <1>4, SameChoice, Zenon
  <1>6. ReadyOn(replicas'[c]) \subseteq ReadyOn(replicas[c])
    BY PurgedRows, Zenon
  <1>7. \A q \in Moves(c)' : q \in Moves(c) /\ plan'[q] = plan[q] /\ (Due(c, q)' => Due(c, q))
    BY <1>3, <1>4, <1>6, MovesAreActive, Zenon DEF Due
  <1>8. \A q \in Moves(c)' : SafeMove(c, q)'
    BY <1>2, <1>7, SameMove, Zenon
  <1>9. QED
    BY <1>2, <1>5, <1>8, Zenon DEF Safe, SafeMove, SafeChoice

\* Every step leaves a settled copy, and one more for every move that is due.
LEMMA StepSafe ==
    ASSUME PlanInv, TypeInv', NEW c \in Chunks, Effect(c), Base(c), Lost(c), Safe(c)
    PROVE  Safe(c)'
  <1>1. TypeInv /\ Orphans(c)' \subseteq Orphans(c)
    BY OrphansShrink, Zenon DEF PlanInv
  <1>2. CASE Still(c) \/ Scans(c) \/ Records(c)
    <2>1. PlansKept(c) /\ CopiesKept(c) /\ MoverKept(c) /\ CleanerKept(c)
      BY <1>2, Zenon DEF Still, Scans, Records, LoopsKept
    <2>2. /\ Answered(c)' \subseteq Answered(c)
          /\ ReadyOn(replicas'[c]) \subseteq ReadyOn(replicas[c]) \cup Answered(c)
      <3>1. CASE Still(c)
        BY <3>1, CopierLeft, Zenon DEF Still, RowsKept
      <3>2. CASE Scans(c)
        BY <3>2, Zenon DEF Scans, Answered, RowsKept
      <3>3. CASE Records(c)
        BY <3>3, Zenon DEF Records, Answered, ReadyOn
      <3>4. QED
        BY <1>2, <3>1, <3>2, <3>3, Zenon
    <2>3. QED
      BY <1>1, <2>1, <2>2, StillSafe, Zenon DEF CleanerKept
  <1>3. ASSUME NEW p \in PlanIDs, Takes(c, p) PROVE Safe(c)'
    <2>1. /\ RowsKept(c) /\ PlansKept(c) /\ CopiesKept(c) /\ CopierKept(c) /\ MoverKept(c)
          /\ Cleaned(c)' \subseteq {p} /\ p \in Active(c) /\ replicas[c][plan[p].target] = "ready"
      BY <1>3, Zenon DEF Takes, Base
    <2>2. plan[p].target \in ReadyOn(replicas[c])
      <3>1. plan[p] \in ReplicaPlan
        BY <1>1, <2>1, ActiveIsPlan, Zenon
      <3>2. QED
        BY <2>1, <3>1, Zenon DEF ReplicaPlan, ReadyOn
    <2>3. Answered(c)' \subseteq Answered(c) /\ replicas'[c] = replicas[c]
      BY <2>1, CopierLeft, Zenon DEF RowsKept
    <2>4. QED
      BY <1>1, <2>1, <2>2, <2>3, StillSafe, Zenon
  <1>4. ASSUME NEW p \in PlanIDs, Erases(c, p) \/ Creates(c, p) \/ Purges(c, p) PROVE Safe(c)'
    BY <1>1, <1>4, ErasesSafe, CreatesSafe, PurgesSafe, Zenon
  <1>5. QED
    BY <1>1, <1>2, <1>3, <1>4, SelectsSafe, SendsSafe, Zenon DEF Effect

\* In the first state nothing is under way and the ready replicas have the data.
LEMMA InitIdle ==
    ASSUME Init, NEW c \in Chunks
    PROVE  /\ PlanInv
           /\ Active(c) = {} /\ Moves(c) = {} /\ Todo(c) = {} /\ Cleaned(c) = {} /\ Deleting(c) = {}
           /\ Targets(c) = {} /\ Answered(c) = {} /\ copier[c].pc = "idle"
           /\ failover[c].pc = "idle" /\ rebalance[c].pc = "idle"
           /\ Copies(c) = ReadyOn(replicas[c]) /\ ReadyOn(replicas[c]) # {}
           /\ \A p \in PlanIDs : plan[p].state = "none"
  <1>1. \A p \in PlanIDs : plan[p].state = "none"
    BY Zenon DEF Init, NoPlan
  <1>2. PlanInv
    BY PlanInit, Zenon
  <1>3. Active(c) = {} /\ Moves(c) = {}
    BY <1>1, Zenon DEF Active, Moves, ActivePlans
  <1>4. cleaner.pc = "idle" /\ failover[c].pc = "idle" /\ rebalance[c].pc = "idle"
    BY IdleTyped, Zenon DEF Init
  <1>5. copier[c].pc = "idle"
    BY Zenon DEF Init, IdleCopier
  <1>6. Todo(c) = {} /\ Cleaned(c) = {} /\ Deleting(c) = {}
    BY <1>4, Zenon DEF Todo, Cleaned, Deleting
  <1>7. Targets(c) = {} /\ Answered(c) = {}
    BY <1>5, Zenon DEF Targets, Answered
  <1>8. Copies(c) = ReadyOn(replicas[c]) /\ ReadyOn(replicas[c]) # {}
    BY Zenon DEF Init, Copies, ReadyOn
  <1>9. QED
    BY <1>1, <1>2, <1>3, <1>4, <1>5, <1>6, <1>7, <1>8, Zenon

\* What keeps the data holds at first.
LEMMA DataInit == Init => DataInv
  <1> SUFFICES ASSUME Init PROVE DataInv
    BY Zenon
  <1>1. PlanInv
    BY PlanInit, Zenon
  <1>2. ASSUME NEW c \in Chunks PROVE Base(c) /\ Lost(c) /\ Safe(c)
    <2>1. Aimed(c) = {}
      BY InitIdle, Zenon DEF Aimed
    <2>2. Orphans(c) = PendingOn(replicas[c])
      BY <2>1, InitIdle, Zenon DEF Orphans
    <2>3. Settled(c) # {}
      BY <2>2, InitIdle, Zenon DEF Settled, ReadyOn, PendingOn
    <2>4. Base(c)
      BY InitIdle, Zenon DEF Base
    <2>5. Lost(c)
      BY InitIdle, Zenon DEF Lost
    <2>6. Safe(c)
      BY <2>3, InitIdle, Zenon DEF Safe
    <2>7. QED
      BY <2>4, <2>5, <2>6, Zenon
  <1>3. QED
    BY <1>1, <1>2, Zenon DEF DataInv

\* Every step keeps it.
LEMMA DataStep == DataInv /\ [Next]_vars => DataInv'
  <1> SUFFICES ASSUME DataInv, [Next]_vars PROVE DataInv'
    BY Zenon
  <1>1. PlanInv /\ TypeInv /\ PlanInv' /\ TypeInv'
    BY TypeStep, PlanStep, Zenon DEF DataInv, PlanInv
  <1>2. ASSUME NEW c \in Chunks, present'[c] PROVE Base(c)' /\ Lost(c)' /\ Safe(c)'
    <2>1. present[c] /\ Effect(c)
      BY <1>1, <1>2, StepEffect, Zenon
    <2>2. Base(c) /\ Lost(c) /\ Safe(c)
      BY <2>1, Zenon DEF DataInv
    <2>3. QED
      BY <1>1, <2>1, <2>2, StepBase, StepLost, StepSafe, Zenon
  <1>3. QED
    BY <1>1, <1>2, Zenon DEF DataInv

\* The data of a chunk whose file exists is on some node at any time, for every
\* number of nodes, chunks and plans, for both stores, whichever planners run and
\* whatever heartbeats, lost answers, failed copies and restarts come in between:
\* deleteSourceReplica never deletes the last copy.
THEOREM CopiesKeptSafe == Spec => []DataKept
  <1>1. DataInv => DataKept
    BY Zenon DEF DataInv, Safe, Settled, Copies, DataKept
  <1>2. QED
    BY <1>1, DataInit, DataStep, PTL DEF Spec

-----------------------------------------------------------------------------
(* One planner alone. *)

\* All plans that were ever made are of one type.
Only(type) == \A p \in PlanIDs : plan[p].state # "none" => plan[p].type = type

\* Whether a plan was ever made for a chunk.
HasPlans(c) == \E p \in PlanIDs : plan[p].state # "none" /\ plan[p].chunk = c

\* A chunk under failover plans: no ready row is without the data, and none that
\* the planner knows of goes before a new one is ready.
FailoverOnly(c) ==
    /\ ReadyOn(replicas[c]) \cup Answered(c) \subseteq Copies(c)
    /\ ReadyOn(replicas[c]) # {}
    /\ failover[c].pc # "idle" =>
          /\ ReadyOn(replicas[c]) \cap Rows(failover[c].snap) # {}
          /\ failover[c].source \in Rows(failover[c].snap)
    /\ failover[c].pc = "selected" => failover[c].target \notin Rows(failover[c].snap)
    /\ \A p \in Active(c) :
          /\ plan[p].source # plan[p].target
          /\ plan[p].target \in Rows(replicas[c])
          /\ failover[c].pc # "idle" => plan[p].target \in Rows(failover[c].snap)
          /\ p \in Cleaned(c) => plan[p].target \in ReadyOn(replicas[c])

\* A chunk under rebalance plans: a row that is not ready waits for the move, and
\* before the first move the planner finds all rows ready.
RebalanceOnly(c) ==
    /\ Targets(c) \subseteq PendingOn(replicas[c])
    /\ Answered(c) \subseteq Targets(c) \cap Copies(c)
    /\ \A n \in ReadyOn(replicas[c]) : n \in Copies(c) \/ \E p \in Moves(c) : plan[p].source = n
    /\ ReadyOn(replicas[c]) \cap Copies(c) # {}
    /\ HasPlans(c) => \A n \in PendingOn(replicas[c]) : \E p \in Moves(c) : plan[p].target = n
    /\ ~ HasPlans(c) => Cardinality(Rows(replicas[c])) <= DesiredReplicaCount
    /\ rebalance[c].pc # "idle" =>
          /\ Rows(replicas[c]) \subseteq Rows(rebalance[c].snap)
          /\ ~ HasPlans(c) => ReadyOn(rebalance[c].snap) \subseteq ReadyOn(replicas[c])
          /\ rebalance[c].source \in Rows(rebalance[c].snap)
    /\ rebalance[c].pc = "selected" =>
          /\ rebalance[c].target \notin Rows(rebalance[c].snap)
          /\ Cardinality(ReadyOn(rebalance[c].snap)) >= DesiredReplicaCount
    /\ \A p \in Moves(c) :
          /\ plan[p].source # plan[p].target
          /\ plan[p].source \notin PendingOn(replicas[c])
          /\ plan[p].target \in Rows(replicas[c])
          /\ p \in Cleaned(c) => plan[p].target \in ReadyOn(replicas[c])

\* A deleted chunk has no rows.
Gone == \A c \in Chunks : ~ present[c] => replicas[c] = NoReplicas

OnlyInv ==
    /\ DataInv /\ Gone
    /\ Only("failover") => \A c \in Chunks : present[c] => FailoverOnly(c)
    /\ Only("rebalance") => \A c \in Chunks : present[c] => RebalanceOnly(c)

-----------------------------------------------------------------------------
\* Plans keep their type and are never forgotten.
LEMMA PlansPersist ==
    ASSUME TypeInv, [Next]_vars, NEW p \in PlanIDs, plan[p].state # "none"
    PROVE  plan'[p].state # "none" /\ plan'[p].type = plan[p].type
  <1>1. plan \in [PlanIDs -> ReplicaPlan \cup {NoPlan}] /\ plan[p] \in ReplicaPlan
    <2>1. plan \in [PlanIDs -> ReplicaPlan \cup {NoPlan}]
      BY Zenon DEF TypeInv, TypeOK
    <2>2. NoPlan.state = "none"
      BY Zenon DEF NoPlan
    <2>3. QED
      BY <2>1, <2>2, Zenon
  <1>2. CASE plan' = plan
    BY <1>2, Zenon
  <1>3. ASSUME NEW type, NEW c \in Chunks, NEW local, Materialize(type, c, local)
        PROVE  plan'[p].state # "none" /\ plan'[p].type = plan[p].type
    <2>1. CASE CreateReplicaPlan(type, c, local.source, local.target)
      BY <1>1, <2>1, PlanCreated
    <2>2. QED
      BY <1>2, <1>3, <2>1, Zenon DEF Materialize
  <1>4. CASE updateReplicaPlan(Current, "done")
    <2>1. plan' = [plan EXCEPT ![Current] = [@ EXCEPT !.state = "done"]]
      BY <1>4, Zenon DEF updateReplicaPlan
    <2>2. QED
      BY <1>1, <2>1 DEF ReplicaPlan
  <1>5. ASSUME NEW c \in Chunks, DeleteFile(c)
        PROVE  plan'[p].state # "none" /\ plan'[p].type = plan[p].type
    <2>1. plan'[p] = plan[p] \/ plan'[p] = [plan[p] EXCEPT !.state = "deleted"]
      BY <1>5, Zenon DEF DeleteFile
    <2>2. QED
      BY <1>1, <2>1 DEF ReplicaPlan
  <1>6. \/ plan' = plan
        \/ \E c \in Chunks : materializePendingReplica(c) \/ planReplicaMove(c) \/ DeleteFile(c)
        \/ purgeLostReplicaMetadata
    BY Zenon DEF Next, vars, tables, HeartbeatNode, NodeTimesOut, PlannerStep, FailoverScan, RebalanceScan,
           FailoverSelect, RebalanceSelect, RepairStep, RepairScan, RepairCopy, RepairRecord,
           CleanupStep, CleanupList, finalizeCompletedPlan, deleteSourceReplica, Restart
  <1>7. CASE purgeLostReplicaMetadata
    BY <1>2, <1>4, <1>7, Zenon DEF purgeLostReplicaMetadata
  <1>8. QED
    BY <1>2, <1>3, <1>5, <1>6, <1>7, Zenon DEF materializePendingReplica, planReplicaMove

\* If all plans are of one type after a step, they were before.
LEMMA OnlyBefore ==
    ASSUME TypeInv, [Next]_vars, NEW type, Only(type)'
    PROVE  Only(type)
  BY PlansPersist, Zenon DEF Only

\* Only the rows of a chunk that exists are changed, and only with its deletion
\* do they go.
LEMMA GoneStep ==
    ASSUME TypeInv, Gone, [Next]_vars
    PROVE  Gone'
  <1> SUFFICES ASSUME NEW c \in Chunks, ~ present'[c]
               PROVE  replicas'[c] = NoReplicas
    BY Zenon DEF Gone
  <1>1. present \in [Chunks -> BOOLEAN] /\ replicas \in [Chunks -> ReplicaSet]
    BY Zenon DEF TypeInv, TypeOK
  <1>2. ASSUME NEW d \in Chunks, DeleteFile(d) PROVE replicas'[c] = NoReplicas
    BY <1>1, <1>2, Zenon DEF DeleteFile, Gone
  <1>3. CASE present' = present /\ replicas' = replicas
    BY <1>3, Zenon DEF Gone
  <1>4. ASSUME NEW d \in Chunks, NEW S, NEW n, present' = present,
               UpdateChunkReplicas(d, S, n) \/ removeChunkReplica(d, n)
        PROVE  replicas'[c] = NoReplicas
    <2>1. c # d
      BY <1>4, Zenon DEF UpdateChunkReplicas, removeChunkReplica
    <2>2. replicas'[c] = replicas[c]
      BY <1>1, <1>4, <2>1, Zenon DEF UpdateChunkReplicas, removeChunkReplica
    <2>3. QED
      BY <1>4, <2>2, Zenon DEF Gone
  <1>5. ASSUME NEW d \in Chunks, NEW type, NEW local, present' = present, Materialize(type, d, local)
        PROVE  replicas'[c] = NoReplicas
    BY <1>3, <1>4, <1>5, Zenon DEF Materialize
  <1>6. ASSUME NEW d \in Chunks, RepairRecord(d) PROVE replicas'[c] = NoReplicas
    BY <1>3, <1>4, <1>6, Zenon DEF RepairRecord
  <1>7. CASE purgeLostReplicaMetadata
    <2>1. plan[Current].chunk \in Chunks
      BY <1>7, CurrentIsPlan, Zenon DEF purgeLostReplicaMetadata, ReplicaPlan
    <2>2. QED
      BY <1>3, <1>4, <1>7, <2>1, Zenon DEF purgeLostReplicaMetadata
  <1>8. \/ present' = present /\ replicas' = replicas
        \/ \E d \in Chunks : \/ materializePendingReplica(d) \/ planReplicaMove(d)
                             \/ RepairRecord(d) \/ DeleteFile(d)
        \/ purgeLostReplicaMetadata
    BY ZenonT(60) DEF Next, vars, tables, HeartbeatNode, NodeTimesOut, PlannerStep, FailoverScan, RebalanceScan,
           FailoverSelect, RebalanceSelect, RepairStep, RepairScan, RepairCopy,
           CleanupStep, CleanupList, finalizeCompletedPlan, deleteSourceReplica, Restart
  <1>9. QED
    BY <1>2, <1>3, <1>5, <1>6, <1>7, <1>8, Zenon DEF materializePendingReplica, planReplicaMove

\* Of a chunk with plans of one type, at most one is unfinished.
LEMMA OneOfType ==
    ASSUME PlanInv, NEW type, Only(type), NEW c \in Chunks, NEW p \in Active(c), NEW q \in Active(c)
    PROVE  p = q
  BY Zenon DEF PlanInv, OnePlanPerType, Only, Active, ActivePlans

\* Whether a chunk has plans, when they are left alone.
LEMMA SameHasPlans ==
    ASSUME NEW c \in Chunks, PlansKept(c)
    PROVE  HasPlans(c)' <=> HasPlans(c)
  BY Zenon DEF PlansKept, HasPlans

\* The rows after the repairer has written those of its targets.
LEMMA RecordedRows ==
    ASSUME NEW c \in Chunks, Base(c), Records(c)
    PROVE  /\ ReadyOn(replicas'[c]) \subseteq ReadyOn(replicas[c]) \cup Answered(c)
           /\ ReadyOn(replicas[c]) \subseteq ReadyOn(replicas'[c])
           /\ Rows(replicas[c]) \subseteq Rows(replicas'[c])
           /\ Rows(replicas'[c]) \subseteq Rows(replicas[c]) \cup Targets(c)
           /\ Targets(c)' = {} /\ Answered(c)' = {}
  <1>1. /\ Targets(c)' = {} /\ Answered(c)' = {}
        /\ Targets(c) = copier[c].targets /\ Answered(c) = copier[c].ok
    BY Zenon DEF Records, Targets, Answered
  <1>2. Targets(c) \cap ReadyOn(replicas[c]) = {}
    BY Zenon DEF Base
  <1>3. QED
    BY <1>1, <1>2, Zenon DEF Records, ReadyOn, Rows

\* The plans being finished after a step that does not take one on.
LEMMA CleanedLeft ==
    ASSUME NEW c \in Chunks, CleanerKept(c)
    PROVE  Cleaned(c)' \subseteq Cleaned(c)
  BY Zenon DEF CleanerKept

-----------------------------------------------------------------------------
(* Failover plans only. *)

\* A step that takes no row, no copy and no plan away leaves FailoverOnly.
LEMMA FailoverLeft ==
    ASSUME NEW c \in Chunks, FailoverOnly(c), PlansKept(c), FailoverKept(c),
           ReadyOn(replicas[c]) \subseteq ReadyOn(replicas'[c]),
           Rows(replicas[c]) \subseteq Rows(replicas'[c]),
           ReadyOn(replicas'[c]) \cup Answered(c)' \subseteq Copies(c)',
           \A p \in Cleaned(c)' : p \in Cleaned(c) \/ plan[p].target \in ReadyOn(replicas[c])
    PROVE  FailoverOnly(c)'
  <1>1. Active(c)' = Active(c) /\ \A p \in Active(c) : plan'[p] = plan[p]
    BY SamePlans, Zenon
  <1>2. ReadyOn(replicas[c]) # {} /\ ReadyOn(replicas[c]) \subseteq Rows(replicas[c])
    BY Zenon DEF FailoverOnly, ReadyOn, Rows
  <1>3. failover'[c].pc # "idle" =>
           /\ ReadyOn(replicas[c]) \cap Rows(failover'[c].snap) # {}
           /\ failover'[c].source \in Rows(failover'[c].snap)
           /\ \A p \in Active(c) : plan[p].target \in Rows(failover'[c].snap)
    <2>1. CASE failover'[c] = failover[c] \/ failover'[c].pc = "idle"
      BY <2>1, Zenon DEF FailoverOnly
    <2>2. CASE Reads(failover, failover', c)
      BY <1>2, <2>2, Zenon DEF Reads, FailoverOnly
    <2>3. CASE Chooses(failover, failover', c)
      BY <2>3, Zenon DEF Chooses, FailoverOnly
    <2>4. QED
      BY <2>1, <2>2, <2>3, Zenon DEF FailoverKept
  <1>4. failover'[c].pc = "selected" => failover'[c].target \notin Rows(failover'[c].snap)
    BY Zenon DEF FailoverKept, Reads, Chooses, FailoverOnly
  <1>5. \A p \in Active(c) :
           /\ plan[p].source # plan[p].target
           /\ plan[p].target \in Rows(replicas'[c])
           /\ p \in Cleaned(c)' => plan[p].target \in ReadyOn(replicas'[c])
    BY Zenon DEF FailoverOnly
  <1>6. QED
    BY <1>1, <1>2, <1>3, <1>4, <1>5, Zenon DEF FailoverOnly

\* FailoverOnly after a failover plan has been created: its target had no row
\* when the planner read the rows.
LEMMA FailoverCreates ==
    ASSUME TypeInv, TypeInv', NEW c \in Chunks, FailoverOnly(c), NEW p \in PlanIDs,
           Creates(c, p), plan'[p].type = "failover"
    PROVE  FailoverOnly(c)'
  <1> DEFINE t == plan'[p].target
  <1>1. /\ failover[c].pc = "selected" /\ failover'[c].pc = "idle"
        /\ plan'[p].source = failover[c].source /\ t = failover[c].target
        /\ CopiesKept(c) /\ CopierKept(c) /\ CleanerKept(c)
    BY Zenon DEF Creates, CreatedBy, CopierKept, LoopsKept
  <1>2. /\ p \notin Todo(c) /\ Active(c)' = Active(c) \cup {p} /\ t \in Nodes
        /\ \A q \in Active(c) : plan'[q] = plan[q]
    BY OneMorePlan, Zenon
  <1>3. /\ ReadyOn(replicas'[c]) = ReadyOn(replicas[c]) \ {t}
        /\ Rows(replicas'[c]) = Rows(replicas[c]) \cup {t}
    BY CreatedRows, Zenon
  <1>4. t \notin Rows(failover[c].snap) /\ plan'[p].source # t
    BY <1>1, Zenon DEF FailoverOnly
  <1> HIDE DEF t
  <1>5. ReadyOn(replicas'[c]) # {}
    BY <1>1, <1>3, <1>4, Zenon DEF FailoverOnly
  <1>6. ReadyOn(replicas'[c]) \cup Answered(c)' \subseteq Copies(c)'
    BY <1>1, <1>3, CopierLeft, Zenon DEF FailoverOnly, CopiesKept
  <1>7. p \notin Cleaned(c)' /\ Cleaned(c)' \subseteq Cleaned(c)
    BY <1>1, <1>2, MovesAreActive, Zenon DEF CleanerKept
  <1>8. \A q \in Active(c) :
           /\ plan[q].source # plan[q].target
           /\ plan[q].target \in Rows(replicas'[c])
           /\ q \in Cleaned(c)' => plan[q].target \in ReadyOn(replicas'[c])
    BY <1>1, <1>3, <1>4, <1>7, Zenon DEF FailoverOnly
  <1>9. QED
    BY <1>1, <1>2, <1>3, <1>4, <1>5, <1>6, <1>7, <1>8, Zenon DEF FailoverOnly, t

\* FailoverOnly after the row of a lost replica has gone: the new one is ready.
LEMMA FailoverPurges ==
    ASSUME PlanInv, NEW c \in Chunks, FailoverOnly(c), Base(c), Only("failover"), NEW p \in PlanIDs,
           Purges(c, p)
    PROVE  FailoverOnly(c)'
  <1> DEFINE t == plan[p].target
  <1>1. p \in Cleaned(c) /\ p \in Active(c) /\ CopiesKept(c) /\ CopierKept(c) /\ FailoverKept(c)
    BY MovesAreActive, Zenon DEF Purges, LoopsKept, Base
  <1>2. Active(c)' = {}
    <2>1. \A q \in Active(c) : q = p
      BY <1>1, OneOfType, Zenon
    <2>2. Active(c)' = Active(c) \ {p}
      BY OnePlanLess, Zenon
    <2>3. QED
      BY <2>1, <2>2, Zenon
  <1>3. /\ t # plan[p].source /\ t \in ReadyOn(replicas[c])
        /\ failover[c].pc # "idle" => t \in Rows(failover[c].snap)
    BY <1>1, Zenon DEF FailoverOnly
  <1>4. ReadyOn(replicas'[c]) = ReadyOn(replicas[c]) \ {plan[p].source}
    BY PurgedRows, Zenon DEF PlanInv
  <1> HIDE DEF t
  <1>5. t \in ReadyOn(replicas'[c])
    BY <1>3, <1>4, Zenon
  <1>6. ReadyOn(replicas'[c]) \cup Answered(c)' \subseteq Copies(c)'
    BY <1>1, <1>4, CopierLeft, Zenon DEF FailoverOnly, CopiesKept
  <1>7. failover'[c].pc # "idle" =>
           /\ t \in Rows(failover'[c].snap)
           /\ failover'[c].source \in Rows(failover'[c].snap)
    <2>1. CASE failover'[c] = failover[c] \/ failover'[c].pc = "idle"
      BY <1>3, <2>1, Zenon DEF FailoverOnly
    <2>2. CASE Reads(failover, failover', c)
      BY <1>3, <2>2, Zenon DEF Reads, ReadyOn, Rows
    <2>3. CASE Chooses(failover, failover', c)
      BY <1>3, <2>3, Zenon DEF Chooses, FailoverOnly
    <2>4. QED
      BY <1>1, <2>1, <2>2, <2>3, Zenon DEF FailoverKept
  <1>8. failover'[c].pc = "selected" => failover'[c].target \notin Rows(failover'[c].snap)
    BY <1>1, Zenon DEF FailoverKept, Reads, Chooses, FailoverOnly
  <1>9. QED
    BY <1>2, <1>5, <1>6, <1>7, <1>8, Zenon DEF FailoverOnly

\* Every step leaves FailoverOnly, as long as there are failover plans only.
LEMMA FailoverStep ==
    ASSUME PlanInv, PlanInv', NEW c \in Chunks, Base(c), FailoverOnly(c), Effect(c),
           Only("failover"), Only("failover")'
    PROVE  FailoverOnly(c)'
  <1> USE DEF PlanInv
  <1>1. CASE /\ RowsKept(c) /\ CopiesKept(c) /\ PlansKept(c) /\ CopierKept(c)
             /\ FailoverKept(c) /\ CleanerKept(c)
    <2>1. replicas'[c] = replicas[c] /\ Copies(c)' = Copies(c)
      BY <1>1, Zenon DEF RowsKept, CopiesKept
    <2>2. ReadyOn(replicas'[c]) \cup Answered(c)' \subseteq Copies(c)'
      BY <1>1, <2>1, CopierLeft, Zenon DEF FailoverOnly
    <2>3. QED
      BY <1>1, <2>1, <2>2, CleanedLeft, FailoverLeft, Zenon
  <1>2. CASE Scans(c) \/ Sends(c)
    <2>1. /\ replicas'[c] = replicas[c] /\ PlansKept(c) /\ FailoverKept(c) /\ CleanerKept(c)
          /\ Copies(c) \subseteq Copies(c)'
      BY <1>2, Zenon DEF Scans, Sends, RowsKept, LoopsKept, CopiesKept
    <2>2. Answered(c)' \subseteq Copies(c)'
      BY <1>2, Zenon DEF Scans, Sends, Answered
    <2>3. ReadyOn(replicas'[c]) \cup Answered(c)' \subseteq Copies(c)'
      BY <2>1, <2>2, Zenon DEF FailoverOnly
    <2>4. QED
      BY <2>1, <2>3, CleanedLeft, FailoverLeft, Zenon
  <1>3. CASE Records(c)
    <2>1. /\ PlansKept(c) /\ FailoverKept(c) /\ CleanerKept(c) /\ Copies(c)' = Copies(c)
      BY <1>3, Zenon DEF Records, LoopsKept, CopiesKept
    <2>2. ReadyOn(replicas'[c]) \cup Answered(c)' \subseteq Copies(c)'
      BY <1>3, <2>1, RecordedRows, Zenon DEF FailoverOnly
    <2>3. QED
      BY <1>3, <2>1, <2>2, RecordedRows, CleanedLeft, FailoverLeft, Zenon
  <1>4. ASSUME NEW p \in PlanIDs, Takes(c, p) PROVE FailoverOnly(c)'
    <2>1. /\ replicas'[c] = replicas[c] /\ Copies(c)' = Copies(c)
          /\ PlansKept(c) /\ CopierKept(c) /\ FailoverKept(c)
          /\ p \in Active(c) /\ replicas[c][plan[p].target] = "ready" /\ Cleaned(c)' \subseteq {p}
      BY <1>4, Zenon DEF Takes, RowsKept, CopiesKept, Base
    <2>2. plan[p].target \in ReadyOn(replicas[c])
      BY <2>1, ActiveIsPlan, Zenon DEF ReadyOn, ReplicaPlan
    <2>3. ReadyOn(replicas'[c]) \cup Answered(c)' \subseteq Copies(c)'
      BY <2>1, CopierLeft, Zenon DEF FailoverOnly
    <2>4. QED
      BY <2>1, <2>2, <2>3, FailoverLeft, Zenon
  <1>5. ASSUME NEW p \in PlanIDs, Creates(c, p) PROVE FailoverOnly(c)'
    <2>1. plan'[p].type = "failover"
      BY <1>5, Zenon DEF Creates, Only
    <2>2. QED
      BY <1>5, <2>1, FailoverCreates, Zenon
  <1>6. ASSUME NEW p \in PlanIDs, Erases(c, p) PROVE FALSE
    <2>1. p \in Moves(c)
      BY <1>6, Zenon DEF Erases, Base
    <2>2. plan[p].type = "rebalance" /\ plan[p].state = "materialized"
      BY <2>1, Zenon DEF Moves, ActivePlans
    <2>3. QED
      BY <2>2, Zenon DEF Only
  <1>7. ASSUME NEW p \in PlanIDs, Purges(c, p) PROVE FailoverOnly(c)'
    BY <1>7, FailoverPurges, Zenon
  <1>8. QED
    BY <1>1, <1>2, <1>3, <1>4, <1>5, <1>6, <1>7, Zenon DEF Effect, Still, Selects, LoopsKept

-----------------------------------------------------------------------------
(* Rebalance plans only. *)

\* The moves are all the unfinished plans.
LEMMA MovesOnly ==
    ASSUME NEW c \in Chunks, Only("rebalance")
    PROVE  Active(c) = Moves(c)
  BY Zenon DEF Only, Active, Moves, ActivePlans, PlanType

\* When as many rows are ready as there may be, all rows are ready.
LEMMA AllReady ==
    ASSUME NEW rs, NEW S, S \subseteq ReadyOn(rs), Cardinality(Rows(rs)) <= DesiredReplicaCount,
           Cardinality(S) >= DesiredReplicaCount
    PROVE  PendingOn(rs) = {}
  <1>1. S \subseteq Rows(rs) /\ IsFiniteSet(Rows(rs))
    BY ReplicationAssumption, FS_Subset DEF ReadyOn, Rows
  <1>2. S = Rows(rs)
    <2>1. IsFiniteSet(S)
      BY <1>1, FS_Subset
    <2>2. Cardinality(S) \in Nat /\ Cardinality(Rows(rs)) \in Nat
      BY <1>1, <2>1, FS_CardinalityType
    <2>3. Cardinality(S) = Cardinality(Rows(rs))
      <3>1. Cardinality(S) <= Cardinality(Rows(rs))
        BY <1>1, FS_Subset
      <3>2. QED
        BY <2>2, <3>1, ReplicationAssumption
    <2>4. QED
      BY <1>1, <2>3, FS_Subset
  <1>3. QED
    BY <1>2 DEF ReadyOn, Rows, PendingOn

\* The part of RebalanceOnly about the planner, when no row goes or comes.
LEMMA MoverSees ==
    ASSUME NEW c \in Chunks, RebalanceOnly(c), MoverKept(c) \/ Selects(c),
           HasPlans(c)' <=> HasPlans(c)
    PROVE  /\ rebalance'[c].pc # "idle" =>
                 /\ Rows(replicas[c]) \subseteq Rows(rebalance'[c].snap)
                 /\ ~ HasPlans(c)' => ReadyOn(rebalance'[c].snap) \subseteq ReadyOn(replicas[c])
                 /\ rebalance'[c].source \in Rows(rebalance'[c].snap)
           /\ rebalance'[c].pc = "selected" =>
                 /\ rebalance'[c].target \notin Rows(rebalance'[c].snap)
                 /\ Cardinality(ReadyOn(rebalance'[c].snap)) >= DesiredReplicaCount
  <1>1. CASE rebalance'[c] = rebalance[c]
    BY <1>1, Zenon DEF RebalanceOnly
  <1>2. CASE rebalance'[c].pc = "idle"
    BY <1>2, Zenon
  <1>3. CASE Reads(rebalance, rebalance', c)
    BY <1>3, Zenon DEF Reads
  <1>4. CASE Selects(c)
    BY <1>4, Zenon DEF Selects, Chooses, RebalanceOnly
  <1>5. QED
    BY <1>1, <1>2, <1>3, <1>4, Zenon DEF MoverKept

\* A step that takes no row, no copy and no plan away, and adds no row, leaves
\* RebalanceOnly.
LEMMA RebalanceLeft ==
    ASSUME PlanInv, NEW c \in Chunks, RebalanceOnly(c), PlansKept(c), MoverKept(c) \/ Selects(c),
           ReadyOn(replicas[c]) \subseteq ReadyOn(replicas'[c]),
           Rows(replicas'[c]) = Rows(replicas[c]),
           ReadyOn(replicas'[c]) \subseteq ReadyOn(replicas[c]) \cup Copies(c),
           Copies(c) \subseteq Copies(c)',
           Targets(c)' \subseteq PendingOn(replicas'[c]),
           Answered(c)' \subseteq Targets(c)' \cap Copies(c)',
           \A p \in Cleaned(c)' : p \in Cleaned(c) \/ plan[p].target \in ReadyOn(replicas[c])
    PROVE  RebalanceOnly(c)'
  <1>1. /\ Moves(c)' = Moves(c) /\ (HasPlans(c)' <=> HasPlans(c))
        /\ \A p \in Moves(c) : plan'[p] = plan[p]
    BY SamePlans, SameHasPlans, MovesAreActive, Zenon
  <1>2. PendingOn(replicas'[c]) \subseteq PendingOn(replicas[c])
    <2> SUFFICES ASSUME NEW n \in PendingOn(replicas'[c]) PROVE n \in PendingOn(replicas[c])
      BY Zenon
    <2>1. n \in Nodes /\ n \in Rows(replicas'[c]) /\ n \notin ReadyOn(replicas'[c])
      BY Zenon DEF PendingOn, Rows, ReadyOn
    <2>2. n \in Rows(replicas[c]) /\ n \notin ReadyOn(replicas[c])
      BY <2>1, Zenon
    <2>3. replicas[c][n] \in ReplicaState
      BY <2>1 DEF PlanInv, TypeInv, TypeOK, ReplicaSet
    <2>4. QED
      BY <2>1, <2>2, <2>3, Zenon DEF Rows, ReadyOn, PendingOn, ReplicaState
  <1>3. /\ \A n \in ReadyOn(replicas'[c]) :
              n \in Copies(c)' \/ \E p \in Moves(c) : plan[p].source = n
        /\ ReadyOn(replicas'[c]) \cap Copies(c)' # {}
    BY Zenon DEF RebalanceOnly
  <1>4. /\ HasPlans(c) => \A n \in PendingOn(replicas'[c]) : \E p \in Moves(c) : plan[p].target = n
        /\ ~ HasPlans(c) => Cardinality(Rows(replicas'[c])) <= DesiredReplicaCount
    BY <1>2, Zenon DEF RebalanceOnly
  <1>5. \A p \in Moves(c) :
           /\ plan[p].source # plan[p].target
           /\ plan[p].source \notin PendingOn(replicas'[c])
           /\ plan[p].target \in Rows(replicas'[c])
           /\ p \in Cleaned(c)' => plan[p].target \in ReadyOn(replicas'[c])
    BY <1>2, Zenon DEF RebalanceOnly
  <1>6. /\ rebalance'[c].pc # "idle" =>
              /\ Rows(replicas'[c]) \subseteq Rows(rebalance'[c].snap)
              /\ ~ HasPlans(c)' => ReadyOn(rebalance'[c].snap) \subseteq ReadyOn(replicas'[c])
              /\ rebalance'[c].source \in Rows(rebalance'[c].snap)
        /\ rebalance'[c].pc = "selected" =>
              /\ rebalance'[c].target \notin Rows(rebalance'[c].snap)
              /\ Cardinality(ReadyOn(rebalance'[c].snap)) >= DesiredReplicaCount
    BY <1>1, MoverSees, Zenon
  <1>7. QED
    BY <1>1, <1>3, <1>4, <1>5, <1>6 DEF RebalanceOnly

\* RebalanceOnly after a move has been planned: all rows were ready.
LEMMA RebalanceCreates ==
    ASSUME PlanInv, PlanInv', NEW c \in Chunks, RebalanceOnly(c), NEW p \in PlanIDs,
           Creates(c, p), plan'[p].type = "rebalance"
    PROVE  RebalanceOnly(c)'
  <1> DEFINE t == plan'[p].target
  <1> USE DEF PlanInv
  <1>1. /\ rebalance[c].pc = "selected" /\ rebalance'[c].pc = "idle"
        /\ plan'[p].source = rebalance[c].source /\ t = rebalance[c].target
        /\ CopiesKept(c) /\ CopierKept(c) /\ CleanerKept(c)
        /\ plan'[p].state = "materialized" /\ plan'[p].chunk = c
    BY Zenon DEF Creates, CreatedBy, CopierKept, LoopsKept
  <1>2. /\ p \notin Todo(c) /\ t \in Nodes
        /\ Moves(c)' = Moves(c) \cup {q \in {p} : plan'[p].type = "rebalance"}
    BY OneMorePlan, Zenon
  <1>3. Moves(c) = {} /\ Moves(c)' = {p}
    BY <1>1, <1>2, Zenon DEF Checked, Moves
  <1>4. PendingOn(replicas[c]) = {}
    <2>1. CASE HasPlans(c)
      BY <1>3, <2>1, Zenon DEF RebalanceOnly
    <2>2. CASE ~ HasPlans(c)
      <3>1. /\ ReadyOn(rebalance[c].snap) \subseteq ReadyOn(replicas[c])
            /\ Cardinality(Rows(replicas[c])) <= DesiredReplicaCount
            /\ Cardinality(ReadyOn(rebalance[c].snap)) >= DesiredReplicaCount
        BY <1>1, <2>2, Zenon DEF RebalanceOnly
      <3>2. QED
        BY <3>1, AllReady, Zenon
    <2>3. QED
      BY <2>1, <2>2, Zenon
  <1>5. /\ t \notin Rows(replicas[c]) /\ plan'[p].source # t
    BY <1>1, Zenon DEF RebalanceOnly
  <1>6. /\ ReadyOn(replicas'[c]) = ReadyOn(replicas[c])
        /\ PendingOn(replicas'[c]) = {t}
        /\ t \in Rows(replicas'[c])
    <2>1. /\ ReadyOn(replicas'[c]) = ReadyOn(replicas[c]) \ {t}
          /\ PendingOn(replicas'[c]) = PendingOn(replicas[c]) \cup {t}
          /\ Rows(replicas'[c]) = Rows(replicas[c]) \cup {t}
      BY CreatedRows, Zenon
    <2>2. t \notin ReadyOn(replicas[c])
      BY <1>5, Zenon DEF ReadyOn, Rows
    <2>3. QED
      BY <1>4, <2>1, <2>2, Zenon
  <1> HIDE DEF t
  <1>7. Targets(c)' = {} /\ Answered(c)' = {} /\ Copies(c)' = Copies(c)
    BY <1>1, <1>4, CopierLeft, Zenon DEF RebalanceOnly, CopiesKept
  <1>8. HasPlans(c)'
    BY <1>1, Zenon DEF HasPlans
  <1>9. p \notin Cleaned(c)'
    BY <1>1, <1>2, MovesAreActive, Zenon DEF CleanerKept
  <1>10. /\ \A n \in ReadyOn(replicas[c]) : n \in Copies(c)
         /\ ReadyOn(replicas[c]) \cap Copies(c) # {}
    BY <1>3, Zenon DEF RebalanceOnly
  <1>11. /\ \A n \in PendingOn(replicas'[c]) : \E q \in Moves(c)' : plan'[q].target = n
         /\ \A q \in Moves(c)' :
               /\ plan'[q].source # plan'[q].target
               /\ plan'[q].source \notin PendingOn(replicas'[c])
               /\ plan'[q].target \in Rows(replicas'[c])
               /\ q \notin Cleaned(c)'
    BY <1>3, <1>5, <1>6, <1>9, Zenon DEF t
  <1>12. /\ Targets(c)' \subseteq PendingOn(replicas'[c])
         /\ Answered(c)' \subseteq Targets(c)' \cap Copies(c)'
         /\ \A n \in ReadyOn(replicas'[c]) : n \in Copies(c)'
         /\ ReadyOn(replicas'[c]) \cap Copies(c)' # {}
    BY <1>6, <1>7, <1>10, Zenon
  <1>13. rebalance'[c].pc # "selected"
    BY <1>1, Zenon
  <1>14. QED
    BY <1>1, <1>8, <1>11, <1>12, <1>13, Zenon DEF RebalanceOnly

\* The target of a move that is being finished has the data.
LEMMA MovedHasData ==
    ASSUME PlanInv, NEW c \in Chunks, RebalanceOnly(c), NEW p \in Moves(c), p \in Cleaned(c)
    PROVE  /\ plan[p].target \in ReadyOn(replicas[c]) \cap Copies(c)
           /\ plan[p].source # plan[p].target
           /\ PendingOn(replicas[c]) = {}
           /\ \A n \in ReadyOn(replicas[c]) : n \in Copies(c) \/ plan[p].source = n
  <1>1. \A q \in Moves(c) : q = p
    BY OneMove, Zenon
  <1>2. plan[p].target \in ReadyOn(replicas[c]) /\ plan[p].source # plan[p].target
    BY Zenon DEF RebalanceOnly
  <1>3. \A n \in ReadyOn(replicas[c]) : n \in Copies(c) \/ plan[p].source = n
    BY <1>1, Zenon DEF RebalanceOnly
  <1>4. HasPlans(c)
    BY Zenon DEF HasPlans, Moves, ActivePlans
  <1>5. PendingOn(replicas[c]) = {}
    <2>1. \A n \in PendingOn(replicas[c]) : plan[p].target = n
      BY <1>1, <1>4, Zenon DEF RebalanceOnly
    <2>2. QED
      BY <1>2, <2>1, Zenon DEF ReadyOn, PendingOn
  <1>6. QED
    BY <1>2, <1>3, <1>5, Zenon

\* RebalanceOnly after the source of a move has deleted the data.
LEMMA RebalanceErases ==
    ASSUME PlanInv, NEW c \in Chunks, RebalanceOnly(c), Base(c), NEW p \in PlanIDs, Erases(c, p)
    PROVE  RebalanceOnly(c)'
  <1>1. /\ p \in Cleaned(c) /\ p \in Moves(c)
        /\ replicas'[c] = replicas[c] /\ PlansKept(c) /\ CopierKept(c) /\ MoverKept(c)
        /\ CleanerKept(c) /\ Copies(c)' = Copies(c) \ {plan[p].source}
    BY MovesAreActive, Zenon DEF Erases, LoopsKept, RowsKept, Base
  <1>2. /\ Moves(c)' = Moves(c) /\ (HasPlans(c)' <=> HasPlans(c))
        /\ \A q \in Moves(c) : plan'[q] = plan[q]
    BY <1>1, SamePlans, SameHasPlans, MovesAreActive, Zenon
  <1>3. /\ plan[p].target \in ReadyOn(replicas[c]) \cap Copies(c)
        /\ plan[p].source # plan[p].target
        /\ PendingOn(replicas[c]) = {}
        /\ \A n \in ReadyOn(replicas[c]) : n \in Copies(c) \/ plan[p].source = n
    BY <1>1, MovedHasData, Zenon
  <1>4. Targets(c)' = {} /\ Answered(c)' = {}
    BY <1>1, <1>3, CopierLeft, Zenon DEF RebalanceOnly
  <1>5. /\ \A n \in ReadyOn(replicas[c]) : n \in Copies(c)' \/ \E q \in Moves(c) : plan[q].source = n
        /\ ReadyOn(replicas[c]) \cap Copies(c)' # {}
    BY <1>1, <1>3, Zenon
  <1>6. \A q \in Moves(c) :
           /\ plan[q].source # plan[q].target
           /\ plan[q].source \notin PendingOn(replicas[c])
           /\ plan[q].target \in Rows(replicas[c])
           /\ q \in Cleaned(c)' => plan[q].target \in ReadyOn(replicas[c])
    BY <1>1, CleanedLeft, Zenon DEF RebalanceOnly
  <1>7. /\ rebalance'[c].pc # "idle" =>
              /\ Rows(replicas[c]) \subseteq Rows(rebalance'[c].snap)
              /\ ~ HasPlans(c)' => ReadyOn(rebalance'[c].snap) \subseteq ReadyOn(replicas[c])
              /\ rebalance'[c].source \in Rows(rebalance'[c].snap)
        /\ rebalance'[c].pc = "selected" =>
              /\ rebalance'[c].target \notin Rows(rebalance'[c].snap)
              /\ Cardinality(ReadyOn(rebalance'[c].snap)) >= DesiredReplicaCount
    BY <1>1, <1>2, MoverSees, Zenon
  <1>8. ~ HasPlans(c) => Cardinality(Rows(replicas[c])) <= DesiredReplicaCount
    BY Zenon DEF RebalanceOnly
  <1>9. QED
    BY <1>1, <1>2, <1>3, <1>4, <1>5, <1>6, <1>7, <1>8, ZenonT(60) DEF RebalanceOnly

\* RebalanceOnly after the row of the source of a move has gone.
LEMMA RebalancePurges ==
    ASSUME PlanInv, NEW c \in Chunks, RebalanceOnly(c), Base(c), Only("rebalance"), NEW p \in PlanIDs,
           Purges(c, p)
    PROVE  RebalanceOnly(c)'
  <1>1. /\ p \in Cleaned(c) /\ p \in Moves(c) /\ CopierKept(c) /\ MoverKept(c)
        /\ Copies(c)' = Copies(c) /\ plan'[p].state = "done" /\ plan'[p].chunk = c
    <2>1. p \in Cleaned(c) /\ p \in Active(c)
      BY MovesAreActive, Zenon DEF Purges, Base
    <2>2. p \in Moves(c)
      BY <2>1, MovesOnly, Zenon
    <2>3. QED
      BY <2>1, <2>2, Zenon DEF Purges, LoopsKept, CopiesKept
  <1>2. Moves(c)' = {} /\ HasPlans(c)'
    <2>1. \A q \in Moves(c) : q = p
      BY <1>1, OneMove, Zenon
    <2>2. Moves(c)' = Moves(c) \ {p}
      BY OnePlanLess, Zenon
    <2>3. HasPlans(c)'
      BY <1>1, Zenon DEF HasPlans
    <2>4. QED
      BY <2>1, <2>2, <2>3, Zenon
  <1>3. /\ plan[p].target \in ReadyOn(replicas[c]) \cap Copies(c)
        /\ plan[p].source # plan[p].target
        /\ PendingOn(replicas[c]) = {}
        /\ \A n \in ReadyOn(replicas[c]) : n \in Copies(c) \/ plan[p].source = n
    BY <1>1, MovedHasData, Zenon
  <1>4. /\ ReadyOn(replicas'[c]) = ReadyOn(replicas[c]) \ {plan[p].source}
        /\ PendingOn(replicas'[c]) \subseteq PendingOn(replicas[c])
        /\ Rows(replicas'[c]) \subseteq Rows(replicas[c])
    BY PurgedRows, Zenon DEF PlanInv
  <1>5. Targets(c)' = {} /\ Answered(c)' = {}
    BY <1>1, <1>3, CopierLeft, ZenonT(60) DEF RebalanceOnly
  <1>6. /\ \A n \in ReadyOn(replicas'[c]) : n \in Copies(c)'
        /\ ReadyOn(replicas'[c]) \cap Copies(c)' # {}
        /\ PendingOn(replicas'[c]) = {}
    BY <1>1, <1>3, <1>4, Zenon
  <1>7. /\ rebalance'[c].pc # "idle" =>
              /\ Rows(replicas[c]) \subseteq Rows(rebalance'[c].snap)
              /\ rebalance'[c].source \in Rows(rebalance'[c].snap)
        /\ rebalance'[c].pc = "selected" =>
              /\ rebalance'[c].target \notin Rows(rebalance'[c].snap)
              /\ Cardinality(ReadyOn(rebalance'[c].snap)) >= DesiredReplicaCount
    BY <1>1, Zenon DEF MoverKept, Reads, RebalanceOnly
  <1>8. QED
    BY <1>2, <1>4, <1>5, <1>6, <1>7, Zenon DEF RebalanceOnly

\* Every step leaves RebalanceOnly, as long as there are rebalance plans only.
LEMMA RebalanceStep ==
    ASSUME PlanInv, PlanInv', NEW c \in Chunks, Base(c), RebalanceOnly(c), Effect(c),
           Only("rebalance"), Only("rebalance")'
    PROVE  RebalanceOnly(c)'
  <1>1. CASE /\ RowsKept(c) /\ CopiesKept(c) /\ PlansKept(c) /\ CopierKept(c)
             /\ MoverKept(c) \/ Selects(c)
             /\ CleanerKept(c)
    <2>1. replicas'[c] = replicas[c] /\ Copies(c)' = Copies(c)
      BY <1>1, Zenon DEF RowsKept, CopiesKept
    <2>2. Targets(c)' \subseteq PendingOn(replicas'[c])
      BY <1>1, <2>1, CopierLeft, Zenon DEF RebalanceOnly
    <2>3. Answered(c)' \subseteq Targets(c)' \cap Copies(c)'
      BY <1>1, <2>1, Zenon DEF RebalanceOnly, CopierKept, Answered, Targets
    <2>4. QED
      BY <1>1, <2>1, <2>2, <2>3, CleanedLeft, RebalanceLeft, Zenon
  <1>2. CASE Scans(c) \/ Sends(c)
    <2>1. /\ replicas'[c] = replicas[c] /\ PlansKept(c) /\ MoverKept(c) /\ CleanerKept(c)
          /\ Copies(c) \subseteq Copies(c)'
      BY <1>2, Zenon DEF Scans, Sends, RowsKept, LoopsKept, CopiesKept
    <2>2. Targets(c)' \subseteq PendingOn(replicas'[c])
      BY <1>2, <2>1, Zenon DEF Scans, Sends, Targets, RebalanceOnly
    <2>3. Answered(c)' \subseteq Targets(c)' \cap Copies(c)'
      BY <1>2, Zenon DEF Scans, Sends, Answered, Targets
    <2>4. QED
      BY <2>1, <2>2, <2>3, CleanedLeft, RebalanceLeft, Zenon
  <1>3. CASE Records(c)
    <2>1. /\ PlansKept(c) /\ MoverKept(c) /\ CleanerKept(c) /\ Copies(c)' = Copies(c)
      BY <1>3, Zenon DEF Records, LoopsKept, CopiesKept
    <2>2. Targets(c) \subseteq Rows(replicas[c])
      BY Zenon DEF RebalanceOnly, PendingOn, Rows
    <2>3. Rows(replicas'[c]) = Rows(replicas[c])
      BY <1>3, <2>2, RecordedRows, Zenon
    <2>4. ReadyOn(replicas'[c]) \subseteq ReadyOn(replicas[c]) \cup Copies(c)
      BY <1>3, RecordedRows, Zenon DEF RebalanceOnly
    <2>5. QED
      BY <1>3, <2>1, <2>3, <2>4, RecordedRows, CleanedLeft, RebalanceLeft, Zenon
  <1>4. ASSUME NEW p \in PlanIDs, Takes(c, p) PROVE RebalanceOnly(c)'
    <2>1. /\ replicas'[c] = replicas[c] /\ Copies(c)' = Copies(c)
          /\ PlansKept(c) /\ CopierKept(c) /\ MoverKept(c)
          /\ p \in Active(c) /\ replicas[c][plan[p].target] = "ready" /\ Cleaned(c)' \subseteq {p}
      BY <1>4, Zenon DEF Takes, RowsKept, CopiesKept, Base
    <2>2. plan[p].target \in ReadyOn(replicas[c])
      BY <2>1, ActiveIsPlan, Zenon DEF ReadyOn, ReplicaPlan, PlanInv
    <2>3. Targets(c)' \subseteq PendingOn(replicas'[c])
      BY <2>1, CopierLeft, Zenon DEF RebalanceOnly
    <2>4. Answered(c)' \subseteq Targets(c)' \cap Copies(c)'
      BY <2>1, Zenon DEF RebalanceOnly, CopierKept, Answered, Targets
    <2>5. QED
      BY <2>1, <2>2, <2>3, <2>4, RebalanceLeft, Zenon
  <1>5. ASSUME NEW p \in PlanIDs, Creates(c, p) PROVE RebalanceOnly(c)'
    <2>1. plan'[p].type = "rebalance"
      BY <1>5, Zenon DEF Creates, Only
    <2>2. QED
      BY <1>5, <2>1, RebalanceCreates, Zenon
  <1>6. ASSUME NEW p \in PlanIDs, Erases(c, p) PROVE RebalanceOnly(c)'
    BY <1>6, RebalanceErases, Zenon
  <1>7. ASSUME NEW p \in PlanIDs, Purges(c, p) PROVE RebalanceOnly(c)'
    BY <1>7, RebalancePurges, Zenon
  <1>8. QED
    BY <1>1, <1>2, <1>3, <1>4, <1>5, <1>6, <1>7, ZenonT(60) DEF Effect, Still, Selects, LoopsKept

-----------------------------------------------------------------------------
\* What the invariants of the two planners need holds at first.
LEMMA OnlyInit == Init => OnlyInv
  <1> SUFFICES ASSUME Init PROVE OnlyInv
    BY Zenon
  <1>1. DataInv
    BY DataInit, Zenon
  <1>2. Gone
    BY Zenon DEF Init, Gone
  <1>3. ASSUME NEW c \in Chunks PROVE FailoverOnly(c) /\ RebalanceOnly(c)
    <2>1. Cardinality(Rows(replicas[c])) <= DesiredReplicaCount
      BY Zenon DEF Init
    <2>2. ~ HasPlans(c)
      BY Zenon DEF Init, HasPlans, NoPlan
    <2>3. /\ Active(c) = {} /\ Moves(c) = {} /\ Targets(c) = {} /\ Answered(c) = {}
          /\ failover[c].pc = "idle" /\ rebalance[c].pc = "idle"
          /\ Copies(c) = ReadyOn(replicas[c]) /\ ReadyOn(replicas[c]) # {}
      BY InitIdle, Zenon
    <2>4. QED
      BY <2>1, <2>2, <2>3, Zenon DEF FailoverOnly, RebalanceOnly
  <1>4. QED
    BY <1>1, <1>2, <1>3, ZenonT(60) DEF OnlyInv

\* Every step keeps them.
LEMMA OnlyStep == OnlyInv /\ [Next]_vars => OnlyInv'
  <1> SUFFICES ASSUME OnlyInv, [Next]_vars PROVE OnlyInv'
    BY Zenon
  <1>1. DataInv /\ DataInv' /\ PlanInv /\ TypeInv /\ PlanInv'
    BY DataStep, Zenon DEF OnlyInv, DataInv, PlanInv
  <1>2. Gone'
    BY <1>1, GoneStep, Zenon DEF OnlyInv
  <1>3. ASSUME Only("failover")', NEW c \in Chunks, present'[c] PROVE FailoverOnly(c)'
    <2>1. Only("failover")
      BY <1>1, <1>3, OnlyBefore, Zenon
    <2>2. present[c] /\ Effect(c)
      BY <1>1, <1>3, StepEffect, Zenon
    <2>3. Base(c) /\ FailoverOnly(c)
      BY <2>1, <2>2, Zenon DEF OnlyInv, DataInv
    <2>4. QED
      BY <1>1, <1>3, <2>1, <2>2, <2>3, FailoverStep, Zenon
  <1>4. ASSUME Only("rebalance")', NEW c \in Chunks, present'[c] PROVE RebalanceOnly(c)'
    <2>1. Only("rebalance")
      BY <1>1, <1>4, OnlyBefore, Zenon
    <2>2. present[c] /\ Effect(c)
      BY <1>1, <1>4, StepEffect, Zenon
    <2>3. Base(c) /\ RebalanceOnly(c)
      BY <2>1, <2>2, Zenon DEF OnlyInv, DataInv
    <2>4. QED
      BY <1>1, <1>4, <2>1, <2>2, <2>3, RebalanceStep, Zenon
  <1>5. QED
    BY <1>1, <1>2, <1>3, <1>4, Zenon DEF OnlyInv

\* As long as one planner only has made plans, whichever it is, every chunk whose
\* file exists has a ready replica with the data, and a ready replica without the
\* data is the source of an unfinished move: for every number of nodes, chunks and
\* replicas desired, and whatever heartbeats, failures and restarts there are.
THEOREM OnePlannerSafe == Spec => []OnePlannerIsSafe
  <1>1. OnlyInv => OnePlannerIsSafe
    <2> SUFFICES ASSUME OnlyInv,
                        \A p, q \in PlanIDs :
                            plan[p].state # "none" /\ plan[q].state # "none" =>
                                plan[p].type = plan[q].type
                 PROVE  Readable /\ ReadyHasData
      BY Zenon DEF OnePlannerIsSafe
    <2>1. Only("failover") \/ Only("rebalance")
      <3>1. CASE \A p \in PlanIDs : plan[p].state = "none"
        BY <3>1, Zenon DEF Only
      <3>2. ASSUME NEW p \in PlanIDs, plan[p].state # "none"
            PROVE  Only("failover") \/ Only("rebalance")
        <4>1. plan[p] \in ReplicaPlan \cup {NoPlan} /\ NoPlan.state = "none"
          BY Zenon DEF OnlyInv, DataInv, PlanInv, TypeInv, TypeOK, NoPlan
        <4>2. plan[p].type \in PlanType
          BY <3>2, <4>1, Zenon DEF ReplicaPlan
        <4>3. Only(plan[p].type)
          BY <3>2, Zenon DEF Only
        <4>4. QED
          BY <4>2, <4>3, Zenon DEF PlanType
      <3>3. QED
        BY <3>1, <3>2, Zenon
    <2>2. \A c \in Chunks : present[c] => FailoverOnly(c) \/ RebalanceOnly(c)
      BY <2>1, Zenon DEF OnlyInv
    <2>3. Readable
      <3> SUFFICES ASSUME NEW c \in Chunks, present[c]
                   PROVE  \E n \in ReadyOn(replicas[c]) : c \in disk[n]
        BY Zenon DEF Readable
      <3>1. ReadyOn(replicas[c]) \cap Copies(c) # {}
        <4>1. CASE FailoverOnly(c)
          BY <4>1, Zenon DEF FailoverOnly
        <4>2. CASE RebalanceOnly(c)
          BY <4>2, Zenon DEF RebalanceOnly
        <4>3. QED
          BY <2>2, <4>1, <4>2, Zenon
      <3>2. QED
        BY <3>1, Zenon DEF Copies
    <2>4. ReadyHasData
      <3> SUFFICES ASSUME NEW c \in Chunks, NEW n \in Nodes, replicas[c][n] = "ready"
                   PROVE  c \in disk[n] \/ \E p \in Moves(c) : plan[p].source = n
        BY Zenon DEF ReadyHasData, Moves
      <3>1. present[c]
        <4>1. NoReplicas[n] = "none"
          BY Zenon DEF NoReplicas
        <4>2. QED
          BY <4>1, Zenon DEF OnlyInv, Gone
      <3>2. n \in ReadyOn(replicas[c])
        BY Zenon DEF ReadyOn
      <3>3. n \in Copies(c) \/ \E p \in Moves(c) : plan[p].source = n
        BY <2>2, <3>1, <3>2, Zenon DEF FailoverOnly, RebalanceOnly
      <3>4. QED
        BY <3>3, Zenon DEF Copies
    <2>5. QED
      BY <2>3, <2>4, Zenon
  <1>2. QED
    BY <1>1, OnlyInit, OnlyStep, PTL DEF Spec

=============================================================================
