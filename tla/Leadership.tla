------------------------------ MODULE Leadership ------------------------------
(***************************************************************************)
(* Which metadata process runs the coordinator loops: the etcd elector     *)
(* (internal/platform/etcd/leader), the supervisor that starts and stops   *)
(* the loops (internal/mds/coordinator/supervisor.go), and the part of     *)
(* cmd/mds/app.go that runs and stops them.  A process first prepares the  *)
(* database (Migration).                                                   *)
(*                                                                         *)
(* Each process has three threads: the elector's goroutine, the goroutine  *)
(* of application.Run, and the loops.  StartLeading and StopLeading change *)
(* the supervisor's fields under its mutex, in one step, and then wait     *)
(* outside the mutex.  etcd is external: a lease that is granted, kept     *)
(* alive, revoked or expired, and campaign keys in the order they were     *)
(* created.                                                                *)
(***************************************************************************)
EXTENDS Integers, FiniteSets, Migration

CONSTANTS
    MaxTerms,   \* bound: campaign keys that are ever created
    MaxFaults   \* bound: crashes, lost leases, etcd and server errors, shutdowns

ASSUME LeadershipAssumption == MaxTerms \in Nat /\ MaxFaults \in Nat

VARIABLES
    key,         \* etcd: the revision of a process's campaign key, or 0
    revision,    \* etcd: the last revision given to a campaign key
    lease,       \* etcd: whether the lease of a process's session is alive
    sessionDone, \* the process has noticed that its session is over
    elector,     \* where the elector's goroutine is
    term,        \* the term it read, or 0
    app,         \* where application.Run is
    ctxDone,     \* the context of application.Run is cancelled
    current,     \* the supervisor's cancel and done: a generation, or 0
    waiting,     \* the generations whose end the two goroutines wait for
    loops,       \* the state of each generation of loops in a process
    faults

etcd == <<key, revision, lease>>
vars == <<key, revision, lease, sessionDone, elector, term, app, ctxDone,
          current, waiting, loops, faults, versions, applied, root, boot>>

-----------------------------------------------------------------------------
\* A generation is the set of loops that one call of StartLeading starts.
Generations == 1..MaxTerms

Threads == {"elector", "app"}

ElectorStates == {"idle", "campaign", "elected", "starting", "joining", "leading",
                  "stopping", "resign", "close", "exited", "failed"}

AppStates == {"starting", "serving", "stopping", "draining", "returning", "exited"}

\* A generation is void if it was cancelled between its making and its start.
LoopStates == {"new", "made", "void", "running", "cancelled", "done"}

TypeOK ==
    /\ key \in [Processes -> 0..MaxTerms]
    /\ revision \in 0..MaxTerms
    /\ lease \in [Processes -> {"none", "live", "expired"}]
    /\ sessionDone \in [Processes -> BOOLEAN]
    /\ elector \in [Processes -> ElectorStates]
    /\ term \in [Processes -> 0..MaxTerms]
    /\ app \in [Processes -> AppStates]
    /\ ctxDone \in [Processes -> BOOLEAN]
    /\ current \in [Processes -> Generations \cup {0}]
    /\ waiting \in [Processes -> [Threads -> Generations \cup {0}]]
    /\ loops \in [Processes -> [Generations -> LoopStates]]
    /\ faults \in 0..MaxFaults
    /\ MigrationTypeOK

NoLoops == [g \in Generations |-> "new"]

NoWait == [t \in Threads |-> 0]

Init ==
    /\ key = [p \in Processes |-> 0]
    /\ revision = 0
    /\ lease = [p \in Processes |-> "none"]
    /\ sessionDone = [p \in Processes |-> FALSE]
    /\ elector = [p \in Processes |-> "idle"]
    /\ term = [p \in Processes |-> 0]
    /\ app = [p \in Processes |-> "starting"]
    /\ ctxDone = [p \in Processes |-> FALSE]
    /\ current = [p \in Processes |-> 0]
    /\ waiting = [p \in Processes |-> NoWait]
    /\ loops = [p \in Processes |-> NoLoops]
    /\ faults = 0
    /\ MigrationInit

-----------------------------------------------------------------------------
(* The supervisor. *)

Cancelled(s) ==
    CASE s = "made" -> "void" [] s = "running" -> "cancelled" [] OTHER -> s

\* Every generation's context is derived from the context of the run and of the
\* term, so that cancelling one of those reaches all that are left.
CancelAll(p) == [loops EXCEPT ![p] = [g \in Generations |-> Cancelled(@[g])]]

\* A thread has nothing to wait for, or the done channel it waits for is closed.
Joined(p, t) == waiting[p][t] # 0 => loops[p][waiting[p][t]] = "done"

\* The part of StartLeading under the mutex: a new generation takes the place of
\* the current one, which is cancelled and waited for.
StartLeading(p) ==
    \E g \in Generations :
        /\ loops[p][g] = "new"
        /\ \A h \in 1..(g - 1) : loops[p][h] # "new"
        /\ loops' = [loops EXCEPT ![p] = [h \in Generations |->
                        CASE h = g -> IF ctxDone[p] THEN "void" ELSE "made"
                          [] h = current[p] -> Cancelled(@[h])
                          [] OTHER -> @[h]]]
        /\ current' = [current EXCEPT ![p] = g]
        /\ waiting' = [waiting EXCEPT ![p] = [@ EXCEPT !["elector"] = current[p]]]

\* Mutant: StopLeading cancels the loops and does not wait for their end.
StopWithoutJoin(p, t) ==
    /\ loops' = CancelAll(p)
    /\ current' = [current EXCEPT ![p] = 0]
    /\ waiting' = [waiting EXCEPT ![p] = [@ EXCEPT ![t] = 0]]

\* The part of StopLeading under the mutex.  Whoever comes second finds nothing
\* to cancel and nothing to wait for.
StopLeading(p, t) ==
    /\ loops' = CancelAll(p)
    /\ current' = [current EXCEPT ![p] = 0]
    /\ waiting' = [waiting EXCEPT ![p] = [@ EXCEPT ![t] = current[p]]]

\* The loops of a cancelled generation have finished their pass and return.
LoopsEnd(p, g) ==
    /\ loops[p][g] = "cancelled"
    /\ loops' = [loops EXCEPT ![p] = [@ EXCEPT ![g] = "done"]]
    /\ UNCHANGED <<etcd, sessionDone, elector, term, app, ctxDone, current, waiting, faults>>

-----------------------------------------------------------------------------
(* The elector. *)

SessionOver(p) == ctxDone[p] \/ sessionDone[p]

ElectorAt(p, from, to) ==
    /\ app[p] \notin {"exited", "starting"}
    /\ elector[p] = from
    /\ elector' = [elector EXCEPT ![p] = to]

\* Mutant: Run does not look at the context before it makes a session.
NewSessionAlways(p) ==
    /\ ElectorAt(p, "idle", "campaign")
    /\ lease' = [lease EXCEPT ![p] = "live"]
    /\ sessionDone' = [sessionDone EXCEPT ![p] = FALSE]
    /\ term' = [term EXCEPT ![p] = 0]
    /\ UNCHANGED <<key, revision, app, ctxDone, current, waiting, loops, faults>>

\* The head of the loop in Run: a session, unless the context is cancelled.
NewSession(p) ==
    /\ ElectorAt(p, "idle", IF ctxDone[p] THEN "exited" ELSE "campaign")
    /\ lease' = [lease EXCEPT ![p] = IF ctxDone[p] THEN @ ELSE "live"]
    /\ sessionDone' = [sessionDone EXCEPT ![p] = FALSE]
    /\ term' = [term EXCEPT ![p] = 0]
    /\ UNCHANGED <<key, revision, app, ctxDone, current, waiting, loops, faults>>

\* Campaign puts a key that lives as long as the lease.
Campaign(p) ==
    /\ ElectorAt(p, "campaign", "campaign")
    /\ term[p] = 0
    /\ lease[p] = "live"
    /\ revision < MaxTerms
    /\ revision' = revision + 1
    /\ key' = [key EXCEPT ![p] = revision + 1]
    /\ term' = [term EXCEPT ![p] = revision + 1]
    /\ UNCHANGED <<lease, sessionDone, app, ctxDone, current, waiting, loops, faults>>

\* Campaign returns once no older key is left, whether or not its own still is.
Elected(p) ==
    /\ ElectorAt(p, "campaign", "elected")
    /\ term[p] # 0
    /\ \A q \in Processes : key[q] = 0 \/ key[q] >= term[p]
    /\ UNCHANGED <<etcd, sessionDone, term, app, ctxDone, current, waiting, loops, faults>>

\* The context of the session ends while Campaign waits; it takes its key back.
CampaignCancelled(p) ==
    /\ ElectorAt(p, "campaign", "close")
    /\ SessionOver(p)
    /\ key' = [key EXCEPT ![p] = 0]
    /\ UNCHANGED <<revision, lease, sessionDone, term, app, ctxDone, current, waiting, loops, faults>>

\* The lease is gone before the key is put: an error, unless it was noticed.
CampaignFails(p) ==
    /\ ElectorAt(p, "campaign", IF SessionOver(p) THEN "close" ELSE "failed")
    /\ term[p] = 0
    /\ lease[p] = "expired"
    /\ UNCHANGED <<etcd, sessionDone, term, app, ctxDone, current, waiting, loops, faults>>

\* Mutant: an empty answer is not an error, and stands for the term -1.
TermOfNoKey(p) ==
    LET keys == {key[q] : q \in Processes} \ {0} IN
    /\ ElectorAt(p, "elected", IF SessionOver(p) THEN "close" ELSE "starting")
    /\ term' = [term EXCEPT ![p] = IF keys = {} THEN -1 ELSE CHOOSE k \in keys : \A j \in keys : k <= j]
    /\ UNCHANGED <<etcd, sessionDone, app, ctxDone, current, waiting, loops, faults>>

\* currentTerm reads the oldest campaign key, which need not be the process's
\* own.  Without a key, or with the context cancelled, it is an error.
currentTerm(p) ==
    LET keys == {key[q] : q \in Processes} \ {0} IN
    /\ IF keys = {} \/ SessionOver(p)
       THEN /\ ElectorAt(p, "elected", IF SessionOver(p) THEN "close" ELSE "failed")
            /\ UNCHANGED term
       ELSE /\ ElectorAt(p, "elected", "starting")
            /\ term' = [term EXCEPT ![p] = CHOOSE k \in keys : \A j \in keys : k <= j]
    /\ UNCHANGED <<etcd, sessionDone, app, ctxDone, current, waiting, loops, faults>>

\* OnStartedLeading, up to the point where StartLeading waits.
OnStartedLeading(p) ==
    /\ ElectorAt(p, "starting", "joining")
    /\ StartLeading(p)
    /\ UNCHANGED <<etcd, sessionDone, term, app, ctxDone, faults>>

\* The rest of StartLeading: the loops start, with a context that may have been
\* cancelled meanwhile.
LoopsStart(p) ==
    /\ ElectorAt(p, "joining", "leading")
    /\ Joined(p, "elector")
    /\ loops' = [loops EXCEPT ![p] = [g \in Generations |->
                    CASE @[g] = "made" -> "running" [] @[g] = "void" -> "cancelled" [] OTHER -> @[g]]]
    /\ waiting' = [waiting EXCEPT ![p] = [@ EXCEPT !["elector"] = 0]]
    /\ UNCHANGED <<etcd, sessionDone, term, app, ctxDone, current, faults>>

\* The session or the context is over: cancel and OnStoppedLeading.
OnStoppedLeading(p) ==
    /\ ElectorAt(p, "leading", "stopping")
    /\ SessionOver(p)
    /\ StopLeading(p, "elector")
    /\ UNCHANGED <<etcd, sessionDone, term, app, ctxDone, faults>>

\* Resign, once OnStoppedLeading has returned, deletes the key.  An error is
\* ignored, as the session or the context is over.
Resign(p) ==
    /\ ElectorAt(p, "stopping", "close")
    /\ Joined(p, "elector")
    /\ waiting' = [waiting EXCEPT ![p] = [@ EXCEPT !["elector"] = 0]]
    /\ \/ key' = [key EXCEPT ![p] = 0] /\ UNCHANGED faults
       \/ faults < MaxFaults /\ faults' = faults + 1 /\ UNCHANGED key
    /\ UNCHANGED <<revision, lease, sessionDone, term, app, ctxDone, current, loops>>

\* Mutant: the elector returns after the first session.
CloseEndsRun(p) ==
    /\ ElectorAt(p, "close", "exited")
    /\ key' = [key EXCEPT ![p] = 0]
    /\ lease' = [lease EXCEPT ![p] = "none"]
    /\ UNCHANGED <<revision, sessionDone, term, app, ctxDone, current, waiting, loops, faults>>

\* session.Close revokes the lease.  With the context cancelled nothing is sent;
\* otherwise a lease that is not there any more is an error that ends the run.
Close(p) ==
    /\ IF ctxDone[p]
       THEN ElectorAt(p, "close", "idle") /\ UNCHANGED <<key, lease>>
       ELSE /\ ElectorAt(p, "close", IF lease[p] = "expired" THEN "failed" ELSE "idle")
            /\ key' = [key EXCEPT ![p] = 0]
            /\ lease' = [lease EXCEPT ![p] = "none"]
    /\ UNCHANGED <<revision, sessionDone, term, app, ctxDone, current, waiting, loops, faults>>

\* etcd cannot be reached when a session is made: the run ends with an error.
NewSessionFails(p) ==
    /\ faults < MaxFaults
    /\ ElectorAt(p, "idle", IF ctxDone[p] THEN "exited" ELSE "failed")
    /\ faults' = faults + 1
    /\ UNCHANGED <<etcd, sessionDone, term, app, ctxDone, current, waiting, loops>>

-----------------------------------------------------------------------------
(* The lease in etcd, and the session in the process. *)

\* The lease expires although the process is there: it is slow or cut off.
LeaseExpires(p) ==
    /\ faults < MaxFaults
    /\ app[p] # "exited"
    /\ lease[p] = "live"
    /\ lease' = [lease EXCEPT ![p] = "expired"]
    /\ key' = [key EXCEPT ![p] = 0]
    /\ faults' = faults + 1
    /\ UNCHANGED <<revision, sessionDone, elector, term, app, ctxDone, current, waiting, loops>>

\* The process notices that its lease has expired.
SessionExpires(p) ==
    /\ lease[p] = "expired"
    /\ ~ sessionDone[p]
    /\ sessionDone' = [sessionDone EXCEPT ![p] = TRUE]
    /\ UNCHANGED <<etcd, elector, term, app, ctxDone, current, waiting, loops, faults>>

\* The answers to the process's keep-alives are lost: it takes its session for
\* over while the lease is still there.
SessionEnds(p) ==
    /\ faults < MaxFaults
    /\ lease[p] = "live"
    /\ ~ sessionDone[p]
    /\ app[p] # "exited"
    /\ sessionDone' = [sessionDone EXCEPT ![p] = TRUE]
    /\ faults' = faults + 1
    /\ UNCHANGED <<etcd, elector, term, app, ctxDone, current, waiting, loops>>

\* Nobody keeps the lease of a process that has gone alive.
LeaseLapses(p) ==
    /\ app[p] = "exited"
    /\ lease[p] # "none"
    /\ lease' = [lease EXCEPT ![p] = "none"]
    /\ key' = [key EXCEPT ![p] = 0]
    /\ UNCHANGED <<revision, sessionDone, elector, term, app, ctxDone, current, waiting, loops, faults>>

-----------------------------------------------------------------------------
(* application.Run. *)

\* The process is asked to stop: the context, and with it every context derived
\* from it, is cancelled.
Shutdown(p) ==
    /\ faults < MaxFaults
    /\ app[p] # "exited"
    /\ ~ ctxDone[p]
    /\ ctxDone' = [ctxDone EXCEPT ![p] = TRUE]
    /\ loops' = CancelAll(p)
    /\ faults' = faults + 1
    /\ UNCHANGED <<etcd, sessionDone, elector, term, app, current, waiting>>

\* The case of ctx.Done: stopCoordinator, concurrently with the elector.
RunShutsDown(p) ==
    /\ app[p] = "serving"
    /\ ctxDone[p]
    /\ app' = [app EXCEPT ![p] = "stopping"]
    /\ StopLeading(p, "app")
    /\ UNCHANGED <<etcd, sessionDone, elector, term, ctxDone, faults>>

\* stopCoordinator has returned; the servers are shut down.
ServersStop(p) ==
    /\ app[p] = "stopping"
    /\ Joined(p, "app")
    /\ app' = [app EXCEPT ![p] = "draining"]
    /\ waiting' = [waiting EXCEPT ![p] = [@ EXCEPT !["app"] = 0]]
    /\ UNCHANGED <<etcd, sessionDone, elector, term, ctxDone, current, loops, faults>>

\* The case of an error: stopCoordinator, and Run returns.  The context is not
\* cancelled, and the other goroutines go on meanwhile.
RunFails(p) ==
    /\ app[p] \in {"serving", "draining"}
    /\ app' = [app EXCEPT ![p] = "returning"]
    /\ StopLeading(p, "app")
    /\ UNCHANGED <<etcd, sessionDone, elector, term, ctxDone>>

\* The elector has reported its error.
ElectorFailed(p) ==
    /\ elector[p] = "failed"
    /\ RunFails(p)
    /\ UNCHANGED faults

\* A server, the consumers or the warm-up report one.
ServerFails(p) ==
    /\ faults < MaxFaults
    /\ RunFails(p)
    /\ faults' = faults + 1

\* The process is gone, and all its goroutines with it.
Gone(p) ==
    /\ app' = [app EXCEPT ![p] = "exited"]
    /\ elector' = [elector EXCEPT ![p] = "idle"]
    /\ term' = [term EXCEPT ![p] = 0]
    /\ sessionDone' = [sessionDone EXCEPT ![p] = FALSE]
    /\ ctxDone' = [ctxDone EXCEPT ![p] = FALSE]
    /\ current' = [current EXCEPT ![p] = 0]
    /\ waiting' = [waiting EXCEPT ![p] = NoWait]
    /\ loops' = [loops EXCEPT ![p] = NoLoops]
    /\ Rollback(p)
    /\ UNCHANGED etcd

\* Run returns: every goroutine it counts has reported, or one with an error.
RunReturns(p) ==
    /\ \/ app[p] = "draining" /\ elector[p] = "exited"
       \/ app[p] = "returning" /\ Joined(p, "app")
    /\ Gone(p)
    /\ UNCHANGED faults

Crash(p) ==
    /\ faults < MaxFaults
    /\ app[p] # "exited"
    /\ Gone(p)
    /\ faults' = faults + 1

Restart(p) ==
    /\ app[p] = "exited"
    /\ lease[p] = "none"
    /\ app' = [app EXCEPT ![p] = "starting"]
    /\ BootTo(p, AtFile(1))
    /\ UNCHANGED <<etcd, sessionDone, elector, term, ctxDone, current, waiting, loops, faults, database>>

-----------------------------------------------------------------------------
(* newApplication. *)

PrepareDatabase(p) ==
    /\ app[p] = "starting"
    /\ BootStep(p)
    /\ UNCHANGED <<etcd, sessionDone, elector, term, app, ctxDone, current, waiting, loops, faults>>

\* The rest of newApplication, and Run begins.
StartServing(p) ==
    /\ app[p] = "starting"
    /\ boot[p].pc = "build"
    /\ app' = [app EXCEPT ![p] = "serving"]
    /\ BootTo(p, Over)
    /\ UNCHANGED <<etcd, sessionDone, elector, term, ctxDone, current, waiting, loops, faults, database>>

\* A step of newApplication returns an error: what is open is closed, and the
\* process ends.  A call with a cancelled context is one reason.
StartFails(p) ==
    /\ app[p] = "starting"
    /\ \/ ctxDone[p] /\ UNCHANGED faults
       \/ faults < MaxFaults /\ faults' = faults + 1
    /\ Gone(p)

-----------------------------------------------------------------------------
ElectorStep(p) ==
    \/ NewSession(p)
    \/ Campaign(p)
    \/ Elected(p)
    \/ CampaignCancelled(p)
    \/ CampaignFails(p)
    \/ currentTerm(p)
    \/ OnStartedLeading(p)
    \/ LoopsStart(p)
    \/ OnStoppedLeading(p)
    \/ Resign(p)
    \/ Close(p)

StartStep(p) ==
    \/ PrepareDatabase(p)
    \/ StartServing(p)

StopStep(p) ==
    \/ RunShutsDown(p)
    \/ ServersStop(p)
    \/ ElectorFailed(p)

Fault(p) ==
    \/ NewSessionFails(p)
    \/ LeaseExpires(p)
    \/ SessionEnds(p)
    \/ Shutdown(p)
    \/ ServerFails(p)

Next ==
    \E p \in Processes :
        \/ /\ \/ ElectorStep(p)
              \/ StopStep(p)
              \/ \E g \in Generations : LoopsEnd(p, g)
              \/ SessionExpires(p)
              \/ LeaseLapses(p)
              \/ Fault(p)
           /\ UNCHANGED migrationVars
        \/ StartStep(p)
        \/ StartFails(p)
        \/ RunReturns(p)
        \/ Crash(p)
        \/ Restart(p)

\* A process that starts goes on, the goroutines run, a pass of the loops ends, and leases and sessions that
\* are not kept alive end.  Nobody promises faults, or that a process is started
\* again.
Fairness ==
    \A p \in Processes :
        /\ WF_vars(StartStep(p))
        /\ WF_vars(ElectorStep(p) /\ UNCHANGED migrationVars)
        /\ WF_vars(StopStep(p) /\ UNCHANGED migrationVars)
        /\ WF_vars(RunReturns(p))
        /\ \A g \in Generations : WF_vars(LoopsEnd(p, g) /\ UNCHANGED migrationVars)
        /\ WF_vars(SessionExpires(p) /\ UNCHANGED migrationVars)
        /\ WF_vars(LeaseLapses(p) /\ UNCHANGED migrationVars)

Spec == Init /\ [][Next]_vars /\ Fairness

-----------------------------------------------------------------------------
\* The generations of loops that may still be doing something.
Working(p) == {g \in Generations : loops[p][g] \in {"running", "cancelled"}}

\* The loops of two processes overlap only if one of the two has lost its lease
\* without having stopped its loops yet, or is on its way out.  A process that
\* serves and holds its lease is alone, as the elector resigns only after the
\* loops have returned.
LoopsOverlapOnlyAfterLoss ==
    \A p, q \in Processes :
        p # q /\ Working(p) # {} /\ Working(q) # {} =>
            \E r \in {p, q} : lease[r] = "expired" \/ app[r] # "serving"

\* A process that serves runs the loops of one generation at a time: those of
\* the next term start after the pass of the last one has ended.
OneGeneration ==
    \A p \in Processes : app[p] = "serving" => Cardinality(Working(p)) <= 1

\* A process that has started serving has a database with the root inode and with
\* every migration, applied once and in order, also when several processes
\* started at once or went away in the middle of a migration.
ServesPrepared ==
    \A p \in Processes : app[p] \notin {"starting", "exited"} => Prepared

\* A process that starts comes to serve or ends: it does not wait for ever for the
\* migration of another one that is gone.
StartEnds == \A p \in Processes : app[p] = "starting" ~> app[p] # "starting"

\* A process that is asked to stop comes to its end: application.Run and the
\* elector do not wait for each other, or for loops that nobody cancels.
ShutdownEnds ==
    \A p \in Processes : ctxDone[p] ~> app[p] = "exited"

\* As long as a process goes on serving, somebody comes to run the loops and
\* goes on doing so.
SomeoneLeads ==
    <>[](\E p \in Processes : app[p] = "serving" /\ ~ ctxDone[p])
        => <>[](\E p \in Processes, g \in Generations : loops[p][g] = "running")
=============================================================================
