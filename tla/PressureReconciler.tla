------------------------- MODULE PressureReconciler -------------------------
(***************************************************************************)
(* The two scaling loops of the runner manager process and the HTTP flush  *)
(* handler, which share one lock: manager/pressure_reconciler.py, with the *)
(* process around them (cli.py, thread_manager.py, http_server.py).        *)
(*                                                                         *)
(* The fleet is two counters: the servers that are up, and the servers     *)
(* whose deletion was accepted but that the cloud still lists.  What a     *)
(* RunnerManager call may do to them is what manager/runner_manager.py     *)
(* allows; which runner it picks is the subject of module RunnerManager.   *)
(***************************************************************************)
EXTENDS Integers

CONSTANTS
    Pressures,      \* pressure values the planner may stream
    MinPressure,    \* PressureReconcilerConfig.min_pressure
    MaxPressure,    \* PressureReconcilerConfig.max_pressure, 0 for no cap
    Planner,        \* whether a planner client is configured when a process
                    \* starts: TRUE, FALSE, or either
    NoPressure,     \* None: no pressure was seen yet
    InitialFleet,   \* bound: servers a previous process may have left
    MaxGoing,       \* bound: deletions the cloud has accepted and not finished
    MaxFaults       \* bound: faults of the cloud or GitHub, and operator calls

ASSUME ConfigAssumption ==
    /\ Pressures \subseteq Int
    /\ MinPressure \in Int
    /\ MaxPressure \in Int
    /\ Planner \subseteq BOOLEAN /\ Planner # {}
    /\ NoPressure \notin Int

ASSUME BoundAssumption == {InitialFleet, MaxGoing, MaxFaults} \subseteq Nat

VARIABLES
    (* memory of the process *)
    proc,           \* "up", "joining" (in the signal handler) or "down"
    pc,             \* where each thread is
    lock,           \* holder of the shared lock
    stop,           \* the _stop event
    lastPressure,   \* _last_pressure
    runnerCount,    \* _runner_count
    createPaused,   \* _create_paused
    (* frames of the threads *)
    arg,            \* pressure a loop was called with
    next,           \* where the create loop goes after its handler
    cur,            \* current_total
    pending,        \* creations of the call in flight without an outcome
    made,           \* creations of the call in flight that returned an id
    (* the cloud *)
    up,             \* servers listed and not being deleted
    going,          \* servers listed whose deletion was accepted
    limbo,          \* create requests given up that may still yield a server
    faults,         \* failures left
    (* history, read by properties only *)
    unreported,     \* servers since the last sync that no create call reported
    zeroCreate,     \* a create call returned no id since the last sync
    lateCalls       \* critical sections the loops entered after stop was set

memory == <<stop, lastPressure, runnerCount, createPaused>>
frames == <<arg, next, cur, pending, made>>
cloud  == <<up, going, limbo, faults>>
history == <<unreported, zeroCreate, lateCalls>>
vars == <<proc, pc, lock, memory, frames, cloud, history>>

Free == "free"
Loops == {"create", "reconcile"}
Sections == Loops \cup {"sync"}   \* what the loops do with the lock held
Threads == Loops \cup {"http"}

Larger(a, b)  == IF a >= b THEN a ELSE b
Smaller(a, b) == IF a <= b THEN a ELSE b

(* Mutant: the cap is forgotten.                                           *)
DesiredUncapped(p) == Larger(Larger(p, MinPressure), 0)

(* _desired_total_from_pressure *)
Desired(p) ==
    LET floor == Larger(Larger(p, MinPressure), 0)
    IN  IF MaxPressure > 0 THEN Smaller(floor, MaxPressure) ELSE floor

(* The pressure the create loop falls back to when its stream breaks. *)
Fallback ==
    Larger(IF lastPressure = NoPressure THEN 0 ELSE lastPressure, MinPressure)

Listed == up + going

-----------------------------------------------------------------------------
(* The process starts with empty memory and with the servers it finds.     *)

NoCalls == [l \in Loops |-> 0]
NoLateCalls == [s \in Sections |-> 0]

FreshMemory ==
    /\ lock = Free
    /\ stop = FALSE
    /\ lastPressure = NoPressure
    /\ runnerCount = 0
    /\ createPaused = FALSE
    /\ arg = NoCalls
    /\ next = "stream"
    /\ cur = NoCalls
    /\ pending = NoCalls
    /\ made = NoCalls
    /\ zeroCreate = FALSE
    /\ lateCalls = NoLateCalls

LoseMemory ==
    /\ lock' = Free
    /\ stop' = FALSE
    /\ lastPressure' = NoPressure
    /\ runnerCount' = 0
    /\ createPaused' = FALSE
    /\ arg' = NoCalls
    /\ next' = "stream"
    /\ cur' = NoCalls
    /\ pending' = NoCalls
    /\ made' = NoCalls
    /\ zeroCreate' = FALSE
    /\ lateCalls' = NoLateCalls

FirstLabels == [create |-> "start", reconcile |-> "wait", http |-> "idle"]
NoLabels == [t \in Threads |-> "off"]

Init ==
    /\ proc = "up"
    /\ pc = FirstLabels
    /\ FreshMemory
    /\ up \in 0..InitialFleet
    /\ going = 0
    /\ limbo = 0
    /\ faults = MaxFaults
    /\ unreported = 0

Goto(t, label) == pc' = [pc EXCEPT ![t] = label]

Fault == faults > 0 /\ faults' = faults - 1

(* Mutant: the critical section is entered without waiting.                *)
AcquireAtOnce(t) == lock' = t

Acquire(t) == lock = Free /\ lock' = t

(* The cloud accepts n deletions; those beyond the bound finish at once.   *)
Delete(n) ==
    /\ up' = up - n
    /\ going' = Smaller(going + n, MaxGoing)

(* A loop enters critical section s; the history notes if stop is set.     *)
NoteEntry(s) ==
    lateCalls' = [lateCalls EXCEPT ![s] = IF stop THEN @ + 1 ELSE @]

(* Mutant: a way out of the critical section keeps the lock.               *)
ReturnLocked(l, label) ==
    /\ Goto(l, label)
    /\ lock' = lock
    /\ arg' = [arg EXCEPT ![l] = 0]
    /\ cur' = [cur EXCEPT ![l] = 0]
    /\ made' = [made EXCEPT ![l] = 0]

(* The handler of a loop returns: its locals are gone.                     *)
Return(l, label) ==
    /\ Goto(l, label)
    /\ lock' = Free
    /\ arg' = [arg EXCEPT ![l] = 0]
    /\ cur' = [cur EXCEPT ![l] = 0]
    /\ made' = [made EXCEPT ![l] = 0]

(* An exception leaves the loop: the with statement releases the lock, the *)
(* thread ends and its error is queued for the main thread.                *)
Dies(l) == Return(l, "dead")

-----------------------------------------------------------------------------
(* RunnerManager.create_runners, called by either loop with the lock held. *)

CallCreate(l, current, num) ==
    /\ cur' = [cur EXCEPT ![l] = current]
    /\ pending' = [pending EXCEPT ![l] = num]
    /\ made' = [made EXCEPT ![l] = 0]

(* One creation succeeds, or it fails: a failed one may still leave a      *)
(* create request behind in the cloud.                                     *)
Spawn(l) ==
    /\ pc[l] = "creating" /\ pending[l] > 0
    /\ pending' = [pending EXCEPT ![l] = @ - 1]
    /\ \/ /\ up' = up + 1
          /\ made' = [made EXCEPT ![l] = @ + 1]
          /\ UNCHANGED <<limbo, faults>>
       \/ /\ Fault
          /\ limbo' = limbo + 1
          /\ UNCHANGED <<up, made>>
    /\ UNCHANGED <<proc, pc, lock, memory, arg, next, cur, going, history>>

(* An error that _spawn_runners does not catch ends the call: what it made *)
(* is not reported, what it still had to make may or may not appear.       *)
CreateRaises(l) ==
    /\ pc[l] = "creating"
    /\ Fault
    /\ Dies(l)
    /\ unreported' = unreported + made[l]
    /\ limbo' = limbo + pending[l]
    /\ pending' = [pending EXCEPT ![l] = 0]
    /\ UNCHANGED <<proc, memory, next, up, going, zeroCreate, lateCalls>>

(* Mutant: the ids are not added to the count.                             *)
CountForgotten(l, base) ==
    /\ runnerCount' = base
    /\ createPaused' = (createPaused \/ made[l] = 0)
    /\ zeroCreate' = (zeroCreate \/ made[l] = 0)

(* Mutant: a call without ids does not pause the creations.                *)
CountUnpaused(l, base) ==
    /\ runnerCount' = base + made[l]
    /\ createPaused' = createPaused
    /\ zeroCreate' = (zeroCreate \/ made[l] = 0)

(* The ids are counted and the creations are paused if there is none.      *)
CountCreated(l, base) ==
    /\ runnerCount' = base + made[l]
    /\ createPaused' = (createPaused \/ made[l] = 0)
    /\ zeroCreate' = (zeroCreate \/ made[l] = 0)

-----------------------------------------------------------------------------
(* The create loop: start_create_loop and _handle_create_runners.          *)

(* The count is synced with the servers that exist before anything else;   *)
(* without a planner the loop then serves min_pressure once.               *)
InitialSync ==
    /\ pc["create"] = "start"
    /\ lock = Free
    /\ runnerCount' = Listed
    /\ unreported' = 0
    /\ \/ /\ TRUE \in Planner
          /\ Goto("create", "stream")
          /\ UNCHANGED <<arg, next, lastPressure>>
       \/ /\ FALSE \in Planner
          /\ Goto("create", "called")
          /\ arg' = [arg EXCEPT !["create"] = MinPressure]
          /\ next' = "idle"
          /\ lastPressure' = MinPressure
    /\ NoteEntry("sync")
    /\ UNCHANGED <<proc, lock, stop, createPaused, cur, pending, made, cloud,
                   zeroCreate>>

InitialSyncRaises ==
    /\ pc["create"] = "start"
    /\ lock = Free
    /\ Fault
    /\ Goto("create", "dead")
    /\ NoteEntry("sync")
    /\ UNCHANGED <<proc, lock, memory, frames, up, going, limbo, unreported,
                   zeroCreate>>

(* Mutant: stop is not looked at.                                          *)
CallHandlerAlways(p, after) ==
    /\ Goto("create", "called")
    /\ arg' = [arg EXCEPT !["create"] = p]
    /\ next' = after

(* Every way out of the stream looks at stop before it calls the handler.  *)
CallHandler(p, after) ==
    IF stop
      THEN Goto("create", "done") /\ UNCHANGED <<arg, next>>
      ELSE /\ Goto("create", "called")
           /\ arg' = [arg EXCEPT !["create"] = p]
           /\ next' = after

StreamUpdate ==
    /\ pc["create"] = "stream"
    /\ \E p \in Pressures : CallHandler(p, "stream")
    /\ UNCHANGED <<proc, lock, memory, cur, pending, made, cloud, history>>

StreamError ==
    /\ pc["create"] = "stream"
    /\ CallHandler(Fallback, "backoff")
    /\ UNCHANGED <<proc, lock, memory, cur, pending, made, cloud, history>>

(* A stream that ends is opened again at once unless stop is set; the wait *)
(* after an error ends early when stop is set.                             *)
StreamEnds ==
    /\ pc["create"] = "stream" /\ stop
    /\ Goto("create", "done")
    /\ UNCHANGED <<proc, lock, memory, frames, cloud, history>>

BackoffEnds ==
    /\ pc["create"] = "backoff"
    /\ Goto("create", IF stop THEN "done" ELSE "stream")
    /\ UNCHANGED <<proc, lock, memory, frames, cloud, history>>

IdleEnds ==
    /\ pc["create"] = "idle" /\ stop
    /\ Goto("create", "done")
    /\ UNCHANGED <<proc, lock, memory, frames, cloud, history>>

(* The handler stores the pressure before it waits for the lock.           *)
StorePressure ==
    /\ pc["create"] = "called"
    /\ lastPressure' = arg["create"]
    /\ Goto("create", "acquire")
    /\ UNCHANGED <<proc, lock, stop, runnerCount, createPaused, frames, cloud,
                   history>>

(* Mutant: a surplus of runners is not cut off at zero.                    *)
MissingSigned(p) == Desired(p) - runnerCount

(* The runners to create for pressure p.                                   *)
Missing(p) == Larger(Desired(p) - runnerCount, 0)

(* With the lock: nothing to do, paused, or a create call for the missing. *)
EnterCreate ==
    /\ pc["create"] = "acquire"
    /\ LET toCreate == Missing(arg["create"])
       IN  IF toCreate = 0 \/ createPaused
             THEN /\ lock = Free
                  /\ Return("create", next)
                  /\ UNCHANGED pending
             ELSE /\ Acquire("create")
                  /\ Goto("create", "creating")
                  /\ CallCreate("create", runnerCount, toCreate)
                  /\ UNCHANGED arg
    /\ NoteEntry("create")
    /\ UNCHANGED <<proc, memory, next, cloud, unreported, zeroCreate>>

CreateReturns ==
    /\ pc["create"] = "creating" /\ pending["create"] = 0
    /\ CountCreated("create", cur["create"])
    /\ Return("create", next)
    /\ UNCHANGED <<proc, stop, lastPressure, next, pending, cloud,
                   unreported, lateCalls>>

CreateLoop ==
    \/ InitialSync \/ InitialSyncRaises
    \/ StreamUpdate \/ StreamError \/ StreamEnds \/ BackoffEnds \/ IdleEnds
    \/ StorePressure \/ EnterCreate \/ CreateReturns
    \/ Spawn("create") \/ CreateRaises("create")

-----------------------------------------------------------------------------
(* The reconcile loop: start_reconcile_loop and _handle_timer_reconcile.   *)

(* The pressure is read here, before the handler waits for the lock.       *)
Tick ==
    /\ pc["reconcile"] = "wait" /\ ~stop
    /\ lastPressure # NoPressure
    /\ arg' = [arg EXCEPT !["reconcile"] = lastPressure]
    /\ Goto("reconcile", "acquire")
    /\ UNCHANGED <<proc, lock, memory, next, cur, pending, made, cloud, history>>

ReconcileStops ==
    /\ pc["reconcile"] = "wait" /\ stop
    /\ Goto("reconcile", "done")
    /\ UNCHANGED <<proc, lock, memory, frames, cloud, history>>

EnterReconcile ==
    /\ pc["reconcile"] = "acquire"
    /\ Acquire("reconcile")
    /\ Goto("reconcile", "cleanup")
    /\ NoteEntry("reconcile")
    /\ UNCHANGED <<proc, memory, frames, cloud, unreported, zeroCreate>>

(* cleanup() deletes the servers of runners that are gone or broken; each  *)
(* such runner counts as a fault.                                          *)
Cleanup ==
    /\ pc["reconcile"] = "cleanup"
    /\ \E n \in 0..Smaller(up, faults) :
          /\ Delete(n)
          /\ faults' = faults - n
    /\ Goto("reconcile", "sync")
    /\ UNCHANGED <<proc, lock, memory, frames, limbo, history>>

(* Mutant: the sync leaves the creations paused.                           *)
CountPaused ==
    /\ runnerCount' = Listed
    /\ createPaused' = createPaused
    /\ unreported' = 0
    /\ zeroCreate' = FALSE

(* The count is set to what the cloud lists and creations are unpaused.    *)
CountFleet ==
    /\ runnerCount' = Listed
    /\ createPaused' = FALSE
    /\ unreported' = 0
    /\ zeroCreate' = FALSE

(* After the sync the loop scales up, scales down, or has nothing to do.   *)
Sync ==
    /\ pc["reconcile"] = "sync"
    /\ CountFleet
    /\ LET desired == Desired(arg["reconcile"])
       IN \/ /\ Listed < desired
             /\ CallCreate("reconcile", Listed, desired - Listed)
             /\ Goto("reconcile", "creating")
             /\ UNCHANGED <<lock, arg>>
          \/ /\ Listed > desired
             /\ cur' = [cur EXCEPT !["reconcile"] = Listed]
             /\ Goto("reconcile", "deleting")
             /\ UNCHANGED <<lock, arg, pending, made>>
          \/ /\ Listed = desired
             /\ Return("reconcile", "wait")
             /\ UNCHANGED pending
    /\ UNCHANGED <<proc, stop, lastPressure, next, cloud, lateCalls>>

ReconcileCreateReturns ==
    /\ pc["reconcile"] = "creating" /\ pending["reconcile"] = 0
    /\ CountCreated("reconcile", runnerCount)
    /\ Return("reconcile", "wait")
    /\ UNCHANGED <<proc, stop, lastPressure, next, pending, cloud,
                   unreported, lateCalls>>

(* soft_delete_runners: servers that are going already may be deleted once *)
(* more and are part of the result; beyond those the surplus is deleted,   *)
(* or, with busy runners, broken ones or errors, some other number.        *)
SoftDelete ==
    /\ pc["reconcile"] = "deleting"
    /\ \E again \in 0..going, n \in 0..up :
          LET surplus == cur["reconcile"] - Desired(arg["reconcile"]) - going
          IN  /\ \/ /\ n = Smaller(Larger(surplus, 0), up)
                    /\ UNCHANGED faults
                 \/ Fault
              /\ Delete(n)
              /\ runnerCount' = Larger(cur["reconcile"] - (again + n), 0)
    /\ Return("reconcile", "wait")
    /\ UNCHANGED <<proc, stop, lastPressure, createPaused, next, pending, limbo,
                   history>>

ReconcileRaises ==
    /\ pc["reconcile"] \in {"cleanup", "sync", "deleting"}
    /\ Fault
    /\ Dies("reconcile")
    /\ \E n \in 0..up :
          /\ n > 0 => pc["reconcile"] # "sync"
          /\ Delete(n)
    /\ UNCHANGED <<proc, memory, next, pending, limbo, history>>

ReconcileLoop ==
    \/ Tick \/ ReconcileStops \/ EnterReconcile \/ Cleanup \/ Sync
    \/ ReconcileCreateReturns \/ SoftDelete \/ ReconcileRaises
    \/ Spawn("reconcile") \/ CreateRaises("reconcile")

-----------------------------------------------------------------------------
(* POST /runner/flush: deletes servers under the lock and leaves the count *)
(* of the reconciler as it is.                                             *)

FlushRequest ==
    /\ pc["http"] = "idle"
    /\ Fault
    /\ Goto("http", "acquire")
    /\ UNCHANGED <<proc, lock, memory, frames, up, going, limbo, history>>

EnterFlush ==
    /\ pc["http"] = "acquire"
    /\ Acquire("http")
    /\ Goto("http", "flushing")
    /\ UNCHANGED <<proc, memory, frames, cloud, history>>

Flush ==
    /\ pc["http"] = "flushing"
    /\ \E n \in 0..up : Delete(n)
    /\ lock' = Free
    /\ Goto("http", "idle")
    /\ UNCHANGED <<proc, memory, frames, limbo, faults, history>>

HttpThread == FlushRequest \/ EnterFlush \/ Flush

-----------------------------------------------------------------------------
(* The process: SIGTERM sets stop and joins the threads for a bounded time,*)
(* an error queued by a thread ends the process, systemd or the charm      *)
(* starts it again.  A process that ends loses its memory; a create call   *)
(* in flight leaves servers nobody counted and requests nobody waits for.  *)

Sigterm ==
    /\ proc = "up"
    /\ Fault
    /\ proc' = "joining"
    /\ stop' = TRUE
    /\ UNCHANGED <<pc, lock, lastPressure, runnerCount, createPaused, frames,
                   up, going, limbo, history>>

Exit ==
    /\ proc' = "down"
    /\ pc' = NoLabels
    /\ limbo' = limbo + pending["create"] + pending["reconcile"]
    /\ unreported' = unreported + made["create"] + made["reconcile"]
    /\ LoseMemory
    /\ UNCHANGED <<up, going, faults>>

(* Each join gives up after 60 seconds, whatever the thread is doing.      *)
ExitAfterJoin == proc = "joining" /\ Exit

ExitOnError == proc = "up" /\ (\E l \in Loops : pc[l] = "dead") /\ Exit

Restart ==
    /\ proc = "down"
    /\ proc' = "up"
    /\ pc' = FirstLabels
    /\ UNCHANGED <<lock, memory, frames, cloud, history>>

-----------------------------------------------------------------------------
(* The cloud and its operator.                                             *)

DeletionCompletes ==
    /\ going > 0
    /\ going' = going - 1
    /\ UNCHANGED <<proc, pc, lock, memory, frames, up, limbo, faults, history>>

ServerVanishes ==
    /\ up > 0
    /\ Fault
    /\ up' = up - 1
    /\ UNCHANGED <<proc, pc, lock, memory, frames, going, limbo, history>>

(* A create request nobody waits for yields a server, or comes to nothing. *)
LateServer ==
    /\ limbo > 0
    /\ limbo' = limbo - 1
    /\ up' = up + 1
    /\ unreported' = unreported + 1
    /\ UNCHANGED <<proc, pc, lock, memory, frames, going, faults, zeroCreate,
                   lateCalls>>

RequestLapses ==
    /\ limbo > 0
    /\ limbo' = limbo - 1
    /\ UNCHANGED <<proc, pc, lock, memory, frames, up, going, faults, history>>

Environment ==
    \/ DeletionCompletes \/ ServerVanishes \/ LateServer \/ RequestLapses

-----------------------------------------------------------------------------
Next ==
    \/ CreateLoop \/ ReconcileLoop \/ HttpThread
    \/ Sigterm \/ ExitAfterJoin \/ ExitOnError \/ Restart
    \/ Environment

(* The threads run and the calls they make return; the lock, free again    *)
(* after every call, is eventually had by a thread that keeps waiting for  *)
(* it; the cloud settles.  Nothing makes the planner stream, a signal      *)
(* arrive or a failure happen.                                             *)
Fairness ==
    /\ \A l \in Loops : WF_vars(Spawn(l))
    /\ WF_vars(InitialSync) /\ SF_vars(EnterCreate)
    /\ WF_vars(BackoffEnds \/ IdleEnds \/ StorePressure \/ CreateReturns)
    /\ WF_vars(Tick \/ ReconcileStops \/ Cleanup \/ Sync
               \/ ReconcileCreateReturns \/ SoftDelete)
    /\ SF_vars(EnterReconcile)
    /\ SF_vars(EnterFlush) /\ WF_vars(Flush)
    /\ WF_vars(ExitAfterJoin) /\ WF_vars(ExitOnError) /\ WF_vars(Restart)
    /\ WF_vars(DeletionCompletes) /\ WF_vars(LateServer \/ RequestLapses)

Spec == Init /\ [][Next]_vars
FairSpec == Spec /\ Fairness

-----------------------------------------------------------------------------
(* Type invariant of the reconciler, its threads and the fleet.            *)
CreateLabels == {"start", "stream", "backoff", "idle", "called", "acquire",
                 "creating", "done", "dead", "off"}
ReconcileLabels == {"wait", "acquire", "cleanup", "sync", "creating",
                    "deleting", "done", "dead", "off"}
HttpLabels == {"idle", "acquire", "flushing", "off"}

TypeOK ==
    /\ proc \in {"up", "joining", "down"}
    /\ pc \in [Threads -> CreateLabels \cup ReconcileLabels \cup HttpLabels]
    /\ pc["create"] \in CreateLabels
    /\ pc["reconcile"] \in ReconcileLabels
    /\ pc["http"] \in HttpLabels
    /\ lock \in Threads \cup {Free}
    /\ stop \in BOOLEAN
    /\ lastPressure \in Int \cup {NoPressure}
    /\ runnerCount \in Nat
    /\ createPaused \in BOOLEAN
    /\ arg \in [Loops -> Int]
    /\ next \in {"stream", "backoff", "idle"}
    /\ cur \in [Loops -> Nat]
    /\ pending \in [Loops -> Nat]
    /\ made \in [Loops -> Nat]
    /\ up \in Nat /\ going \in Nat /\ limbo \in Nat /\ faults \in Nat
    /\ unreported \in Nat
    /\ zeroCreate \in BOOLEAN
    /\ lateCalls \in [Sections -> Nat]

(* The create loop decides on an in-memory count that it does not check    *)
(* against the cloud.  From the first sync of a process on, whenever no    *)
(* thread is inside the lock, every server that is up is in that count,    *)
(* except those that no create call reported since the last sync.          *)
FleetCounted ==
    /\ pc["create"] \notin {"start", "off", "dead"}
    /\ lock = Free
    => up <= runnerCount + unreported

(* Over-provisioning: while a create call is in flight, the servers that   *)
(* are up and those it may still make stay within max_pressure, except for *)
(* servers that no create call reported since the last sync.               *)
WithinCap ==
    \A l \in Loops :
        MaxPressure > 0 /\ pc[l] = "creating"
            => up + pending[l] <= MaxPressure + unreported

(* After a create call that returned no id, by either loop, the create     *)
(* loop makes no create call before the reconcile loop has synced.         *)
PauseHolds == zeroCreate => pc["create"] # "creating"

(* The two loops together are a capped fleet: whatever the threads, their  *)
(* errors, the process and the cloud do, orders are given one call at a    *)
(* time, within max_pressure of the servers there are, and a server is     *)
(* either reported by the call that made it or a stray.                    *)
Fleet == INSTANCE CappedFleet WITH
    Cap <- MaxPressure,
    fleet <- up,
    calls <- {l \in Loops : pc[l] = "creating"},
    ordered <- pending["create"] + pending["reconcile"],
    delivered <- made["create"] + made["reconcile"],
    lost <- limbo,
    strays <- unreported

KeepsToCap == Fleet!Spec

(* Once stop is set the reconcile loop enters at most one more critical    *)
(* section, and so does the create loop: the one it had already decided    *)
(* on.  The exception is a create loop without a planner that was stopped  *)
(* before its first sync: nothing looks at stop between that sync, which   *)
(* only reads, and the one create call of the loop, so both still happen.  *)
BoundedWorkAfterStop ==
    /\ \A s \in Sections : lateCalls[s] <= 1
    /\ lateCalls["sync"] = 1 /\ lateCalls["create"] = 1 => next = "idle"

(* If the pressure settles, so does the fleet, on the desired total: over- *)
(* deletion by a stale pressure, a pause after failures, servers counted   *)
(* while they are being deleted and drift of the count are all temporary.  *)
Converges ==
    \A p \in Pressures \cup {MinPressure} :
        <>[](lastPressure = p) => <>[](up = Desired(p))

(* A pause never wedges the create loop: the reconcile loop lifts it, or   *)
(* the process ends.                                                       *)
PauseIsLifted == createPaused ~> ~createPaused

=============================================================================
