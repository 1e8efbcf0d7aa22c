---------------------- MODULE PressureReconcilerProofs ----------------------
(***************************************************************************)
(* Theorems about module PressureReconciler, for every set of pressures,   *)
(* every configuration and every bound.                                    *)
(***************************************************************************)
EXTENDS PressureReconciler, TLAPS

(* Each thread holds the lock exactly while it is in its critical section. *)
LockInv ==
    /\ pc["create"] = "creating" <=> lock = "create"
    /\ pc["reconcile"] \in {"cleanup", "sync", "creating", "deleting"}
           <=> lock = "reconcile"
    /\ pc["http"] = "flushing" <=> lock = "http"

(* Outside a create call a loop has nothing pending and nothing made.      *)
IdleFrames ==
    \A l \in Loops :
        pc[l] # "creating" => pending[l] = 0 /\ made[l] = 0

(* A create call starts from the count, and asks for no more than the cap. *)
CallInv ==
    \A l \in Loops : pc[l] = "creating" =>
        /\ runnerCount = cur[l]
        /\ up <= cur[l] + made[l] + unreported
        /\ MaxPressure > 0 => cur[l] + made[l] + pending[l] <= MaxPressure

(* A scale down starts from a count of everything the cloud listed.        *)
DeleteInv ==
    pc["reconcile"] = "deleting" =>
        /\ runnerCount = cur["reconcile"]
        /\ up + going <= cur["reconcile"] + unreported

(* Outside those calls the count covers the fleet, once it was synced.     *)
CountInv ==
    (/\ pc["create"] \notin {"start", "off", "dead", "creating"}
     /\ pc["reconcile"] \notin {"creating", "deleting"})
        => up <= runnerCount + unreported

PauseInv == (zeroCreate => createPaused) /\ PauseHolds

(* A loop that entered a critical section after stop was set has no other  *)
(* one ahead, except for the create call of a loop without a planner.      *)
StopInv ==
    /\ \A s \in Sections : lateCalls[s] <= 1
    /\ \A s \in Sections : lateCalls[s] = 1 => stop
    /\ lateCalls["sync"] = 1 =>
           /\ pc["create"] \notin {"start", "off"}
           /\ pc["create"] \in {"stream", "done", "dead"} \/ next = "idle"
    /\ lateCalls["sync"] = 1 /\ lateCalls["create"] = 1 => next = "idle"
    /\ lateCalls["create"] = 1 =>
           pc["create"] \in {"creating", "stream", "backoff", "idle", "done",
                             "dead"}
    /\ lateCalls["reconcile"] = 1 =>
           pc["reconcile"] \in {"cleanup", "sync", "creating", "deleting",
                                "wait", "done", "dead"}

(* A process that is down has no thread.                                   *)
DownInv == proc = "down" => pc = NoLabels

(* The inductive invariant behind the safety properties: the types, and    *)
(* what ties the lock, the threads, the count and the fleet together.      *)
SafeInv ==
    /\ LockInv
    /\ IdleFrames
    /\ CallInv
    /\ DeleteInv
    /\ CountInv
    /\ PauseInv
    /\ StopInv
    /\ DownInv

(* The inductive invariant: the types, the lock, and what every critical   *)
(* section knows of the count, the fleet and the desired total.            *)
IInv == TypeOK /\ SafeInv

-----------------------------------------------------------------------------
(* What the arithmetic helpers return, max and min of the code.            *)
LEMMA LargerFact ==
    ASSUME NEW a \in Int, NEW b \in Int
    PROVE  /\ Larger(a, b) \in Int
           /\ Larger(a, b) >= a /\ Larger(a, b) >= b
           /\ Larger(a, b) = a \/ Larger(a, b) = b
  BY DEF Larger

(* The desired total is a natural number within the cap, if there is one.  *)
LEMMA DesiredFact ==
    ASSUME NEW p \in Int
    PROVE  /\ Desired(p) \in Nat
           /\ MaxPressure > 0 => Desired(p) <= MaxPressure
  BY ConfigAssumption DEF Desired, Larger, Smaller

(* The pressure that follows a broken stream is a number, whatever         *)
(* _last_pressure was.                                                     *)
LEMMA FallbackFact == TypeOK => Fallback \in Int
  BY ConfigAssumption DEF TypeOK, Fallback, Larger

-----------------------------------------------------------------------------
(* Type correctness.                                                       *)

(* The end of a process, which loses its memory, keeps the types.          *)
LEMMA ExitType == TypeOK /\ Exit => TypeOK'
<1> SUFFICES ASSUME TypeOK, Exit PROVE TypeOK'
  OBVIOUS
<1> USE DEF TypeOK, Exit, LoseMemory, Loops, Threads
<1>1. /\ NoCalls \in [Loops -> Nat] /\ NoCalls \in [Loops -> Int]
      /\ NoLateCalls \in [Sections -> Nat]
  BY DEF NoCalls, NoLateCalls
<1>2. /\ pc' \in [Threads -> CreateLabels \cup ReconcileLabels \cup HttpLabels]
      /\ pc'["create"] \in CreateLabels
      /\ pc'["reconcile"] \in ReconcileLabels
      /\ pc'["http"] \in HttpLabels
  BY DEF NoLabels, CreateLabels, ReconcileLabels, HttpLabels
<1>3. limbo' \in Nat /\ unreported' \in Nat
  OBVIOUS
<1>4. lastPressure' \in Int \cup {NoPressure} /\ lock' \in Threads \cup {Free}
  OBVIOUS
<1> HIDE DEF Loops, Threads
<1> QED
  BY <1>1, <1>2, <1>3, <1>4

(* The entry of the create loop keeps the types: the number of runners it  *)
(* asks for is a natural number.                                           *)
LEMMA EnterCreateType == TypeOK /\ EnterCreate => TypeOK'
<1> SUFFICES ASSUME TypeOK, EnterCreate PROVE TypeOK'
  OBVIOUS
<1> USE DEF TypeOK, Loops, Sections, Threads, Free, CreateLabels, ReconcileLabels,
            HttpLabels, memory, frames, cloud
<1>1. Missing(arg["create"]) \in Nat
  <2>1. Desired(arg["create"]) \in Nat
    BY DesiredFact
  <2> QED
    BY <2>1 DEF Missing, Larger
<1>2. CASE Missing(arg["create"]) = 0 \/ createPaused
  BY <1>2 DEF EnterCreate, Return, Goto, NoteEntry
<1>3. CASE ~(Missing(arg["create"]) = 0 \/ createPaused)
  BY <1>1, <1>3 DEF EnterCreate, Acquire, Goto, CallCreate, NoteEntry
<1> QED
  BY <1>2, <1>3

(* The sync of the reconcile loop keeps the types, in each of its three    *)
(* ways out.                                                               *)
LEMMA TypeSync == TypeOK /\ Sync => TypeOK'
<1> SUFFICES ASSUME TypeOK, Sync PROVE TypeOK'
  OBVIOUS
<1> DEFINE desired == Desired(arg["reconcile"])
<1>1. desired \in Nat /\ Listed \in Nat
  BY DesiredFact DEF TypeOK, Loops, Listed
<1> HIDE DEF desired
<1>2. /\ cur' \in [Loops -> Nat] /\ pending' \in [Loops -> Nat]
      /\ made' \in [Loops -> Nat] /\ arg' \in [Loops -> Int]
  <2>1. CASE Listed < desired
    BY <1>1, <2>1 DEF TypeOK, Sync, CallCreate, desired
  <2>2. CASE Listed > desired
    BY <1>1, <2>2 DEF TypeOK, Sync, desired
  <2>3. CASE Listed = desired
    BY <1>1, <2>3 DEF TypeOK, Sync, Return, desired
  <2> QED
    BY <1>1, <2>1, <2>2, <2>3
<1>3. /\ pc' \in [Threads -> CreateLabels \cup ReconcileLabels \cup HttpLabels]
      /\ pc'["create"] \in CreateLabels
      /\ pc'["reconcile"] \in ReconcileLabels
      /\ pc'["http"] \in HttpLabels
      /\ lock' \in Threads \cup {Free}
  BY DEF TypeOK, Sync, Return, Goto, Threads, Loops, ReconcileLabels
<1> QED
  BY <1>1, <1>2, <1>3 DEF TypeOK, Sync, CountFleet, cloud

(* Every step keeps the types.                                             *)
LEMMA TypeStep == TypeOK /\ [Next]_vars => TypeOK'
<1> SUFFICES ASSUME TypeOK, [Next]_vars PROVE TypeOK'
  OBVIOUS
<1> USE ConfigAssumption, BoundAssumption
    DEF TypeOK, Loops, Sections, Threads, Free, CreateLabels, ReconcileLabels,
        HttpLabels, memory, frames, cloud, history
<1>1. CASE InitialSync
  <2>1. CASE Goto("create", "stream") /\ UNCHANGED <<arg, next, lastPressure>>
    BY <1>1, <2>1 DEF InitialSync, Goto, Listed, NoteEntry
  <2>2. CASE /\ Goto("create", "called")
             /\ arg' = [arg EXCEPT !["create"] = MinPressure]
             /\ next' = "idle"
             /\ lastPressure' = MinPressure
    BY <1>1, <2>2 DEF InitialSync, Goto, Listed, NoteEntry
  <2> QED
    BY <1>1, <2>1, <2>2 DEF InitialSync
<1>2. CASE InitialSyncRaises
  BY <1>2 DEF InitialSyncRaises, Goto, Fault, NoteEntry
<1>3. CASE StreamUpdate
  BY <1>3 DEF StreamUpdate, CallHandler, Goto
<1>4. CASE StreamError
  BY <1>4, FallbackFact DEF StreamError, CallHandler, Goto
<1>5. CASE StreamEnds
  BY <1>5 DEF StreamEnds, Goto
<1>6. CASE BackoffEnds
  BY <1>6 DEF BackoffEnds, Goto
<1>7. CASE IdleEnds
  BY <1>7 DEF IdleEnds, Goto
<1>8. CASE StorePressure
  BY <1>8 DEF StorePressure, Goto
<1>9. CASE EnterCreate
  BY <1>9, EnterCreateType
<1>10. CASE CreateReturns
  BY <1>10 DEF CreateReturns, CountCreated, Return, Goto
<1>11. ASSUME NEW l \in Loops, Spawn(l) PROVE TypeOK'
  BY <1>11 DEF Spawn, Fault
<1>12. ASSUME NEW l \in Loops, CreateRaises(l) PROVE TypeOK'
  BY <1>12 DEF CreateRaises, Fault, Dies, Return, Goto
<1>13. CASE Tick
  BY <1>13 DEF Tick, Goto
<1>14. CASE ReconcileStops
  BY <1>14 DEF ReconcileStops, Goto
<1>15. CASE EnterReconcile
  BY <1>15 DEF EnterReconcile, Acquire, Goto, NoteEntry
<1>16. CASE Cleanup
  BY <1>16 DEF Cleanup, Delete, Goto, Smaller
<1>17. CASE Sync
  BY <1>17, TypeSync
<1>18. CASE ReconcileCreateReturns
  BY <1>18 DEF ReconcileCreateReturns, CountCreated, Return, Goto
<1>19. CASE SoftDelete
  BY <1>19, DesiredFact
     DEF SoftDelete, Delete, Fault, Return, Goto, Smaller, Larger
<1>20. CASE ReconcileRaises
  BY <1>20 DEF ReconcileRaises, Delete, Fault, Dies, Return, Goto, Smaller
<1>21. CASE FlushRequest
  BY <1>21 DEF FlushRequest, Fault, Goto
<1>22. CASE EnterFlush
  BY <1>22 DEF EnterFlush, Acquire, Goto
<1>23. CASE Flush
  BY <1>23 DEF Flush, Delete, Goto, Smaller
<1>24. CASE Sigterm
  BY <1>24 DEF Sigterm, Fault
<1>25. CASE ExitAfterJoin
  BY <1>25, ExitType DEF ExitAfterJoin
<1>26. CASE ExitOnError
  BY <1>26, ExitType DEF ExitOnError
<1>27. CASE Restart
  BY <1>27 DEF Restart, FirstLabels
<1>28. CASE DeletionCompletes
  BY <1>28 DEF DeletionCompletes
<1>29. CASE ServerVanishes
  BY <1>29 DEF ServerVanishes, Fault
<1>30. CASE LateServer
  BY <1>30 DEF LateServer
<1>31. CASE RequestLapses
  BY <1>31 DEF RequestLapses
<1>32. CASE UNCHANGED vars
  BY <1>32 DEF vars
<1> QED
  BY <1>1, <1>2, <1>3, <1>4, <1>5, <1>6, <1>7, <1>8, <1>9, <1>10,
     <1>11, <1>12, <1>13, <1>14, <1>15, <1>16, <1>17, <1>18, <1>19, <1>20,
     <1>21, <1>22, <1>23, <1>24, <1>25, <1>26, <1>27, <1>28, <1>29, <1>30,
     <1>31, <1>32
     DEF Next, CreateLoop, ReconcileLoop,
     HttpThread, Environment

(* In every behaviour each variable of the reconciler, its threads and the *)
(* fleet has its type.                                                     *)
THEOREM TypeCorrect == Spec => []TypeOK
<1>1. Init => TypeOK
  <2> SUFFICES ASSUME Init PROVE TypeOK
    OBVIOUS
  <2>1. /\ NoCalls \in [Loops -> Nat] /\ NoCalls \in [Loops -> Int]
        /\ NoLateCalls \in [Sections -> Nat]
    BY DEF NoCalls, NoLateCalls
  <2>2. up \in Nat /\ faults \in Nat
    BY BoundAssumption DEF Init
  <2>3. /\ pc \in [Threads -> CreateLabels \cup ReconcileLabels \cup HttpLabels]
        /\ pc["create"] \in CreateLabels
        /\ pc["reconcile"] \in ReconcileLabels
        /\ pc["http"] \in HttpLabels
    BY DEF Init, FirstLabels, Threads, Loops, CreateLabels, ReconcileLabels,
           HttpLabels
  <2> QED
    BY <2>1, <2>2, <2>3 DEF Init, FreshMemory, TypeOK
<1> QED
  BY <1>1, TypeStep, PTL DEF Spec

-----------------------------------------------------------------------------
(* The inductive invariant.                                                *)

(* The entry of the create loop asks for no more than the cap leaves, and  *)
(* is the last critical section it can enter after stop.                   *)
LEMMA EnterCreateSafe == IInv /\ TypeOK' /\ EnterCreate => CallInv' /\ StopInv'
<1> SUFFICES ASSUME IInv, TypeOK', EnterCreate PROVE CallInv' /\ StopInv'
  OBVIOUS
<1> DEFINE desired == Desired(arg["create"])
           toCreate == Missing(arg["create"])
<1>1. /\ desired \in Nat
      /\ MaxPressure > 0 => desired <= MaxPressure
  BY DesiredFact DEF IInv, TypeOK, Loops
<1>2. toCreate \in Nat /\ (toCreate # 0 => toCreate = desired - runnerCount)
  BY <1>1, LargerFact DEF IInv, TypeOK, Missing, Larger
<1>3. /\ pc' \in {[pc EXCEPT !["create"] = next],
                  [pc EXCEPT !["create"] = "creating"]}
      /\ lateCalls' = [lateCalls EXCEPT !["create"] = IF stop THEN @ + 1 ELSE @]
      /\ UNCHANGED <<proc, stop, runnerCount, up, unreported>>
  BY DEF EnterCreate, Return, Goto, NoteEntry, memory, cloud
<1>4. \/ \A l \in Loops : pc'[l] # "creating"
      \/ /\ pc' = [pc EXCEPT !["create"] = "creating"]
         /\ lock = Free
         /\ CallCreate("create", runnerCount, toCreate)
         /\ toCreate # 0
  BY DEF EnterCreate, Return, Goto, Acquire, IInv, SafeInv, TypeOK, LockInv,
         Loops, Threads, Free
<1> HIDE DEF desired, toCreate
<1>5. StopInv'
  BY <1>3 DEF EnterCreate, StopInv, IInv, SafeInv, TypeOK, Loops, Sections,
              Threads
<1>6. CallInv'
  <2>1. CASE \A l \in Loops : pc'[l] # "creating"
    BY <2>1 DEF CallInv
  <2>2. CASE /\ pc' = [pc EXCEPT !["create"] = "creating"]
             /\ lock = Free
             /\ CallCreate("create", runnerCount, toCreate)
             /\ toCreate # 0
    <3>1. pc["create"] = "acquire" /\ pc'["reconcile"] # "creating"
      BY <2>2 DEF EnterCreate, IInv, SafeInv, TypeOK, LockInv,
             Threads, Loops, Free
    <3>2. pc["reconcile"] \notin {"creating", "deleting"}
      BY <2>2 DEF IInv, SafeInv, LockInv, Free
    <3>3. up <= runnerCount + unreported
      BY <3>1, <3>2 DEF IInv, SafeInv, CountInv
    <3>4. /\ cur'["create"] = runnerCount /\ made'["create"] = 0
          /\ pending'["create"] = toCreate
      BY <2>2 DEF CallCreate, IInv, TypeOK, Loops
    <3>5. MaxPressure > 0 => runnerCount + toCreate <= MaxPressure
      BY <1>1, <1>2, <2>2, ConfigAssumption DEF IInv, TypeOK
    <3> QED
      BY <1>3, <3>1, <3>3, <3>4, <3>5, ConfigAssumption
         DEF CallInv, IInv, TypeOK, Loops
  <2> QED
    BY <1>4, <2>1, <2>2
<1> QED
  BY <1>5, <1>6


(* Every step keeps the invariant.                                         *)
LEMMA SafeStep == IInv /\ TypeOK' /\ [Next]_vars => SafeInv'
<1> SUFFICES ASSUME IInv, TypeOK', [Next]_vars PROVE SafeInv'
  OBVIOUS
<1> USE ConfigAssumption, BoundAssumption
    DEF IInv, TypeOK, Loops, Sections, Threads, Free, memory, frames, cloud,
        history, SafeInv, LockInv, IdleFrames, CallInv, DeleteInv, CountInv, PauseInv,
        PauseHolds, StopInv, DownInv, NoLabels
<1>1. CASE InitialSync
  <2>1. CASE Goto("create", "stream") /\ UNCHANGED <<arg, next, lastPressure>>
    BY <1>1, <2>1 DEF InitialSync, Goto, Listed, NoteEntry
  <2>2. CASE /\ Goto("create", "called")
             /\ arg' = [arg EXCEPT !["create"] = MinPressure]
             /\ next' = "idle"
             /\ lastPressure' = MinPressure
    BY <1>1, <2>2 DEF InitialSync, Goto, Listed, NoteEntry
  <2> QED
    BY <1>1, <2>1, <2>2 DEF InitialSync
<1>2. CASE InitialSyncRaises
  BY <1>2 DEF InitialSyncRaises, Goto, Fault, NoteEntry
<1>3. CASE StreamUpdate
  BY <1>3 DEF StreamUpdate, CallHandler, Goto
<1>4. CASE StreamError
  BY <1>4, FallbackFact DEF StreamError, CallHandler, Goto
<1>5. CASE StreamEnds
  BY <1>5 DEF StreamEnds, Goto
<1>6. CASE BackoffEnds
  BY <1>6 DEF BackoffEnds, Goto
<1>7. CASE IdleEnds
  BY <1>7 DEF IdleEnds, Goto
<1>8. CASE StorePressure
  BY <1>8 DEF StorePressure, Goto
<1>9. CASE EnterCreate
  <2>1. CallInv' /\ StopInv'
    BY <1>9, EnterCreateSafe
  <2>2. /\ LockInv' /\ IdleFrames' /\ DeleteInv'
        /\ CountInv' /\ PauseInv' /\ DownInv'
    <3>1. CASE Missing(arg["create"]) = 0 \/ createPaused
      BY <1>9, <3>1 DEF EnterCreate, Return, Goto, NoteEntry
    <3>2. CASE ~(Missing(arg["create"]) = 0 \/ createPaused)
      BY <1>9, <3>2, DesiredFact, LargerFact
         DEF EnterCreate, Missing, Goto, Acquire, CallCreate, NoteEntry
    <3> QED
      BY <3>1, <3>2
  <2> HIDE DEF LockInv, IdleFrames, CallInv, DeleteInv, CountInv, PauseInv,
               StopInv, DownInv
  <2> QED
    BY <2>1, <2>2
<1>10. CASE CreateReturns
  BY <1>10 DEF CreateReturns, CountCreated, Return, Goto
<1>11. ASSUME NEW l \in Loops, Spawn(l) PROVE SafeInv'
  BY <1>11 DEF Spawn, Fault
<1>12. ASSUME NEW l \in Loops, CreateRaises(l) PROVE SafeInv'
  BY <1>12 DEF CreateRaises, Fault, Dies, Return, Goto
<1>13. CASE Tick
  BY <1>13 DEF Tick, Goto
<1>14. CASE ReconcileStops
  BY <1>14 DEF ReconcileStops, Goto
<1>15. CASE EnterReconcile
  BY <1>15 DEF EnterReconcile, Acquire, Goto, NoteEntry
<1>16. CASE Cleanup
  BY <1>16 DEF Cleanup, Delete, Goto, Smaller
<1>17. CASE Sync
  BY <1>17, DesiredFact DEF Sync, CountFleet, CallCreate, Return, Goto, Listed
<1>18. CASE ReconcileCreateReturns
  BY <1>18 DEF ReconcileCreateReturns, CountCreated, Return, Goto
<1>19. CASE SoftDelete
  BY <1>19, DesiredFact
     DEF SoftDelete, Delete, Fault, Return, Goto, Smaller, Larger
<1>20. CASE ReconcileRaises
  BY <1>20 DEF ReconcileRaises, Delete, Fault, Dies, Return, Goto, Smaller
<1>21. CASE FlushRequest
  BY <1>21 DEF FlushRequest, Fault, Goto
<1>22. CASE EnterFlush
  BY <1>22 DEF EnterFlush, Acquire, Goto
<1>23. CASE Flush
  BY <1>23 DEF Flush, Delete, Goto, Smaller
<1>24. CASE Sigterm
  BY <1>24 DEF Sigterm, Fault
<1>25. CASE ExitAfterJoin
  BY <1>25 DEF ExitAfterJoin, Exit, LoseMemory, NoCalls, NoLateCalls, NoLabels
<1>26. CASE ExitOnError
  BY <1>26 DEF ExitOnError, Exit, LoseMemory, NoCalls, NoLateCalls, NoLabels
<1>27. CASE Restart
  BY <1>27 DEF Restart, FirstLabels
<1>28. CASE DeletionCompletes
  BY <1>28 DEF DeletionCompletes
<1>29. CASE ServerVanishes
  BY <1>29 DEF ServerVanishes, Fault
<1>30. CASE LateServer
  BY <1>30 DEF LateServer
<1>31. CASE RequestLapses
  BY <1>31 DEF RequestLapses
<1>32. CASE UNCHANGED vars
  BY <1>32 DEF vars
<1> QED
  BY <1>1, <1>2, <1>3, <1>4, <1>5, <1>6, <1>7, <1>8, <1>9, <1>10,
     <1>11, <1>12, <1>13, <1>14, <1>15, <1>16, <1>17, <1>18, <1>19, <1>20,
     <1>21, <1>22, <1>23, <1>24, <1>25, <1>26, <1>27, <1>28, <1>29, <1>30,
     <1>31, <1>32
     DEF Next, CreateLoop, ReconcileLoop,
     HttpThread, Environment

(* What the process starts with satisfies it.                              *)
LEMMA SafeInit == Init => SafeInv
<1> SUFFICES ASSUME Init PROVE SafeInv
  OBVIOUS
<1>1. IdleFrames /\ StopInv
  BY DEF Init, FreshMemory, NoCalls, NoLateCalls, Loops, Sections, IdleFrames,
         StopInv
<1>2. LockInv /\ CallInv /\ DeleteInv /\ CountInv /\ PauseInv /\ DownInv
  BY DEF Init, FreshMemory, FirstLabels, Free, Loops, Threads, LockInv, CallInv,
         DeleteInv, CountInv, PauseInv, PauseHolds, DownInv
<1> QED
  BY <1>1, <1>2 DEF SafeInv

(* The invariant of the two loops, the flush handler and the process, in   *)
(* every behaviour of the reconciler.                                      *)
THEOREM Invariance == Spec => []IInv
<1>1. Init => SafeInv
  BY SafeInit
<1>2. SafeInv /\ TypeOK /\ TypeOK' /\ [Next]_vars => SafeInv'
  BY SafeStep DEF IInv
<1> QED
  BY <1>1, <1>2, TypeCorrect, PTL DEF Spec, IInv

-----------------------------------------------------------------------------
(* The safety properties.                                                  *)

(* The in-memory count on which the create loop decides covers the fleet,  *)
(* for every configuration, number of faults and number of servers.        *)
THEOREM CountCoversFleet == Spec => []FleetCounted
<1>1. IInv => FleetCounted
  BY DEF IInv, SafeInv, LockInv, CountInv, FleetCounted, Free
<1> QED
  BY <1>1, Invariance, PTL

(* Neither loop provisions beyond max_pressure, except for servers that no *)
(* create call reported since the last sync.                               *)
THEOREM CapHolds == Spec => []WithinCap
<1>1. IInv => WithinCap
  BY ConfigAssumption DEF IInv, SafeInv, TypeOK, CallInv, WithinCap, Loops
<1> QED
  BY <1>1, Invariance, PTL

(* A create call that returned no id keeps the create loop from creating   *)
(* until the reconcile loop has synced.                                    *)
THEOREM PauseIsKept == Spec => []PauseHolds
<1>1. IInv => PauseHolds
  BY DEF IInv, SafeInv, PauseInv
<1> QED
  BY <1>1, Invariance, PTL

(* After stop each loop enters at most one more critical section, a create *)
(* loop without a planner its first sync and its one create call.          *)
THEOREM StopBoundsWork == Spec => []BoundedWorkAfterStop
<1>1. IInv => BoundedWorkAfterStop
  BY DEF IInv, SafeInv, StopInv, BoundedWorkAfterStop
<1> QED
  BY <1>1, Invariance, PTL

-----------------------------------------------------------------------------
(* The two loops implement the capped fleet.                               *)

(* The create calls under way.                                             *)
Calls == {l \in Loops : pc[l] = "creating"}

(* The lock admits one create call, and a loop outside one has nothing     *)
(* ordered and nothing delivered.                                          *)
LEMMA OneCall ==
    ASSUME IInv
    PROVE  /\ \A l, m \in Calls : l = m
           /\ \A l \in Loops \ Calls : pending[l] = 0 /\ made[l] = 0
           /\ lock = Free => Calls = {}
           /\ \A l \in Calls : lock = l
  BY DEF IInv, SafeInv, LockInv, IdleFrames, Calls, Loops, Free

(* A step that leaves the calls, the servers and the requests alone leaves *)
(* the capped fleet alone.                                                 *)
LEMMA FleetRests ==
    ASSUME Calls' = Calls, UNCHANGED <<pending, made, up, limbo, unreported>>
    PROVE  UNCHANGED Fleet!fleets
  BY DEF Fleet!fleets, Calls

(* A process starts with the servers it finds and with no call.            *)
LEMMA FleetInit == Init => Fleet!Init
<1> SUFFICES ASSUME Init PROVE Fleet!Init
  OBVIOUS
<1>1. \A l \in Loops : pc[l] # "creating"
  BY DEF Init, FirstLabels, Loops
<1>2. pending["create"] + pending["reconcile"] = 0
      /\ made["create"] + made["reconcile"] = 0
  BY DEF Init, FreshMemory, NoCalls, NoLateCalls, Loops
<1>3. up \in Nat /\ limbo = 0 /\ unreported = 0
  BY BoundAssumption DEF Init
<1> QED
  BY <1>1, <1>2, <1>3 DEF Fleet!Init

(* The entry of the create loop orders what is missing, or nothing.        *)
LEMMA EnterCreateOrders ==
    IInv /\ IInv' /\ EnterCreate => Fleet!Order \/ UNCHANGED Fleet!fleets
<1> SUFFICES ASSUME IInv, IInv', EnterCreate
             PROVE  Fleet!Order \/ UNCHANGED Fleet!fleets
  OBVIOUS
<1> DEFINE toCreate == Missing(arg["create"])
<1>1. toCreate \in Nat
  BY DesiredFact, LargerFact DEF IInv, TypeOK, Loops, Missing, Larger
<1>2. Calls = {} /\ pc["create"] = "acquire"
  BY OneCall DEF EnterCreate, Acquire
<1>3. UNCHANGED <<up, limbo, unreported>>
  BY DEF EnterCreate, cloud
<1>4. \A l \in Loops : pending[l] = 0 /\ made[l] = 0
  BY <1>2, OneCall
<1>5. CASE toCreate = 0 \/ createPaused
  <2>1. Calls' = Calls
    BY <1>2, <1>5 DEF EnterCreate, Return, Goto, Calls, IInv, TypeOK, Loops,
                      Threads
  <2>2. UNCHANGED <<pending, made>>
    BY <1>4, <1>5 DEF EnterCreate, Return, IInv, TypeOK, Loops
  <2> QED
    BY <2>1, <2>2, <1>3, FleetRests
<1>6. CASE ~(toCreate = 0 \/ createPaused)
  <2> HIDE DEF toCreate
  <2>1. /\ pc' = [pc EXCEPT !["create"] = "creating"]
        /\ pending' = [pending EXCEPT !["create"] = toCreate]
        /\ made' = [made EXCEPT !["create"] = 0]
    BY <1>6 DEF EnterCreate, Goto, CallCreate, toCreate
  <2>2. "create" \in Calls'
    BY <2>1 DEF Calls, IInv, TypeOK, Loops, Threads
  <2>3. /\ pending'["create"] + pending'["reconcile"] = toCreate
        /\ toCreate \in Nat \ {0}
        /\ made'["create"] + made'["reconcile"]
              = made["create"] + made["reconcile"]
    BY <1>1, <1>4, <1>6, <2>1 DEF IInv, TypeOK, Loops
  <2>4. MaxPressure > 0 => up + toCreate - unreported <= MaxPressure
    BY <1>3, <1>1, <2>1, <2>2, ConfigAssumption
       DEF IInv, SafeInv, CallInv, TypeOK, Calls, Loops
  <2> QED
    BY <1>2, <1>3, <2>2, <2>3, <2>4 DEF Fleet!Order, Fleet!Allowed, Calls
<1> QED
  BY <1>5, <1>6

(* The sync of the reconcile loop counts the servers and orders those that *)
(* are missing.                                                            *)
LEMMA SyncCounts == IInv /\ IInv' /\ Sync => Fleet!Count
<1> SUFFICES ASSUME IInv, IInv', Sync PROVE Fleet!Count
  OBVIOUS
<1> DEFINE desired == Desired(arg["reconcile"])
<1>1. desired \in Nat /\ (MaxPressure > 0 => desired <= MaxPressure)
  BY DesiredFact DEF IInv, TypeOK, Loops
<1>2. Calls = {}
  BY OneCall DEF Sync, Calls, Loops, IInv, SafeInv, LockInv
<1>3. \A l \in Loops : pending[l] = 0 /\ made[l] = 0
  BY <1>2, OneCall
<1>4. UNCHANGED <<up, limbo>> /\ unreported' = 0
  BY DEF Sync, cloud, CountFleet
<1> HIDE DEF desired
<1>5. CASE Listed < desired
  <2>1. /\ pc' = [pc EXCEPT !["reconcile"] = "creating"]
        /\ pending' = [pending EXCEPT !["reconcile"] = desired - Listed]
        /\ made' = [made EXCEPT !["reconcile"] = 0]
    BY <1>1, <1>5 DEF Sync, CallCreate, Goto, desired, Listed, IInv, TypeOK
  <2>2. Calls' # {}
    BY <2>1 DEF Calls, IInv, TypeOK, Loops, Threads
  <2>3. /\ pending'["create"] + pending'["reconcile"] = desired - Listed
        /\ desired - Listed \in Nat \ {0}
        /\ made'["create"] + made'["reconcile"]
              = made["create"] + made["reconcile"]
    BY <1>1, <1>3, <1>5, <2>1 DEF IInv, TypeOK, Loops, Listed
  <2>4. MaxPressure > 0 => up + (desired - Listed) <= MaxPressure
    BY <1>1, ConfigAssumption DEF IInv, TypeOK, Listed
  <2> QED
    BY <1>2, <1>4, <2>2, <2>3, <2>4 DEF Fleet!Count, Fleet!Allowed, Calls
<1>6. CASE ~(Listed < desired)
  <2>1. /\ \/ pc' = [pc EXCEPT !["reconcile"] = "deleting"]
           \/ pc' = [pc EXCEPT !["reconcile"] = "wait"]
        /\ \/ UNCHANGED <<pending, made>>
           \/ /\ UNCHANGED pending
              /\ made' = [made EXCEPT !["reconcile"] = 0]
    BY <1>6 DEF Sync, Return, Goto, desired
  <2>2. Calls' = {}
    BY <1>2, <2>1 DEF Calls, IInv, TypeOK, Loops, Threads
  <2>3. /\ pending'["create"] + pending'["reconcile"] = 0
        /\ made'["create"] + made'["reconcile"]
              = made["create"] + made["reconcile"]
    BY <1>3, <2>1 DEF IInv, TypeOK, Loops
  <2> QED
    BY <1>2, <1>4, <2>2, <2>3 DEF Fleet!Count, Calls
<1> QED
  BY <1>5, <1>6

(* A call whose creations all have an outcome is reported: its ids are in  *)
(* the count.                                                              *)
LEMMA ReturnReports ==
    ASSUME IInv, NEW l \in Calls, NEW label,
           pending[l] = 0, Return(l, label), label # "creating",
           UNCHANGED <<pending, up, limbo, unreported>>
    PROVE  Fleet!Report
<1>1. Calls # {} /\ Calls' = {}
  BY OneCall DEF Return, Goto, Calls, IInv, TypeOK, Loops, Threads
<1>2. pending["create"] + pending["reconcile"] = 0
  BY OneCall DEF Calls, Loops
<1>3. made'["create"] + made'["reconcile"] = 0
  BY OneCall DEF Return, Calls, Loops, IInv, TypeOK
<1> QED
  BY <1>1, <1>2, <1>3 DEF Fleet!Report, Calls

(* A creation has an outcome: a server for the call, or a request left     *)
(* behind.                                                                 *)
LEMMA SpawnDelivers ==
    ASSUME IInv, NEW l \in Loops, Spawn(l)
    PROVE  Fleet!Deliver \/ Fleet!GiveUp
<1>1. /\ pending["create"] + pending["reconcile"] > 0
      /\ pending'["create"] + pending'["reconcile"]
            = (pending["create"] + pending["reconcile"]) - 1
  BY DEF Spawn, IInv, TypeOK, Loops
<1>2. pc' = pc /\ unreported' = unreported
  BY DEF Spawn, history
<1>3. CASE up' = up + 1 /\ made' = [made EXCEPT ![l] = @ + 1] /\ limbo' = limbo
  <2>1. made'["create"] + made'["reconcile"]
           = made["create"] + made["reconcile"] + 1
    BY <1>3 DEF IInv, TypeOK, Loops
  <2> QED
    BY <1>1, <1>2, <1>3, <2>1 DEF Fleet!Deliver
<1>4. CASE limbo' = limbo + 1 /\ UNCHANGED <<up, made>>
  BY <1>1, <1>2, <1>4 DEF Fleet!GiveUp
<1> QED
  BY <1>3, <1>4 DEF Spawn

(* An error that ends a call abandons it.                                  *)
LEMMA ErrorAbandons ==
    ASSUME IInv, NEW l \in Loops, CreateRaises(l)
    PROVE  Fleet!Abandon
<1>1. l \in Calls
  BY DEF CreateRaises, Calls
<1>2. Calls # {} /\ Calls' = {}
  BY <1>1, OneCall DEF CreateRaises, Dies, Return, Goto, Calls, IInv, TypeOK,
                       Loops, Threads
<1>3. /\ pending["create"] + pending["reconcile"] = pending[l]
      /\ made["create"] + made["reconcile"] = made[l]
  BY <1>1, OneCall DEF Calls, Loops, IInv, TypeOK
<1>4. /\ pending'["create"] + pending'["reconcile"] = 0
      /\ made'["create"] + made'["reconcile"] = 0
  BY <1>1, OneCall DEF CreateRaises, Dies, Return, Calls, Loops, IInv, TypeOK
<1> QED
  BY <1>2, <1>3, <1>4 DEF CreateRaises, Fleet!Abandon, Calls

(* The end of the process abandons the call under way, if there is one.    *)
LEMMA ExitAbandons ==
    ASSUME IInv, Exit
    PROVE  Fleet!Abandon \/ UNCHANGED Fleet!fleets
<1>1. Calls' = {}
  BY DEF Exit, NoLabels, Calls, Loops, Threads
<1>2. /\ pending'["create"] + pending'["reconcile"] = 0
      /\ made'["create"] + made'["reconcile"] = 0
  BY DEF Exit, LoseMemory, NoCalls, NoLateCalls, Loops
<1>3. pending \in [Loops -> Nat] /\ made \in [Loops -> Nat]
      /\ limbo \in Nat /\ unreported \in Nat
  BY DEF IInv, TypeOK
<1>4. CASE Calls = {}
  <2>1. /\ pending["create"] + pending["reconcile"] = 0
        /\ made["create"] + made["reconcile"] = 0
    BY <1>4, OneCall DEF Loops
  <2>2. UNCHANGED <<up, limbo, unreported>>
    BY <1>3, <1>4, OneCall DEF Exit, Loops
  <2> QED
    BY <1>1, <1>2, <1>4, <2>1, <2>2 DEF Fleet!fleets, Calls
<1>5. CASE Calls # {}
  <2>1. /\ unreported' = unreported + (made["create"] + made["reconcile"])
        /\ limbo' = limbo + (pending["create"] + pending["reconcile"])
        /\ up' = up
    BY <1>3 DEF Exit, Loops
  <2> QED
    BY <1>1, <1>2, <1>5, <2>1 DEF Fleet!Abandon, Calls
<1> QED
  BY <1>4, <1>5

(* A step that deletes servers and starts and ends no call shrinks the     *)
(* fleet.                                                                  *)
LEMMA DeleteShrinks ==
    ASSUME IInv, NEW n \in 0..up, Delete(n), Calls' = Calls,
           UNCHANGED <<pending, limbo, unreported>>,
           made'["create"] + made'["reconcile"]
              = made["create"] + made["reconcile"]
    PROVE  Fleet!Shrink
  BY DEF IInv, TypeOK, Delete, Fleet!Shrink, Calls

(* Every step of the threads, the process and the cloud is a step of the   *)
(* capped fleet, or leaves it alone.                                       *)
LEMMA FleetStep ==
    IInv /\ IInv' /\ [Next]_vars => [Fleet!Next]_(Fleet!fleets)
<1> SUFFICES ASSUME IInv, IInv', [Next]_vars
             PROVE  Fleet!Next \/ UNCHANGED Fleet!fleets
  OBVIOUS
<1> USE DEF Fleet!Next
<1>a. TypeOK
  BY DEF IInv
<1>b. /\ pc \in [Threads -> CreateLabels \cup ReconcileLabels \cup HttpLabels]
      /\ Loops = {"create", "reconcile"}
      /\ Threads = {"create", "reconcile", "http"}
  BY <1>a DEF TypeOK, Loops, Threads
<1>1. CASE InitialSync
  <2>1. Calls = {}
    BY <1>1, OneCall DEF InitialSync
  <2>2. Calls' = {}
    <3>1. \/ pc' = [pc EXCEPT !["create"] = "stream"]
          \/ pc' = [pc EXCEPT !["create"] = "called"]
      BY <1>1 DEF InitialSync, Goto
    <3> QED
      BY <2>1, <3>1, <1>b DEF Calls
  <2>3. UNCHANGED <<up, limbo, pending, made>> /\ unreported' = 0
    BY <1>1 DEF InitialSync, cloud
  <2>4. pending["create"] + pending["reconcile"] = 0
    BY <2>1, OneCall, <1>b
  <2> QED
    BY <2>1, <2>2, <2>3, <2>4 DEF Fleet!Count, Calls
<1>2. CASE InitialSyncRaises
  BY <1>2, <1>b, FleetRests DEF InitialSyncRaises, Goto, frames, history, Calls
<1>3. CASE StreamUpdate
  BY <1>3, <1>b, FleetRests
     DEF StreamUpdate, CallHandler, Goto, cloud, history, Calls
<1>4. CASE StreamError
  BY <1>4, <1>b, FleetRests
     DEF StreamError, CallHandler, Goto, cloud, history, Calls
<1>5. CASE StreamEnds
  BY <1>5, <1>b, FleetRests DEF StreamEnds, Goto, frames, cloud, history, Calls
<1>6. CASE BackoffEnds
  BY <1>6, <1>b, FleetRests DEF BackoffEnds, Goto, frames, cloud, history, Calls
<1>7. CASE IdleEnds
  BY <1>7, <1>b, FleetRests DEF IdleEnds, Goto, frames, cloud, history, Calls
<1>8. CASE StorePressure
  BY <1>8, <1>b, FleetRests
     DEF StorePressure, Goto, frames, cloud, history, Calls
<1>9. CASE EnterCreate
  BY <1>9, EnterCreateOrders
<1>10. CASE CreateReturns
  BY <1>10, <1>a, <1>b, ReturnReports
     DEF CreateReturns, Calls, cloud, TypeOK
<1>11. ASSUME NEW l \in Loops, Spawn(l)
       PROVE  Fleet!Next \/ UNCHANGED Fleet!fleets
  BY <1>11, SpawnDelivers
<1>12. ASSUME NEW l \in Loops, CreateRaises(l)
       PROVE  Fleet!Next \/ UNCHANGED Fleet!fleets
  BY <1>12, ErrorAbandons
<1>13. CASE Tick
  BY <1>13, <1>b, FleetRests DEF Tick, Goto, cloud, history, Calls
<1>14. CASE ReconcileStops
  BY <1>14, <1>b, FleetRests
     DEF ReconcileStops, Goto, frames, cloud, history, Calls
<1>15. CASE EnterReconcile
  BY <1>15, <1>b, FleetRests DEF EnterReconcile, Goto, frames, cloud, Calls
<1>16. CASE Cleanup
  <2>1. PICK n \in 0..Smaller(up, faults) : Delete(n)
    BY <1>16 DEF Cleanup
  <2>2. n \in 0..up
    BY <1>a DEF TypeOK, Smaller
  <2>3. Calls' = Calls /\ UNCHANGED <<pending, made, limbo, unreported>>
    BY <1>16, <1>b DEF Cleanup, Goto, frames, history, Calls
  <2> QED
    BY <2>1, <2>2, <2>3, DeleteShrinks
<1>17. CASE Sync
  BY <1>17, SyncCounts
<1>18. CASE ReconcileCreateReturns
  BY <1>18, <1>b, ReturnReports DEF ReconcileCreateReturns, Calls, cloud
<1>19. CASE SoftDelete
  <2>1. PICK n \in 0..up : Delete(n)
    BY <1>19 DEF SoftDelete
  <2>2. Calls' = Calls /\ UNCHANGED <<pending, limbo, unreported>>
    BY <1>19, <1>b DEF SoftDelete, Return, Goto, history, Calls
  <2>3. made'["create"] + made'["reconcile"]
           = made["create"] + made["reconcile"]
    BY <1>19, <1>a, <1>b, OneCall DEF SoftDelete, Return, Calls, TypeOK
  <2> QED
    BY <2>1, <2>2, <2>3, DeleteShrinks
<1>20. CASE ReconcileRaises
  <2>1. PICK n \in 0..up : Delete(n)
    BY <1>20 DEF ReconcileRaises
  <2>2. Calls' = Calls /\ UNCHANGED <<pending, limbo, unreported>>
    BY <1>20, <1>b DEF ReconcileRaises, Dies, Return, Goto, history, Calls
  <2>3. made'["create"] + made'["reconcile"]
           = made["create"] + made["reconcile"]
    BY <1>20, <1>a, <1>b, OneCall
       DEF ReconcileRaises, Dies, Return, Calls, TypeOK
  <2> QED
    BY <2>1, <2>2, <2>3, DeleteShrinks
<1>21. CASE FlushRequest
  BY <1>21, <1>b, FleetRests DEF FlushRequest, Goto, frames, history, Calls
<1>22. CASE EnterFlush
  BY <1>22, <1>b, FleetRests DEF EnterFlush, Goto, frames, cloud, history, Calls
<1>23. CASE Flush
  <2>1. PICK n \in 0..up : Delete(n)
    BY <1>23 DEF Flush
  <2>2. Calls' = Calls /\ UNCHANGED <<pending, made, limbo, unreported>>
    BY <1>23, <1>b DEF Flush, Goto, frames, history, Calls
  <2> QED
    BY <2>1, <2>2, DeleteShrinks
<1>24. CASE Sigterm
  BY <1>24, FleetRests DEF Sigterm, frames, history, Calls
<1>25. CASE ExitAfterJoin
  BY <1>25, ExitAbandons DEF ExitAfterJoin
<1>26. CASE ExitOnError
  BY <1>26, ExitAbandons DEF ExitOnError
<1>27. CASE Restart
  <2>1. Calls' = {} /\ Calls = {}
    BY <1>27, <1>b DEF Restart, FirstLabels, Calls, IInv, SafeInv, DownInv,
                       NoLabels
  <2> QED
    BY <1>27, <2>1, FleetRests DEF Restart, frames, cloud, history
<1>28. CASE DeletionCompletes
  BY <1>28, FleetRests DEF DeletionCompletes, frames, history, Calls
<1>29. CASE ServerVanishes
  <2>1. up' \in 0..up
    BY <1>29, <1>a DEF ServerVanishes, TypeOK
  <2> QED
    BY <1>29, <2>1 DEF ServerVanishes, frames, history, Fleet!Shrink
<1>30. CASE LateServer
  BY <1>30 DEF LateServer, frames, Fleet!Appear
<1>31. CASE RequestLapses
  BY <1>31 DEF RequestLapses, frames, history, Fleet!Lapse
<1>32. CASE UNCHANGED vars
  BY <1>32, FleetRests DEF vars, frames, cloud, history, Calls
<1> HIDE DEF Fleet!Next
<1> QED
  BY <1>b, <1>1, <1>2, <1>3, <1>4, <1>5, <1>6, <1>7, <1>8, <1>9, <1>10,
     <1>11, <1>12, <1>13, <1>14, <1>15, <1>16, <1>17, <1>18, <1>19, <1>20,
     <1>21, <1>22, <1>23, <1>24, <1>25, <1>26, <1>27, <1>28, <1>29, <1>30,
     <1>31, <1>32
     DEF Next, CreateLoop, ReconcileLoop,
     HttpThread, Environment

(* The reconciler implements the capped fleet, for every configuration, set*)
(* of pressures and number of faults: its handlers, the errors that end    *)
(* them and the end of the process never do what CappedFleet does not.     *)
THEOREM ImplementsCappedFleet == Spec => KeepsToCap
<1>1. Init => Fleet!Init
  BY FleetInit
<1>2. IInv /\ IInv' /\ [Next]_vars => [Fleet!Next]_(Fleet!fleets)
  BY FleetStep
<1> QED
  BY <1>1, <1>2, Invariance, PTL DEF Spec, KeepsToCap, Fleet!Spec

=============================================================================
