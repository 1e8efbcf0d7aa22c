------------------------- MODULE RunnerManagerProofs -------------------------
(***************************************************************************)
(* Theorems about module RunnerManager, for every set of instances, of     *)
(* which any may be legacy, every set of calls and any number of faults.   *)
(***************************************************************************)
EXTENDS RunnerManager, TLAPS

(* Creations are in flight only inside a create call, so no instance is    *)
(* registered while a call deletes.                                        *)
CreateApart ==
    /\ call # "create" =>
           \A i \in Instances : stage[i] \notin {"register", "launch", "undo"}
    /\ step = "create" <=> call = "create"
    /\ step = "idle" <=> call = "none"
    /\ call \in {"create", "none"} => deleted = {} /\ doomed = {}

(* What GitHub deleted is gone, and so is the runner of a doomed server.   *)
DeletedIsGone == deleted \cap registered = {}

SafeInv ==
    /\ CreateApart
    /\ DeletedIsGone
    /\ PlatformFirst

(* No server is up, or it came after its creation was given up.            *)
NobodyStarts(i) == vm[i] \notin {"build", "active"} \/ stage[i] = "late"

(* What a listing of the servers said of those it did not find, or found   *)
(* in error, stays true: no call but create makes servers.                 *)
ListingStays ==
    step = "runners" =>
        \A i \in Instances :
            i \notin listed \/ i \in errored => NobodyStarts(i)

(* What cleanup still wants of GitHub is gone, or nothing it should spare. *)
CleanupSpares ==
    call = "cleanup" /\ step = "platform" =>
        \A i \in wanted \cap registered : NobodyStarts(i) \/ i \in old

SnapshotInv == ListingStays /\ CleanupSpares

(* The inductive invariant: the types, that GitHub comes first in every    *)
(* call that is gentle, and that a snapshot stays right for cleanup.       *)
IInv == TypeOK /\ SafeInv /\ SnapshotInv

-----------------------------------------------------------------------------
(* Only a create call in progress registers runners, and it does so for    *)
(* instances whose creation is in flight.                                  *)
LEMMA OnlyCreateRegisters ==
    ASSUME TypeOK, CreateApart, [Next]_vars, call # "create"
    PROVE  registered' \subseteq registered
<1> USE DEF CreateApart, world, locals, Keep, Unregister
<1>1. CASE Creation
  BY <1>1 DEF Creation, CallCreate, Register, Launch, Undo, CreateReturns,
              CreateRaises, InFlight, InStage
<1>2. CASE Deletion
  BY <1>2 DEF Deletion, CallDelete, ListServers, ListRunners, ChooseServers,
              DeleteRunner, DeleteServer, DeleteReturns, DeleteRaises
<1>3. CASE Crash
  BY <1>3 DEF Crash, Abandon, InStage
<1>4. CASE Environment
  BY <1>4 DEF Environment, ServerBuilt, ServerFails, ServerVanishes,
              DeletionCompletes, Ages, LateServer, RequestLapses, AgentConnects,
              AgentDrops, TakeJob, FinishJob, AgentLost, RunnerExpires
<1>5. CASE UNCHANGED vars
  BY <1>5 DEF vars
<1> QED
  BY <1>1, <1>2, <1>3, <1>4, <1>5 DEF Next

-----------------------------------------------------------------------------
(* Type correctness.                                                       *)

(* A call that is abandoned, with its locals, keeps the types.             *)
LEMMA AbandonType ==
    ASSUME TypeOK, Abandon, Fault
    PROVE  TypeOK'
<1> USE DEF TypeOK, OnCloud, Alive
<1>1. registered' \subseteq Instances /\ registered \subseteq registered'
  BY DEF Abandon, InStage
<1>2. stage' \in [Instances -> {"fresh", "register", "launch", "undo", "limbo",
                              "late", "ended"}]
  BY DEF Abandon
<1>3. faults' \in Nat /\ NoCall
  BY DEF Abandon, Fault
<1>4. UNCHANGED <<vm, old, online, busy>>
  BY DEF Abandon
<1>5. online' \subseteq registered' /\ busy' \subseteq registered'
  BY <1>1, <1>4
<1> QED
  BY <1>1, <1>2, <1>3, <1>4, <1>5 DEF NoCall, AllCalls

(* Every step keeps the types.                                             *)
LEMMA TypeStep == TypeOK /\ [Next]_vars => TypeOK'
<1> SUFFICES ASSUME TypeOK, [Next]_vars PROVE TypeOK'
  OBVIOUS
<1> USE InstancesAssumption
    DEF TypeOK, AllCalls, OnCloud, Alive, world, locals, Keep, Fault
<1>1. ASSUME NEW S \in SUBSET Instances, CallCreate(S) PROVE TypeOK'
  BY <1>1 DEF CallCreate
<1>2. ASSUME NEW i \in Instances, Register(i) PROVE TypeOK'
  BY <1>2 DEF Register
<1>3. ASSUME NEW i \in Instances, Launch(i) PROVE TypeOK'
  BY <1>3 DEF Launch, Fault
<1>4. ASSUME NEW i \in Instances, Undo(i) PROVE TypeOK'
  BY <1>4 DEF Undo, Unregister, Fault
<1>5. CASE CreateReturns
  BY <1>5 DEF CreateReturns, NoCall
<1>6. CASE CreateRaises
  BY <1>6, AbandonType DEF CreateRaises
<1>7. ASSUME NEW c \in Calls, NEW n \in 0..Cardinality(Instances),
             CallDelete(c, n)
      PROVE  TypeOK'
  BY <1>7 DEF CallDelete
<1>8. CASE ListServers
  BY <1>8 DEF ListServers, InError
<1>9. CASE ListRunners
  <2>1. ToCleanup \subseteq Instances
    BY DEF ToCleanup, TimedOut, Requested
  <2>2. chosen' \subseteq Instances /\ wanted' = chosen' /\ deleted' = {}
    BY <1>9, <2>1 DEF ListRunners
  <2> QED
    BY <1>9, <2>2 DEF ListRunners
<1>10. CASE ChooseServers
  <2>1. doomed' \subseteq Instances
    BY <1>10 DEF ChooseServers, ServersToDelete, Requested
  <2>2. /\ wanted' = {} /\ deleted' = {} /\ chosen' = {} /\ listed' = {}
        /\ step' = "destroy"
    BY <1>10 DEF ChooseServers
  <2>3. UNCHANGED <<world, faults, call, num, errored, raised, stage>>
    BY <1>10 DEF ChooseServers
  <2> QED
    BY <2>1, <2>2, <2>3
<1>11. ASSUME NEW i \in Instances, DeleteRunner(i) PROVE TypeOK'
  <2>1. registered' \subseteq registered /\ deleted' \subseteq deleted \cup {i}
    BY <1>11 DEF DeleteRunner, Unregister
  <2>2. online' \subseteq registered' /\ busy' \subseteq registered'
    BY <1>11 DEF DeleteRunner, Unregister
  <2>3. wanted' \cup deleted' \subseteq chosen'
    BY <1>11 DEF DeleteRunner
  <2>4. faults' \in Nat
    BY <1>11 DEF DeleteRunner
  <2>6. raised' \in BOOLEAN
    BY <1>11, Zenon DEF DeleteRunner
  <2>5. UNCHANGED <<vm, old, call, step, num, listed, errored, chosen, doomed,
                    stage>>
    BY <1>11 DEF DeleteRunner
  <2> QED
    BY <2>1, <2>2, <2>3, <2>4, <2>5, <2>6
<1>12. ASSUME NEW i \in Instances, DeleteServer(i) PROVE TypeOK'
  BY <1>12 DEF DeleteServer, Fault
<1>13. CASE DeleteReturns
  BY <1>13 DEF DeleteReturns, NoCall
<1>14. CASE DeleteRaises
  <2>1. faults' \in Nat /\ UNCHANGED <<world, stage>> /\ NoCall
    BY <1>14 DEF DeleteRaises
  <2> QED
    BY <2>1 DEF NoCall
<1>15. CASE Crash
  BY <1>15, AbandonType DEF Crash
<1>16. ASSUME NEW i \in Instances, ServerBuilt(i) PROVE TypeOK'
  BY <1>16 DEF ServerBuilt
<1>17. ASSUME NEW i \in Instances, ServerFails(i) PROVE TypeOK'
  BY <1>17 DEF ServerFails, Fault
<1>18. ASSUME NEW i \in Instances, ServerVanishes(i) PROVE TypeOK'
  BY <1>18 DEF ServerVanishes, Fault
<1>19. ASSUME NEW i \in Instances, DeletionCompletes(i) PROVE TypeOK'
  BY <1>19 DEF DeletionCompletes
<1>20. ASSUME NEW i \in Instances, Ages(i) PROVE TypeOK'
  BY <1>20 DEF Ages
<1>21. ASSUME NEW i \in Instances, LateServer(i) PROVE TypeOK'
  BY <1>21 DEF LateServer
<1>22. ASSUME NEW i \in Instances, RequestLapses(i) PROVE TypeOK'
  BY <1>22 DEF RequestLapses
<1>23. ASSUME NEW i \in Instances, AgentConnects(i) PROVE TypeOK'
  BY <1>23 DEF AgentConnects
<1>24. ASSUME NEW i \in Instances, AgentDrops(i) PROVE TypeOK'
  BY <1>24 DEF AgentDrops, Fault
<1>25. ASSUME NEW i \in Instances, TakeJob(i) PROVE TypeOK'
  BY <1>25 DEF TakeJob
<1>26. ASSUME NEW i \in Instances, FinishJob(i) PROVE TypeOK'
  BY <1>26 DEF FinishJob, Unregister
<1>27. ASSUME NEW i \in Instances, AgentLost(i) PROVE TypeOK'
  BY <1>27 DEF AgentLost
<1>28. ASSUME NEW i \in Instances, RunnerExpires(i) PROVE TypeOK'
  BY <1>28 DEF RunnerExpires, Unregister, Fault
<1>29. CASE UNCHANGED vars
  BY <1>29 DEF vars
<1> QED
  BY <1>1, <1>2, <1>3, <1>4, <1>5, <1>6, <1>7, <1>8, <1>9, <1>10,
     <1>11, <1>12, <1>13, <1>14, <1>15, <1>16, <1>17, <1>18, <1>19, <1>20,
     <1>21, <1>22, <1>23, <1>24, <1>25, <1>26, <1>27, <1>28, <1>29
     DEF Next, Creation, Deletion, Environment

(* In every behaviour the fleet, GitHub and the call in progress have      *)
(* their types; a runner that is online or busy is registered.             *)
THEOREM TypeCorrect == Spec => []TypeOK
<1>1. Init => TypeOK
  <2> SUFFICES ASSUME Init PROVE TypeOK
    OBVIOUS
  <2>1. /\ vm \in [Instances -> OnCloud \cup {"none", "gone"}]
        /\ stage \in [Instances -> {"fresh", "register", "launch", "undo",
                                  "limbo", "late", "ended"}]
    BY DEF Init, OnCloud, Alive
  <2>2. /\ old \subseteq Instances /\ registered \subseteq Instances
        /\ online \subseteq registered /\ busy \subseteq registered
    BY InstancesAssumption DEF Init
  <2> QED
    BY <2>1, <2>2, InstancesAssumption DEF Init, TypeOK, AllCalls
<1> QED
  BY <1>1, TypeStep, PTL DEF Spec

(* Every step keeps the rest of the invariant.                             *)
LEMMA SafeStep == TypeOK /\ SafeInv /\ TypeOK' /\ [Next]_vars => SafeInv'
<1> SUFFICES ASSUME TypeOK, SafeInv, TypeOK', [Next]_vars
             PROVE  SafeInv'
  OBVIOUS
<1> USE InstancesAssumption
    DEF SafeInv, TypeOK, CreateApart, DeletedIsGone, PlatformFirst,
        Gentle, AllCalls, world, locals, Keep, Fault
<1>1. ASSUME NEW S \in SUBSET Instances, CallCreate(S) PROVE SafeInv'
  BY <1>1 DEF CallCreate
<1>2. ASSUME NEW i \in Instances, Register(i) PROVE SafeInv'
  BY <1>2 DEF Register
<1>3. ASSUME NEW i \in Instances, Launch(i) PROVE SafeInv'
  BY <1>3 DEF Launch, Fault
<1>4. ASSUME NEW i \in Instances, Undo(i) PROVE SafeInv'
  BY <1>4 DEF Undo, Unregister, Fault
<1>5. CASE CreateReturns
  BY <1>5 DEF CreateReturns, NoCall, InFlight, InStage
<1>6. CASE CreateRaises
  BY <1>6 DEF CreateRaises, Abandon, NoCall, Fault, InFlight, InStage
<1>7. ASSUME NEW c \in Calls, NEW n \in 0..Cardinality(Instances),
             CallDelete(c, n)
      PROVE  SafeInv'
  BY <1>7 DEF CallDelete
<1>8. CASE ListServers
  BY <1>8 DEF ListServers
<1>9. CASE ListRunners
  BY <1>9 DEF ListRunners
<1>10. CASE ChooseServers
  BY <1>10 DEF ChooseServers, ServersToDelete, SafeToDestroy, Requested
<1>11. ASSUME NEW i \in Instances, DeleteRunner(i) PROVE SafeInv'
  <2>1. /\ UNCHANGED <<call, step, doomed, stage>>
        /\ registered' \subseteq registered
        /\ deleted' \cap registered' = {}
    BY <1>11 DEF DeleteRunner, Unregister
  <2>2. step = "platform"
    BY <1>11 DEF DeleteRunner
  <2> QED
    BY <2>1, <2>2
<1>12. ASSUME NEW i \in Instances, DeleteServer(i) PROVE SafeInv'
  BY <1>12 DEF DeleteServer, Fault
<1>13. CASE DeleteReturns
  BY <1>13 DEF DeleteReturns, NoCall
<1>14. CASE DeleteRaises
  BY <1>14 DEF DeleteRaises, NoCall, Fault
<1>15. CASE Crash
  BY <1>15 DEF Crash, Abandon, NoCall, Fault, InFlight, InStage
<1>16. ASSUME NEW i \in Instances, ServerBuilt(i) PROVE SafeInv'
  BY <1>16 DEF ServerBuilt
<1>17. ASSUME NEW i \in Instances, ServerFails(i) PROVE SafeInv'
  BY <1>17 DEF ServerFails, Fault
<1>18. ASSUME NEW i \in Instances, ServerVanishes(i) PROVE SafeInv'
  BY <1>18 DEF ServerVanishes, Fault
<1>19. ASSUME NEW i \in Instances, DeletionCompletes(i) PROVE SafeInv'
  BY <1>19 DEF DeletionCompletes
<1>20. ASSUME NEW i \in Instances, Ages(i) PROVE SafeInv'
  BY <1>20 DEF Ages
<1>21. ASSUME NEW i \in Instances, LateServer(i) PROVE SafeInv'
  BY <1>21 DEF LateServer
<1>22. ASSUME NEW i \in Instances, RequestLapses(i) PROVE SafeInv'
  BY <1>22 DEF RequestLapses
<1>23. ASSUME NEW i \in Instances, AgentConnects(i) PROVE SafeInv'
  BY <1>23 DEF AgentConnects
<1>24. ASSUME NEW i \in Instances, AgentDrops(i) PROVE SafeInv'
  BY <1>24 DEF AgentDrops, Fault
<1>25. ASSUME NEW i \in Instances, TakeJob(i) PROVE SafeInv'
  BY <1>25 DEF TakeJob
<1>26. ASSUME NEW i \in Instances, FinishJob(i) PROVE SafeInv'
  BY <1>26 DEF FinishJob, Unregister
<1>27. ASSUME NEW i \in Instances, AgentLost(i) PROVE SafeInv'
  BY <1>27 DEF AgentLost
<1>28. ASSUME NEW i \in Instances, RunnerExpires(i) PROVE SafeInv'
  BY <1>28 DEF RunnerExpires, Unregister, Fault
<1>29. CASE UNCHANGED vars
  BY <1>29 DEF vars
<1> QED
  BY <1>1, <1>2, <1>3, <1>4, <1>5, <1>6, <1>7, <1>8, <1>9, <1>10,
     <1>11, <1>12, <1>13, <1>14, <1>15, <1>16, <1>17, <1>18, <1>19, <1>20,
     <1>21, <1>22, <1>23, <1>24, <1>25, <1>26, <1>27, <1>28, <1>29
     DEF Next, Creation, Deletion, Environment

-----------------------------------------------------------------------------
(* The snapshots of a call that deletes.                                   *)

(* Outside of a create call nobody begins to start, and nobody gets younger*)
LEMMA OnlyCreateStarts ==
    ASSUME TypeOK, CreateApart, [Next]_vars, call # "create",
           NEW i \in Instances
    PROVE  /\ NobodyStarts(i) => NobodyStarts(i)'
           /\ i \in old => i \in old'
<1> USE DEF CreateApart, TypeOK, NobodyStarts, world, locals, Keep, OnCloud,
            Alive
<1>1. CASE Creation
  BY <1>1 DEF Creation, CallCreate, Register, Launch, Undo, CreateReturns,
              CreateRaises, InFlight, InStage
<1>2. CASE Deletion
  BY <1>2 DEF Deletion, CallDelete, ListServers, ListRunners, ChooseServers,
              DeleteRunner, DeleteServer, DeleteReturns, DeleteRaises
<1>3. CASE Crash
  BY <1>3 DEF Crash, Abandon, InStage, InFlight
<1>4. CASE Environment
  BY <1>4 DEF Environment, ServerBuilt, ServerFails, ServerVanishes,
              DeletionCompletes, Ages, LateServer, RequestLapses, AgentConnects,
              AgentDrops, TakeJob, FinishJob, AgentLost, RunnerExpires
<1>5. CASE UNCHANGED vars
  BY <1>5 DEF vars
<1> QED
  BY <1>1, <1>2, <1>3, <1>4, <1>5 DEF Next

(* How a call gets its snapshots: by listing, or it has them already; what *)
(* it wants of GitHub comes from them and becomes less.                    *)
LEMMA SnapshotsTaken ==
    ASSUME TypeOK, [Next]_vars
    PROVE  /\ step' = "runners" =>
                  ListServers \/ UNCHANGED <<call, step, listed, errored>>
           /\ step' = "platform" =>
                  \/ ListRunners
                  \/ UNCHANGED <<call, step>> /\ wanted' \subseteq wanted
<1> USE DEF TypeOK, world, locals, Keep, NoCall
<1>1. CASE Creation
  BY <1>1 DEF Creation, CallCreate, Register, Launch, Undo, CreateReturns,
              CreateRaises, Abandon
<1>2. CASE Deletion
  BY <1>2 DEF Deletion, CallDelete, ListServers, ChooseServers,
              DeleteRunner, DeleteServer, DeleteReturns, DeleteRaises,
              ListRunners
<1>3. CASE Crash
  BY <1>3 DEF Crash, Abandon
<1>4. CASE Environment
  BY <1>4 DEF Environment, ServerBuilt, ServerFails, ServerVanishes,
              DeletionCompletes, Ages, LateServer, RequestLapses, AgentConnects,
              AgentDrops, TakeJob, FinishJob, AgentLost, RunnerExpires
<1>5. CASE UNCHANGED vars
  BY <1>5 DEF vars
<1> QED
  BY <1>1, <1>2, <1>3, <1>4, <1>5 DEF Next

(* The listing is right when it is made, and until it is used.             *)
LEMMA ListingStep ==
    ASSUME TypeOK, CreateApart, ListingStays, [Next]_vars
    PROVE  ListingStays'
<1> SUFFICES ASSUME step' = "runners", NEW i \in Instances,
                    i \notin listed' \/ i \in errored'
             PROVE  NobodyStarts(i)'
  BY DEF ListingStays
<1>1. CASE ListServers
  BY <1>1 DEF ListServers, InError, NobodyStarts, OnCloud, Alive, world
<1>2. CASE UNCHANGED <<call, step, listed, errored>>
  <2>1. call # "create"
    BY <1>2 DEF CreateApart
  <2>2. NobodyStarts(i)
    BY <1>2 DEF ListingStays
  <2> QED
    BY <2>1, <2>2, OnlyCreateStarts
<1> QED
  BY <1>1, <1>2, SnapshotsTaken

(* A runner that cleanup may take off GitHub is not listed, or in error, or*)
(* old, or GitHub has forgotten it.                                        *)
LEMMA CleanupSparesStep ==
    ASSUME TypeOK, CreateApart, SnapshotInv, [Next]_vars
    PROVE  CleanupSpares'
<1> SUFFICES ASSUME call' = "cleanup", step' = "platform",
                    NEW i \in wanted', i \in registered', i \in Instances
             PROVE  NobodyStarts(i)' \/ i \in old'
  <2>1. registered' \subseteq Instances
    BY TypeStep DEF TypeOK
  <2> QED
    BY <2>1 DEF CleanupSpares
<1>1. CASE ListRunners
  <2>1. /\ step = "runners" /\ call = "cleanup"
        /\ UNCHANGED <<registered, vm, old, stage>>
        /\ wanted' = ToCleanup
    BY <1>1 DEF ListRunners, world
  <2>2. i \notin listed \/ i \in errored \/ i \in old
    BY <2>1 DEF ToCleanup, Requested, TimedOut
  <2>3. NobodyStarts(i) \/ i \in old
    BY <2>1, <2>2 DEF SnapshotInv, ListingStays
  <2> QED
    BY <2>1, <2>3 DEF NobodyStarts
<1>2. CASE UNCHANGED <<call, step>> /\ wanted' \subseteq wanted
  <2>1. call = "cleanup" /\ step = "platform" /\ i \in wanted
    BY <1>2
  <2>2. i \in registered
    BY <2>1, OnlyCreateRegisters
  <2>3. NobodyStarts(i) \/ i \in old
    BY <2>1, <2>2 DEF SnapshotInv, CleanupSpares
  <2> QED
    BY <2>1, <2>3, OnlyCreateStarts
<1> QED
  BY <1>1, <1>2, SnapshotsTaken

(* The servers a gentle call destroys belong to runners that GitHub has    *)
(* deleted: the call in progress and GitHub agree, in every behaviour.     *)
THEOREM Invariance == Spec => []IInv
<1>1. Init => SafeInv /\ SnapshotInv
  BY DEF Init, SafeInv, CreateApart, DeletedIsGone, PlatformFirst,
         SnapshotInv, ListingStays, CleanupSpares
<1>2. TypeOK /\ SafeInv /\ SnapshotInv /\ [Next]_vars => SnapshotInv'
  BY ListingStep, CleanupSparesStep DEF SafeInv, SnapshotInv
<1> QED
  BY <1>1, <1>2, SafeStep, TypeCorrect, PTL DEF Spec, IInv

(* Cleanup, soft scale down and idle flush leave no runner registered      *)
(* whose server they destroy.                                              *)
THEOREM PlatformIsFirst == Spec => []PlatformFirst
<1>1. IInv => PlatformFirst
  BY DEF IInv, SafeInv
<1> QED
  BY <1>1, Invariance, PTL

(* Only the deletion of a server makes it go.                              *)
LEMMA OnlyDeletionDestroys ==
    ASSUME TypeOK, [Next]_vars, NEW i \in Instances,
           vm[i] = "active", vm'[i] = "going"
    PROVE  DeleteServer(i)
<1> USE DEF TypeOK, world, locals, Keep
<1>1. CASE Creation
  BY <1>1 DEF Creation, CallCreate, Register, Launch, Undo, CreateReturns,
              CreateRaises, Abandon
<1>2. CASE Deletion
  <2>1. CASE \E j \in Instances : DeleteServer(j)
    BY <2>1 DEF DeleteServer
  <2>2. CASE ~ \E j \in Instances : DeleteServer(j)
    BY <1>2, <2>2
       DEF Deletion, CallDelete, ListServers, ListRunners, ChooseServers,
           DeleteRunner, DeleteReturns, DeleteRaises
  <2> QED
    BY <2>1, <2>2
<1>3. CASE Crash
  BY <1>3 DEF Crash, Abandon
<1>4. CASE Environment
  BY <1>4 DEF Environment, ServerBuilt, ServerFails, ServerVanishes,
              DeletionCompletes, Ages, LateServer, RequestLapses, AgentConnects,
              AgentDrops, TakeJob, FinishJob, AgentLost, RunnerExpires
<1>5. CASE UNCHANGED vars
  BY <1>5 DEF vars
<1> QED
  BY <1>1, <1>2, <1>3, <1>4, <1>5 DEF Next

(* No job dies of a cleanup, a soft scale down or an idle flush, whatever  *)
(* happened between the snapshots and the deletions.                       *)
THEOREM JobsDoSurvive == Spec => JobsSurvive
<1>1. IInv /\ [Next]_vars =>
        [\A i \in Instances \ Legacy :
           vm[i] = "active" /\ vm'[i] = "going" /\ call \in Gentle
               => i \notin busy]_vars
  <2> SUFFICES ASSUME IInv, [Next]_vars, NEW i \in Instances \ Legacy,
                      vm[i] = "active", vm'[i] = "going", call \in Gentle
               PROVE  i \notin busy
    OBVIOUS
  <2>1. DeleteServer(i)
    BY OnlyDeletionDestroys DEF IInv
  <2>2. i \in doomed \ Legacy
    BY <2>1 DEF DeleteServer
  <2> QED
    BY <2>2 DEF IInv, SafeInv, PlatformFirst, TypeOK
<1> QED
  BY <1>1, Invariance, PTL DEF Spec, JobsSurvive

(* Only a deletion on GitHub takes off a runner that a call waits for.     *)
LEMMA OnlyAnswersRemove ==
    ASSUME TypeOK, [Next]_vars, NEW i \in wanted \ wanted',
           i \in registered \ registered'
    PROVE  DeleteRunner(i)
<1> USE DEF TypeOK, world, locals, Keep
<1>1. CASE Creation
  BY <1>1 DEF Creation, CallCreate, Register, Launch, Undo, CreateReturns,
              CreateRaises, Abandon
<1>2. CASE Deletion
  <2>1. CASE \E j \in Instances : DeleteRunner(j)
    BY <2>1 DEF DeleteRunner
  <2>2. CASE ~ \E j \in Instances : DeleteRunner(j)
    BY <1>2, <2>2
       DEF Deletion, CallDelete, ListServers, ListRunners, ChooseServers,
           DeleteServer, DeleteReturns, DeleteRaises
  <2> QED
    BY <2>1, <2>2
<1>3. CASE Crash
  BY <1>3 DEF Crash, Abandon
<1>4. CASE Environment
  BY <1>4 DEF Environment, ServerBuilt, ServerFails, ServerVanishes,
              DeletionCompletes, Ages, LateServer, RequestLapses, AgentConnects,
              AgentDrops, TakeJob, FinishJob, AgentLost, RunnerExpires
<1>5. CASE UNCHANGED vars
  BY <1>5 DEF vars
<1> QED
  BY <1>1, <1>2, <1>3, <1>4, <1>5 DEF Next

(* Cleanup takes no runner off GitHub that may still be starting, however  *)
(* much time passes between its two listings and its deletions.            *)
THEOREM StartersAreSpared == Spec => StartersSpared
<1>1. IInv /\ [Next]_vars =>
        [\A i \in wanted \ wanted' :
           call = "cleanup" /\ i \in registered \ registered'
               => vm[i] \notin {"build", "active"} \/ i \in old
                  \/ stage[i] = "late"]_vars
  <2> SUFFICES ASSUME IInv, [Next]_vars, NEW i \in wanted \ wanted',
                      call = "cleanup", i \in registered \ registered'
               PROVE  NobodyStarts(i) \/ i \in old
    BY DEF NobodyStarts
  <2>1. step = "platform"
    BY OnlyAnswersRemove DEF IInv, DeleteRunner
  <2> QED
    BY <2>1 DEF IInv, SnapshotInv, CleanupSpares
<1> QED
  BY <1>1, Invariance, PTL DEF Spec, StartersSpared
=============================================================================
