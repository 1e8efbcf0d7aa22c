---------------------------- MODULE RunnerManager ----------------------------
(***************************************************************************)
(* The runners one by one: what manager/runner_manager.py does with the    *)
(* servers of the cloud and their registrations on GitHub.                 *)
(*                                                                         *)
(* A call works from two snapshots, the listed servers and then the        *)
(* registered runners, while servers, agents, jobs and GitHub go on.       *)
(* Calls that change runners exclude each other (the lock of module        *)
(* PressureReconciler); the creations of one call run side by side.        *)
(***************************************************************************)
EXTENDS Integers, FiniteSets

CONSTANTS
    Instances,      \* the InstanceIDs; each names one server and one runner
    Existing,       \* instances a previous process left with a server
    Legacy,         \* those whose server carries no runner_id metadata
    Calls,          \* calls that are made
    MaxFaults       \* bound: faults of the cloud, of GitHub, of the process

AllCalls == {"create", "cleanup", "soft", "hard", "flush", "flushBusy"}

ASSUME InstancesAssumption ==
    /\ IsFiniteSet(Instances)
    /\ Existing \subseteq Instances
    /\ Legacy \subseteq Existing
    /\ Calls \subseteq AllCalls
    /\ MaxFaults \in Nat

VARIABLES
    (* the cloud and GitHub *)
    vm,             \* the server of each instance
    old,            \* instances older than RUNNER_MAXIMUM_CREATION_TIME
    registered,     \* runners GitHub knows
    online,         \* runners whose agent is connected
    busy,           \* runners GitHub gave a job
    faults,         \* faults left
    (* the call in progress *)
    call,           \* its name, or "none"
    step,           \* how far it is
    num,            \* number of runners a scale down asks for
    listed,         \* servers in the snapshot of the cloud
    errored,        \* those of them in state ERROR
    chosen,         \* runners to delete from the platform
    wanted,         \* those of them that GitHub has not answered for
    deleted,        \* those of them that GitHub deleted
    raised,         \* whether a deletion raised
    doomed,         \* servers still to delete
    stage           \* how far the creation of each instance is

world == <<vm, old, registered, online, busy>>
locals == <<num, listed, errored, chosen, wanted, deleted, raised, doomed>>
vars == <<world, faults, call, step, locals, stage>>

Alive == {"build", "active", "error"}
OnCloud == Alive \cup {"going"}

Fault == faults > 0 /\ faults' = faults - 1

Unregister(i) ==
    /\ registered' = registered \ {i}
    /\ online' = online \ {i}
    /\ busy' = busy \ {i}

(* Mutant: the runners a call still waits for outlive the call.            *)
NoCallButWanted ==
    /\ call' = "none"
    /\ step' = "idle"
    /\ num' = 0
    /\ listed' = {} /\ errored' = {}
    /\ chosen' = {} /\ wanted' = wanted /\ deleted' = {}
    /\ raised' = FALSE
    /\ doomed' = {}

(* A call ends and its locals are gone.                                    *)
NoCall ==
    /\ call' = "none"
    /\ step' = "idle"
    /\ num' = 0
    /\ listed' = {} /\ errored' = {}
    /\ chosen' = {} /\ wanted' = {} /\ deleted' = {}
    /\ raised' = FALSE
    /\ doomed' = {}

Init ==
    /\ vm = [i \in Instances |-> IF i \in Existing THEN "active" ELSE "none"]
    /\ old \in SUBSET Existing
    /\ registered \in SUBSET Existing
    /\ online \in SUBSET registered
    /\ busy \in SUBSET online
    /\ faults = MaxFaults
    /\ call = "none"
    /\ step = "idle"
    /\ num = 0
    /\ listed = {} /\ errored = {}
    /\ chosen = {} /\ wanted = {} /\ deleted = {}
    /\ raised = FALSE
    /\ doomed = {}
    /\ stage = [i \in Instances |-> IF i \in Existing THEN "ended" ELSE "fresh"]

-----------------------------------------------------------------------------
(* create_runners: a registration, then a server, for each new instance.   *)

InStage(s) == {i \in Instances : stage[i] = s}
InFlight == InStage("register") \cup InStage("launch") \cup InStage("undo")

CallCreate(S) ==
    /\ call = "none" /\ "create" \in Calls
    /\ S # {} /\ S \subseteq InStage("fresh")
    /\ call' = "create"
    /\ step' = "create"
    /\ stage' = [i \in Instances |-> IF i \in S THEN "register" ELSE stage[i]]
    /\ UNCHANGED <<world, faults, locals>>

(* get_runner_context: an error may hide a registration that was made.     *)
Register(i) ==
    /\ stage[i] = "register"
    /\ \/ /\ registered' = registered \cup {i}
          /\ stage' = [stage EXCEPT ![i] = "launch"]
          /\ UNCHANGED faults
       \/ /\ Fault
          /\ registered' \in {registered, registered \cup {i}}
          /\ stage' = [stage EXCEPT ![i] = "ended"]
    /\ UNCHANGED <<vm, old, online, busy, call, step, locals>>

(* CloudRunnerManager.create_runner: an error may leave a server.          *)
Launch(i) ==
    /\ stage[i] = "launch"
    /\ \/ /\ vm' = [vm EXCEPT ![i] = "build"]
          /\ stage' = [stage EXCEPT ![i] = "ended"]
          /\ UNCHANGED faults
       \/ /\ Fault
          /\ \E s \in {"none", "build"} : vm' = [vm EXCEPT ![i] = s]
          /\ stage' = [stage EXCEPT ![i] = "undo"]
    /\ UNCHANGED <<old, registered, online, busy, call, step, locals>>

(* The registration of a failed creation is deleted, unless the server it  *)
(* left came up and its agent already has a job.                           *)
Undo(i) ==
    /\ stage[i] = "undo"
    /\ \/ /\ i \notin busy
          /\ Unregister(i)
          /\ UNCHANGED faults
       \/ /\ i \in busy
          /\ UNCHANGED <<registered, online, busy, faults>>
       \/ /\ Fault
          /\ UNCHANGED <<registered, online, busy>>
    /\ stage' = [stage EXCEPT ![i] = "ended"]
    /\ UNCHANGED <<vm, old, call, step, locals>>

CreateReturns ==
    /\ step = "create" /\ InFlight = {}
    /\ NoCall
    /\ UNCHANGED <<world, faults, stage>>

(* The creations in flight are cut: a request that was under way may still *)
(* be served.                                                              *)
Abandon ==
    /\ \E R \in SUBSET InStage("register") : registered' = registered \cup R
    /\ stage' = [i \in Instances |->
                    IF stage[i] = "launch" THEN "limbo"
                    ELSE IF i \in InFlight THEN "ended" ELSE stage[i]]
    /\ NoCall
    /\ UNCHANGED <<vm, old, online, busy>>

(* An error other than RunnerError and PlatformApiError ends the whole call*)
(* and its worker processes.                                               *)
CreateRaises == step = "create" /\ InFlight # {} /\ Fault /\ Abandon

Creation ==
    \/ \E S \in SUBSET Instances : CallCreate(S)
    \/ \E i \in Instances : Register(i) \/ Launch(i) \/ Undo(i)
    \/ CreateReturns \/ CreateRaises

-----------------------------------------------------------------------------
(* cleanup, soft_delete_runners, delete_runners and flush_runners.         *)

Gentle == {"cleanup", "soft", "flush"}

CallDelete(c, n) ==
    /\ call = "none" /\ c \in Calls \ {"create"}
    /\ n > 0 <=> c \in {"soft", "hard"}
    /\ call' = c
    /\ step' = "servers"
    /\ num' = n
    /\ UNCHANGED <<world, faults, listed, errored, chosen, wanted, deleted,
                   raised, doomed, stage>>

(* from_openstack_server_status: of all the states a server may be in, the *)
(* unexpected ones included, only ERROR makes a difference to a runner.    *)
InError == {i \in Instances : vm[i] = "error"}

(* get_vms                                                                 *)
ListServers ==
    /\ step = "servers"
    /\ listed' = {i \in Instances : vm[i] \in OnCloud}
    /\ errored' = InError
    /\ step' = "runners"
    /\ UNCHANGED <<world, faults, call, num, chosen, wanted, deleted, raised,
                   doomed, stage>>

(* The runners whose servers were listed, by the id in their metadata.     *)
Requested == listed \ Legacy

(* Mutant: runners that have not come up yet count as timed out.           *)
TimedOutAnyAge == Requested \ (online \cup busy)

TimedOut == (Requested \cap old) \ (online \cup busy)

(* Mutant: runners without a server are left on GitHub.                    *)
ToCleanupListed ==
    (Requested \ registered) \cup (Requested \cap errored) \cup TimedOut

(* _get_platform_runners_to_cleanup: dangling runners, deletable ones,     *)
(* those of servers in error and those that timed out.                     *)
ToCleanup ==
    (registered \ listed)
        \cup (Requested \ registered)
        \cup (Requested \cap errored)
        \cup TimedOut

(* _get_platform_runners_to_scale_down: busy runners go last, or not.      *)
ToScaleDown ==
    LET pool == Requested \ ToCleanup
        idle == pool \ busy
        candidates == IF call = "soft" THEN idle ELSE pool
        more == num - Cardinality(ToCleanup)
    IN  {S \in SUBSET candidates :
            /\ Cardinality(S) = IF more <= 0 THEN 0
                                ELSE IF more >= Cardinality(candidates)
                                     THEN Cardinality(candidates) ELSE more
            /\ S \cap busy # {} => idle \subseteq S}

(* _get_platform_runners_to_flush                                          *)
ToFlush == IF call = "flushBusy" THEN Requested ELSE (Requested \cap online) \ busy

(* get_runners_health, and the choice made from it: a runner that GitHub   *)
(* does not list is deletable.  What the call does not read again is reset.*)
ListRunners ==
    /\ step = "runners"
    /\ \E S \in SUBSET Instances :
          /\ CASE call = "cleanup" -> S = {}
               [] call \in {"soft", "hard"} -> S \in ToScaleDown
               [] OTHER -> S = ToFlush
          /\ chosen' = ToCleanup \cup S
    /\ wanted' = chosen' /\ deleted' = {}
    /\ step' = "platform"
    /\ num' = 0 /\ errored' = {}
    /\ UNCHANGED <<world, faults, call, listed, raised, doomed, stage>>

(* One of the parallel deletions on GitHub: done, refused or failed.       *)
DeleteRunner(i) ==
    /\ step = "platform" /\ i \in wanted
    /\ wanted' = wanted \ {i}
    /\ \/ /\ i \notin busy
          /\ Unregister(i)
          /\ deleted' = deleted \cup {i}
          /\ UNCHANGED <<faults, raised>>
       \/ /\ i \in busy
          /\ UNCHANGED <<registered, online, busy, faults, deleted, raised>>
       \/ /\ Fault
          /\ raised' = TRUE
          /\ UNCHANGED <<registered, online, busy, deleted>>
    /\ UNCHANGED <<vm, old, call, step, num, listed, errored, chosen, doomed,
                   stage>>

(* Mutant: the runners asked for count, not those the platform deleted.    *)
SafeToDestroyChosen == chosen

(* The runner ids whose servers go: gentle calls trust GitHub's answer.    *)
SafeToDestroy == IF call \in Gentle THEN deleted ELSE chosen

(* _get_vms_to_cleanup                                                     *)
ServersToDelete == (listed \cap Legacy) \cup (Requested \cap SafeToDestroy)

(* The metrics of these servers are pulled before they are deleted.        *)
ChooseServers ==
    /\ step = "platform" /\ wanted = {} /\ ~raised
    /\ doomed' = ServersToDelete
    /\ step' = "destroy"
    /\ listed' = {} /\ chosen' = {} /\ deleted' = {}
    /\ UNCHANGED <<world, faults, call, num, errored, wanted, raised, stage>>

(* One of the parallel server deletions; an error is logged and forgotten. *)
DeleteServer(i) ==
    /\ step = "destroy" /\ i \in doomed
    /\ doomed' = doomed \ {i}
    /\ \/ /\ vm' = [vm EXCEPT ![i] = IF @ \in OnCloud THEN "going" ELSE @]
          /\ UNCHANGED faults
       \/ Fault /\ UNCHANGED vm
    /\ UNCHANGED <<old, registered, online, busy, call, step, num, listed,
                   errored, chosen, wanted, deleted, raised, stage>>

DeleteReturns ==
    /\ step = "destroy" /\ doomed = {}
    /\ NoCall
    /\ UNCHANGED <<world, faults, stage>>

(* An error ends the call: in a listing, in one of the deletions on GitHub *)
(* once all of them are through, or while metrics are pulled.              *)
DeleteRaises ==
    /\ \/ step \in {"servers", "runners"} /\ Fault
       \/ step = "platform" /\ wanted = {} /\ raised /\ UNCHANGED faults
       \/ step = "platform" /\ wanted = {} /\ ~raised /\ Fault
    /\ NoCall
    /\ UNCHANGED <<world, stage>>

Deletion ==
    \/ \E c \in Calls, n \in 0..Cardinality(Instances) : CallDelete(c, n)
    \/ ListServers \/ ListRunners \/ ChooseServers
    \/ \E i \in Instances : DeleteRunner(i) \/ DeleteServer(i)
    \/ DeleteReturns \/ DeleteRaises

(* The process dies in the middle of a call and starts again.              *)
Crash == call # "none" /\ Fault /\ Abandon

-----------------------------------------------------------------------------
(* The servers, the agents on them, and GitHub.                            *)

Keep == <<call, step, locals>>

ServerBuilt(i) ==
    /\ vm[i] = "build"
    /\ vm' = [vm EXCEPT ![i] = "active"]
    /\ UNCHANGED <<old, registered, online, busy, faults, Keep, stage>>

ServerFails(i) ==
    /\ vm[i] \in {"build", "active"}
    /\ Fault
    /\ vm' = [vm EXCEPT ![i] = "error"]
    /\ UNCHANGED <<old, registered, online, busy, Keep, stage>>

ServerVanishes(i) ==
    /\ vm[i] \in Alive
    /\ Fault
    /\ vm' = [vm EXCEPT ![i] = "gone"]
    /\ UNCHANGED <<old, registered, online, busy, Keep, stage>>

DeletionCompletes(i) ==
    /\ vm[i] = "going"
    /\ vm' = [vm EXCEPT ![i] = "gone"]
    /\ UNCHANGED <<old, registered, online, busy, faults, Keep, stage>>

Ages(i) ==
    /\ vm[i] \in Alive /\ i \notin old
    /\ old' = old \cup {i}
    /\ UNCHANGED <<vm, registered, online, busy, faults, Keep, stage>>

(* A request that nobody waits for is served late, or never.               *)
LateServer(i) ==
    /\ stage[i] = "limbo"
    /\ vm' = [vm EXCEPT ![i] = "build"]
    /\ stage' = [stage EXCEPT ![i] = "late"]
    /\ UNCHANGED <<old, registered, online, busy, faults, Keep>>

RequestLapses(i) ==
    /\ stage[i] = "limbo"
    /\ stage' = [stage EXCEPT ![i] = "ended"]
    /\ UNCHANGED <<world, faults, Keep>>

AgentConnects(i) ==
    /\ i \in registered \ online /\ vm[i] = "active"
    /\ online' = online \cup {i}
    /\ UNCHANGED <<vm, old, registered, busy, faults, Keep, stage>>

AgentDrops(i) ==
    /\ i \in online
    /\ Fault
    /\ online' = online \ {i}
    /\ UNCHANGED <<vm, old, registered, busy, Keep, stage>>

TakeJob(i) ==
    /\ i \in online \ busy /\ vm[i] = "active"
    /\ busy' = busy \cup {i}
    /\ UNCHANGED <<vm, old, registered, online, faults, Keep, stage>>

(* Runners are ephemeral: GitHub drops one when its job ends.              *)
FinishJob(i) ==
    /\ i \in busy \cap online /\ vm[i] = "active"
    /\ Unregister(i)
    /\ UNCHANGED <<vm, old, faults, Keep, stage>>

(* GitHub notices that an agent is gone, and gives up its job.             *)
AgentLost(i) ==
    /\ i \in online \cup busy
    /\ vm[i] # "active" \/ i \notin online
    /\ online' = online \ {i}
    /\ busy' = busy \ {i}
    /\ UNCHANGED <<vm, old, registered, faults, Keep, stage>>

RunnerExpires(i) ==
    /\ i \in registered \ busy
    /\ Fault
    /\ Unregister(i)
    /\ UNCHANGED <<vm, old, Keep, stage>>

Environment ==
    \E i \in Instances :
        \/ ServerBuilt(i) \/ ServerFails(i) \/ ServerVanishes(i)
        \/ DeletionCompletes(i) \/ Ages(i) \/ LateServer(i) \/ RequestLapses(i)
        \/ AgentConnects(i) \/ AgentDrops(i) \/ TakeJob(i) \/ FinishJob(i)
        \/ AgentLost(i) \/ RunnerExpires(i)

-----------------------------------------------------------------------------
Next == Creation \/ Deletion \/ Crash \/ Environment

(* The reconcile loop calls cleanup again and again; a call in progress    *)
(* goes on; time passes, and the cloud and GitHub notice what happened.    *)
(* Nothing makes an agent connect, a job end or a fault happen.            *)
Fairness ==
    /\ SF_vars(CallDelete("cleanup", 0))
    /\ WF_vars(ListServers) /\ WF_vars(ListRunners) /\ WF_vars(ChooseServers)
    /\ WF_vars(CreateReturns) /\ WF_vars(DeleteReturns) /\ WF_vars(DeleteRaises)
    /\ \A i \in Instances :
          /\ WF_vars(Register(i)) /\ WF_vars(Launch(i)) /\ WF_vars(Undo(i))
          /\ WF_vars(DeleteRunner(i)) /\ WF_vars(DeleteServer(i))
          /\ WF_vars(Ages(i)) /\ WF_vars(AgentLost(i))
          /\ WF_vars(DeletionCompletes(i))
          /\ WF_vars(LateServer(i) \/ RequestLapses(i))

Spec == Init /\ [][Next]_vars
FairSpec == Spec /\ Fairness

-----------------------------------------------------------------------------
(* Type invariant of the fleet and of the call in progress.                *)
TypeOK ==
    /\ vm \in [Instances -> OnCloud \cup {"none", "gone"}]
    /\ old \subseteq Instances
    /\ registered \subseteq Instances
    /\ online \subseteq registered
    /\ busy \subseteq registered
    /\ faults \in Nat
    /\ call \in AllCalls \cup {"none"}
    /\ step \in {"idle", "create", "servers", "runners", "platform", "destroy"}
    /\ num \in Nat
    /\ listed \cup errored \subseteq Instances
    /\ chosen \subseteq Instances
    /\ wanted \cup deleted \subseteq chosen
    /\ raised \in BOOLEAN
    /\ doomed \subseteq Instances
    /\ stage \in [Instances -> {"fresh", "register", "launch", "undo", "limbo",
                                "late", "ended"}]

(* Cleanup, soft scale down and idle flush decide on what GitHub said some *)
(* time ago; a runner that took a job since keeps its server.  Servers of  *)
(* unknown runners are the exception: they go whatever they do.            *)
JobsSurvive ==
    [][\A i \in Instances \ Legacy :
          vm[i] = "active" /\ vm'[i] = "going" /\ call \in Gentle
              => i \notin busy]_vars

(* A server goes after its registration: no gentle call leaves a runner    *)
(* registered without its server.                                          *)
PlatformFirst ==
    call \in Gentle => (doomed \ Legacy) \cap registered = {}

(* Cleanup takes no runner off GitHub while its server is up and young     *)
(* enough to be starting; a server that appeared after its request was     *)
(* abandoned is nobody's, and is not spared.                               *)
StartersSpared ==
    [][\A i \in wanted \ wanted' :
          call = "cleanup" /\ i \in registered \ registered'
              => vm[i] \notin {"build", "active"} \/ i \in old
                 \/ stage[i] = "late"]_vars

(* What occupies a slot without being of use: a server in error, a server  *)
(* without a runner, a runner without a server, one that is not connected. *)
Useless(i) ==
    \/ vm[i] = "error"
    \/ vm[i] \in Alive /\ i \notin registered
    \/ vm[i] \notin Alive /\ i \in registered
    \/ vm[i] \in Alive /\ i \in registered \ (online \cup busy)

(* Whatever fails, wherever the process dies, whoever was late: a slot     *)
(* that became useless is freed, or of use again.                          *)
EventuallyFreed == \A i \in Instances : Useless(i) ~> ~Useless(i)
=============================================================================
