-------------------------------- MODULE Charm --------------------------------
(***************************************************************************)
(* The hooks of one unit (src/charm.py) between a world that changes the   *)
(* options, secrets and relations at any time and a service that makes     *)
(* runners of whatever configuration it was started with.                  *)
(*                                                                         *)
(* Juju runs one hook at a time, on a snapshot of the world.  What a hook  *)
(* stores and tells other applications is kept only if the hook succeeds;  *)
(* what it did to the service stays.  A hook that failed is run again      *)
(* before any other.  An error that the charm catches is a success.        *)
(***************************************************************************)
EXTENDS CharmConfig, FiniteSets

CONSTANTS
    Deployments,    \* inputs of a new unit, and the changes that follow
    Alternatives,   \* options that may be set: pairs of name and value
    Secrets,        \* identifiers of secrets
    Rotating,       \* those whose content changes
    Contents,       \* contents that a secret may get
    Images,         \* states of the image relation, None among them
    Planners,       \* states of the planner relation, None among them
    Debuggers,      \* connections the debug relation may offer
    MaxFaults       \* bound: hooks that fail for reasons of their own

SecretOptions == {"tokenSecret", "keySecret", "cloudsSecret"}

IsInputs(in) ==
    /\ DOMAIN in = {"opt", "secret", "image", "planner", "debug", "juju"}
    /\ DOMAIN in.secret = Secrets /\ SecretOptions \subseteq DOMAIN in.opt
    /\ \A o \in SecretOptions : in.opt[o] \in Secrets \cup {""}
    /\ in.planner # None => in.planner.token \in Secrets \cup {""}
    /\ "labels" \in DOMAIN in.opt
    /\ in.opt.labels \in Seq(Range(in.opt.labels))
    /\ None \notin in.debug

ASSUME CharmAssumption ==
    /\ MaxFaults \in Nat
    /\ "" \notin Secrets /\ Rotating \subseteq Secrets
    /\ "" \notin Malformed
    /\ \A d \in Deployments : IsInputs(d.inputs) /\ d.changes \in Nat
    /\ \A p \in Planners \ {None} : p.token \in Secrets \cup {""}
    /\ \A a \in Alternatives :
          /\ a[1] \in SecretOptions => a[2] \in Secrets \cup {""}
          /\ a[1] = "labels" => a[2] \in Seq(Range(a[2]))
    /\ Debuggers \cap (Malformed \cup {None}) = {}

VARIABLES
    inputs,         \* options, secrets and relations, see CharmConfig
    leader,         \* this unit leads the application
    pending,        \* events for which a hook is still to run
    failed,         \* the hook that failed and is to be run again, or "none"
    hook, step,     \* the hook that runs, and where it is
    seen,           \* the inputs it runs on
    stored,         \* _stored: options at the last config-changed
    status,
    service,        \* "on" or "off"
    conf,           \* the inputs the service was last started with
    runners,        \* kinds of idle runners there are
    told,           \* what the planner was told of this unit
    builder,        \* clouds that the image builder was told
    missed,         \* history: a flush that was due did not happen
    untold,         \* history: the last reconcile was not told the planner
    changes, faults \* bounds

hooks == <<failed, hook, step, seen>>
outside == <<runners, told, builder, missed, untold>>
unit == <<stored, status, service, conf>>
vars == <<inputs, leader, pending, hooks, unit, outside, changes, faults>>

-----------------------------------------------------------------------------
Steps == {"install", "state", "image", "setup", "flush", "commit"}

(* Hooks that reconcile, those that flush in any case, and those that end  *)
(* with an active unit.                                                    *)
Reconciling == {"config", "upgrade", "secret", "image", "debug", "planner"}
Flushing == {"upgrade", "secret", "image", "debug"}
Activating == {"config", "start", "image", "debug", "planner"}
Events == Reconciling \cup {"start", "joined"}

(* Mutant: a change of labels is no reason to flush.                       *)
FlushOptionsButLabels ==
    {"token", "tokenSecret", "appClient", "installation", "keySecret",
     "path", "cloudsSecret", "external"}

(* _FLUSH_ON_CHANGE_CONFIG_TO_STORED.                                      *)
FlushOptions ==
    {"token", "tokenSecret", "appClient", "installation", "keySecret",
     "path", "labels", "cloudsSecret", "external"}

FlushValues(in) == [o \in FlushOptions |-> in.opt[o]]

FirstStep(e) == IF e = "upgrade" THEN "install"
                ELSE IF e = "start" THEN "image" ELSE "state"

(* What a runner keeps of the configuration it was made with.              *)
Identity(in) ==
    [labels |-> in.opt.labels, path |-> in.opt.path,
     auth |-> Auth(in), image |-> in.image,
     clouds |-> IF in.opt.cloudsSecret = "" THEN "" ELSE Clouds(in)]

Kinds(in) == [identity : {Identity(in)}, boot : CloudInit(Application(in))]

PlannerData(in) == [labels |-> PlannerLabels(in), least |-> Machines(in).base]

(* Mutant: the unit is not told of new credentials of the clouds.          *)
RefersToForGithub(in) ==
    {in.opt.tokenSecret, in.opt.keySecret}
        \cup IF in.planner = None THEN {} ELSE {in.planner.token}

RefersTo(in) ==
    {in.opt[o] : o \in SecretOptions}
        \cup IF in.planner = None THEN {} ELSE {in.planner.token}

(* Secrets whose new content Juju tells the unit of, whether they are read *)
(* next, or were read by the hook that runs or for the service.            *)
Referenced ==
    RefersTo(inputs)
        \cup (IF hook = "none" THEN {} ELSE RefersTo(seen))
        \cup (IF service = "off" /\ runners = {} THEN {} ELSE RefersTo(conf))

Fault == faults > 0 /\ faults' = faults - 1

(* A new unit was installed; its other hooks are due.                      *)
Init ==
    /\ \E d \in Deployments : inputs = d.inputs /\ changes = d.changes
    /\ leader \in BOOLEAN
    /\ pending = {"config", "start"}
          \cup (IF inputs.image = None THEN {} ELSE {"joined", "image"})
          \cup (IF inputs.planner = None THEN {} ELSE {"planner"})
          \cup (IF inputs.debug = {} THEN {} ELSE {"debug"})
    /\ failed = "none" /\ hook = "none" /\ step = "state" /\ seen = None
    /\ stored = FlushValues(inputs)
    /\ status = "installed" /\ service = "off" /\ conf = None
    /\ runners = {} /\ told = None /\ builder = None
    /\ missed = FALSE /\ untold = FALSE
    /\ faults = MaxFaults

-----------------------------------------------------------------------------
(* The world.                                                              *)

Changes == changes > 0 /\ changes' = changes - 1
World == <<leader, hooks, unit, runners, missed, untold, faults>>

SetOption(o, v) ==
    /\ Changes
    /\ inputs.opt[o] # v
    /\ inputs' = [inputs EXCEPT !.opt[o] = v]
    /\ pending' = pending \cup {"config"}
    /\ UNCHANGED <<World, told, builder>>

(* A unit may hear of others that it has read.  (That a secret is granted, *)
(* or taken away, is left out.)                                            *)
SetSecret(s, c) ==
    /\ Changes
    /\ inputs.secret[s] \notin {c, Absent} /\ c # Absent
    /\ inputs' = [inputs EXCEPT !.secret[s] = c]
    /\ \/ pending' = pending \cup {"secret"}
       \/ s \notin Referenced /\ UNCHANGED pending
    /\ UNCHANGED <<World, told, builder>>

(* Events of a relation that is gone are dropped, and its end is no event  *)
(* that the charm observes.                                                *)
SetImage(i) ==
    /\ Changes
    /\ inputs.image # i /\ failed \notin {"joined", "image"}
    /\ inputs' = [inputs EXCEPT !.image = i]
    /\ pending' = IF i = None THEN pending \ {"joined", "image"}
                  ELSE pending \cup {"image"} \cup
                         (IF inputs.image = None THEN {"joined"} ELSE {})
    /\ builder' = IF i = None THEN None ELSE builder
    /\ UNCHANGED <<World, told>>

SetPlanner(p) ==
    /\ Changes
    /\ inputs.planner # p
    /\ inputs' = [inputs EXCEPT !.planner = p]
    /\ pending' = pending \cup {"planner"}
    /\ told' = IF p = None THEN None ELSE told
    /\ UNCHANGED <<World, builder>>

(* Connections that go are no event either.  (That those go which the      *)
(* charm refused is left out.)                                             *)
SetDebug(D) ==
    /\ Changes
    /\ inputs.debug # D /\ DebugOk(inputs)
    /\ inputs' = [inputs EXCEPT !.debug = D]
    /\ pending' = IF D \subseteq inputs.debug THEN pending
                                              ELSE pending \cup {"debug"}
    /\ UNCHANGED <<World, told, builder>>

LeaderChanges ==
    /\ Changes
    /\ leader' = ~leader
    /\ UNCHANGED <<inputs, pending, hooks, unit, outside, faults>>

(* A reboot, or a new revision of the charm.                               *)
Restarts ==
    /\ Changes
    /\ \E e \in {"start", "upgrade"} : pending' = pending \cup {e, "config"}
    /\ UNCHANGED <<inputs, leader, hooks, unit, outside, faults>>

CreateRunner ==
    /\ service = "on"
    /\ \E kind \in Kinds(conf) : runners' = runners \cup {kind}
    /\ UNCHANGED <<inputs, leader, pending, hooks, unit, told, builder,
                   missed, untold, changes, faults>>

(* The flush-runners action.                                               *)
FlushAction ==
    /\ hook = "none" /\ service = "on"
    /\ runners' = {}
    /\ UNCHANGED <<inputs, leader, pending, hooks, unit, told, builder,
                   missed, untold, changes, faults>>

-----------------------------------------------------------------------------
(* A hook.                                                                 *)

(* A new unit is configured first, and a unit that starts hears of         *)
(* relations and secrets after that; the order is left open otherwise.     *)
Begin(e) ==
    /\ hook = "none" /\ e \in pending
    /\ \/ failed = e
       \/ /\ failed = "none"
          /\ "start" \in pending => e \in {"start", "config"}
          /\ status = "installed" /\ "config" \in pending => e = "config"
    /\ pending' = pending \ {e} /\ failed' = "none"
    /\ hook' = e /\ step' = FirstStep(e) /\ seen' = inputs
    /\ UNCHANGED <<inputs, leader, unit, outside, changes, faults>>

At(s) == hook # "none" /\ step = s

Goto(s) == step' = s /\ UNCHANGED <<failed, hook, seen>>

(* Mutant: what the hook saw is kept for later.                            *)
HookEndsCached == hook' = "none" /\ step' = "state" /\ UNCHANGED seen

HookEnds == hook' = "none" /\ step' = "state" /\ seen' = None

Wanted == \/ hook \in Flushing
          \/ hook = "config" /\ FlushValues(seen) # stored

(* Errors that nothing catches and that come again when the hook is: a     *)
(* proxy that install cannot parse, and a first cloud that is not there.   *)
Doomed ==
    \/ step = "install" /\ ~ProxyParsed(CharmProxy(seen))
    \/ step = "commit" /\ hook = "joined" /\ Clouds(seen) \in NoClouds

(* _on_upgrade_charm: install_package stops the service.                   *)
Install ==
    /\ At("install") /\ ~Doomed
    /\ service' = "off"
    /\ Goto("state")
    /\ UNCHANGED <<inputs, leader, pending, stored, status, conf, outside,
                   changes, faults>>

ReadState ==
    /\ At("state") /\ Accepted(seen)
    /\ Goto(IF hook = "joined" THEN "commit" ELSE "image")
    /\ UNCHANGED <<inputs, leader, pending, unit, outside, changes, faults>>

(* catch_charm_errors: the unit is blocked, the service stays as it is.    *)
RefuseState ==
    /\ At("state") /\ ~Accepted(seen)
    /\ status' = "blocked"
    /\ missed' = (missed \/ hook \in Flushing)
    /\ HookEnds
    /\ UNCHANGED <<inputs, leader, pending, failed, stored, service, conf,
                   runners, told, builder, untold, changes, faults>>

(* What config-changed stores before it reconciles.                        *)
Stored == IF hook = "config" THEN FlushValues(seen) ELSE stored

FindImage ==
    /\ At("image") /\ ImageReady(seen)
    /\ Goto(IF hook = "start" THEN "commit" ELSE "setup")
    /\ UNCHANGED <<inputs, leader, pending, unit, outside, changes, faults>>

(* catch_charm_errors: the service is stopped.                             *)
MissImage ==
    /\ At("image") /\ ~ImageReady(seen)
    /\ status' = IF seen.image = None THEN "noImage" ELSE "waiting"
    /\ service' = "off"
    /\ stored' = Stored
    /\ missed' = (missed \/ Wanted)
    /\ HookEnds
    /\ UNCHANGED <<inputs, leader, pending, failed, conf, runners, told,
                   builder, untold, changes, faults>>

(* A configuration that config-changed never stored was in force meanwhile,*)
(* and goes for one that it stored: no hook sees a change.                 *)
Overlooked == /\ ~Wanted /\ runners # {}
              /\ FlushValues(conf) # stored /\ FlushValues(seen) = stored

(* manager_service.setup and wait_till_ready.                              *)
Setup ==
    /\ At("setup") /\ Runnable(seen)
    /\ service' = "on" /\ conf' = seen
    /\ missed' = (missed \/ Overlooked)
    /\ Goto(IF Wanted THEN "flush" ELSE "commit")
    /\ UNCHANGED <<inputs, leader, pending, stored, status, runners, told,
                   builder, untold, changes, faults>>

Flush ==
    /\ At("flush")
    /\ runners' = {} /\ missed' = FALSE
    /\ Goto("commit")
    /\ UNCHANGED <<inputs, leader, pending, unit, told, builder, untold,
                   changes, faults>>

(* _update_planner_flavor, the leader's task.                              *)
TellPlanner ==
    IF leader /\ seen.planner # None /\ inputs.planner # None
      THEN told' = PlannerData(seen) /\ untold' = FALSE
      ELSE UNCHANGED told /\ untold' = TRUE

(* The hook returns, and Juju keeps what it said.                          *)
Commit ==
    /\ At("commit") /\ ~Doomed
    /\ stored' = Stored
    /\ status' = IF hook \in Activating THEN "active" ELSE status
    /\ IF hook \in Reconciling THEN TellPlanner ELSE UNCHANGED <<told, untold>>
    /\ builder' = IF hook = "joined" /\ inputs.image # None
                    THEN Clouds(seen) ELSE builder
    /\ HookEnds
    /\ UNCHANGED <<inputs, leader, pending, failed, service, conf, runners,
                   missed, changes, faults>>

(* Mutant: a hook that fails is not run again.                             *)
HookRaisesOnce ==
    /\ HookEnds
    /\ UNCHANGED <<inputs, leader, pending, failed, stored, status, runners,
                   told, builder, untold, changes>>

HookRaises ==
    /\ failed' = hook /\ pending' = pending \cup {hook}
    /\ HookEnds
    /\ UNCHANGED <<inputs, leader, stored, status, runners, told, builder,
                   untold, changes>>

(* The service was stopped, and may have been started again.  There is no  *)
(* way around it if the service cannot run with what the charm accepted.   *)
SetupFails ==
    /\ At("setup")
    /\ IF Runnable(seen) THEN Fault ELSE UNCHANGED faults
    /\ \/ service' = "off" /\ UNCHANGED <<conf, missed>>
       \/ /\ Runnable(seen)
          /\ service' = "on" /\ conf' = seen
          /\ missed' = (missed \/ Overlooked)
    /\ HookRaises

(* Anything else that is not caught, such as a flush that is not answered. *)
HookFails ==
    /\ hook # "none" /\ step # "setup"
    /\ IF Doomed THEN UNCHANGED faults ELSE Fault
    /\ HookRaises
    /\ UNCHANGED <<service, conf, missed>>

-----------------------------------------------------------------------------
HookGoesOn == \/ Install \/ ReadState \/ RefuseState \/ FindImage \/ MissImage
              \/ Setup \/ Flush \/ Commit

WorldChanges ==
    \/ \E a \in Alternatives : SetOption(a[1], a[2])
    \/ \E s \in Rotating, c \in Contents : SetSecret(s, c)
    \/ \E i \in Images : SetImage(i)
    \/ \E p \in Planners : SetPlanner(p)
    \/ \E D \in SUBSET Debuggers : SetDebug(D)
    \/ LeaderChanges
    \/ Restarts

Next ==
    \/ WorldChanges
    \/ CreateRunner \/ FlushAction
    \/ \E e \in Events : Begin(e)
    \/ HookGoesOn
    \/ SetupFails \/ HookFails

(* Juju runs the hooks that are due, and a hook that runs goes on.         *)
Fairness == WF_vars(HookGoesOn \/ \E e \in Events : Begin(e))

Spec == Init /\ [][Next]_vars /\ Fairness

-----------------------------------------------------------------------------
Quiet == hook = "none" /\ pending = {}

(* A unit that is as its operator should want it.                          *)
Settled == /\ Quiet /\ status = "active"
           /\ Accepted(inputs) /\ ImageReady(inputs)

(* Type invariant: events, hooks, status, service and what was stored.     *)
TypeOK ==
    /\ leader \in BOOLEAN /\ missed \in BOOLEAN /\ untold \in BOOLEAN
    /\ pending \subseteq Events
    /\ failed \in pending \cup {"none"}
    /\ hook \in Events \cup {"none"} /\ step \in Steps
    /\ hook = "none" => seen = None
    /\ hook # "none" => failed = "none"
    /\ DOMAIN stored = FlushOptions
    /\ status \in {"installed", "active", "blocked", "noImage", "waiting"}
    /\ service \in {"on", "off"}
    /\ changes \in Nat /\ faults \in 0..MaxFaults

(* What the charm accepts the service can run, the list of clouds and the  *)
(* endpoint of the planner aside, which the charm does not look at: the    *)
(* rules of charm_state.py are at least as strict as those of the service. *)
AcceptedRuns == At("setup") => Runnable(seen) \/ Unchecked(seen)

(* A unit that reports to be active, has no hook left to run and whose     *)
(* configuration is in order has its service run with exactly this         *)
(* configuration, whatever hooks failed, were run again or ended early,    *)
(* connections for debugging aside, whose end is no event.                 *)
ActiveIsCurrent ==
    Settled => /\ service = "on"
               /\ Application([inputs EXCEPT !.debug = conf.debug])
                    = Application(conf)

(* A runner of the configuration that is in force.  (That a connection for *)
(* debugging goes is no event: a runner may keep it.)                      *)
UpToDate(r) ==
    /\ r.identity = Identity(conf)
    /\ r.boot.external = conf.opt.external
    /\ r.boot.debug = None => Debug(conf) = {}

(* Such a unit has no idle runners of an earlier authentication, path,     *)
(* label, cloud credential or image, nor any that lack a connection for    *)
(* debugging or the guard against external contributors, unless a flush    *)
(* was lost, see missed.                                                   *)
NoStaleRunners == Settled /\ ~missed => \A r \in runners : UpToDate(r)

(* The planner, once it was told, knows the labels of the runners and      *)
(* their least number.                                                     *)
PlannerKnows ==
    Settled /\ inputs.planner # None /\ ~untold =>
        /\ told.labels = RunnerLabels(Application(conf))
        /\ told.least = Application(conf).combinations[1].base

(* A flush that is lost is caught up before the unit is settled.           *)
NoFlushIsLost == Settled => \A r \in runners : UpToDate(r)

(* Whenever the world leaves inputs that the service can run with, the     *)
(* service comes to run with them: no error that is caught and no hook     *)
(* that fails leaves it behind for good.                                   *)
Follows ==
    []<>(Accepted(inputs) /\ ImageReady(inputs) /\ Runnable(inputs) =>
            /\ service = "on"
            /\ Application([inputs EXCEPT !.debug = conf.debug])
                 = Application(conf))
=============================================================================
