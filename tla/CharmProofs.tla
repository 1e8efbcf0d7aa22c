---------------------------- MODULE CharmProofs ----------------------------
(***************************************************************************)
(* What holds of the charm for all options, secrets and relations: what it *)
(* accepts the service can run; an active unit runs what it was last told  *)
(* to run; its runners are made of that unless a flush was lost; and the   *)
(* planner knows their labels.                                             *)
(***************************************************************************)
EXTENDS Charm, TLAPS

(***************************************************************************)
(* The configuration.                                                      *)
(***************************************************************************)

(* A sequence of one.                                                      *)
LEMMA SingletonSequence ==
    \A e : <<e>> # <<>> /\ \A i \in DOMAIN <<e>> : <<e>>[i] = e
<1> TAKE e
<1>1. <<e>> # <<>>
  OBVIOUS
<1>2. ASSUME NEW i \in DOMAIN <<e>> PROVE <<e>>[i] = e
  OBVIOUS
<1>. QED  BY <1>1, <1>2

(* A proxy is an address or it is not, on both sides of the charm; a       *)
(* maximum is compared by both; a planner is complete or not there.  What  *)
(* charm_state.py accepts passes base.py and build_pressure_reconciler.    *)
LEMMA AcceptedIsRunnable ==
    ASSUME NEW in, "" \notin Malformed, Accepted(in), ImageReady(in)
    PROVE  Runnable(in) \/ Unchecked(in)
<1> SUFFICES ASSUME ~Unchecked(in) PROVE Runnable(in)
  OBVIOUS
<1> DEFINE app == Application(in)
<1>1. /\ app.clouds = Clouds(in)
      /\ app.aproxy = in.opt.aproxy
      /\ app.runnerProxy = RunnerProxy(in)
      /\ app.combinations = Combinations(in)
      /\ app.plannerUrl = PlannerField(in, "endpoint")
      /\ app.plannerToken = PlannerField(in, "token")
      /\ app.interval = in.opt.interval
  BY DEF Application
<1>2. /\ Clouds(in) \notin NoClouds
      /\ PlannerField(in, "endpoint") \notin Malformed
  BY DEF Unchecked
<1>3. in.opt.aproxy => HasAddress(RunnerProxy(in))
  BY DEF Accepted, ProxyOk
<1>4. in.opt.interval >= 1
  BY DEF Accepted, CharmConfigOk
<1>5. /\ Combinations(in) # <<>>
      /\ \A i \in DOMAIN Combinations(in) : CapOk(Combinations(in)[i])
  <2>1. CapOk(Machines(in))
    BY DEF Accepted, MachinesOk
  <2> DEFINE c == [image |-> in.image.id, imageLabels |-> in.image.tags,
                   flavor |-> Flavor(in).flavor,
                   flavorLabels |-> FlavorLabels(in),
                   base |-> Machines(in).base, max |-> Machines(in).max]
  <2>2. Combinations(in) = <<c>>
    BY DEF Combinations
  <2>3. c.base = Machines(in).base /\ c.max = Machines(in).max
    OBVIOUS
  <2>4. CapOk(c)
    BY <2>1, <2>3 DEF CapOk
  <2> HIDE DEF c
  <2>. QED  BY <2>2, <2>4, SingletonSequence
<1>6. (PlannerField(in, "endpoint") = "") <=> (PlannerField(in, "token") = "")
  BY DEF PlannerField, Planner, Missing
<1>. QED  BY <1>1, <1>2, <1>3, <1>4, <1>5, <1>6 DEF Runnable, Valid, Starts

(* Inputs that are accepted alike and make runners alike, and inputs that  *)
(* make the same application, connections for debugging aside.             *)
Core(x, y) ==
    /\ x.opt = y.opt /\ x.juju = y.juju /\ x.image = y.image
    /\ \A o \in SecretOptions :
          x.opt[o] \in Secrets => x.secret[x.opt[o]] = y.secret[x.opt[o]]
    /\ DebugOk(x) <=> DebugOk(y)

Same(x, y) ==
    /\ Core(x, y) /\ x.planner = y.planner
    /\ \A s \in RefersTo(x) \cap Secrets : x.secret[s] = y.secret[s]

LEMMA CoreIsEquivalence ==
    /\ \A x : Core(x, x)
    /\ \A x, y : Core(x, y) => Core(y, x)
    /\ \A x, y, z : Core(x, y) /\ Core(y, z) => Core(x, z)
  BY DEF Core

LEMMA SameIsEquivalence ==
    /\ \A x : Same(x, x)
    /\ \A x, y : Same(x, y) => Same(y, x)
    /\ \A x, y, z : Same(x, y) /\ Same(y, z) => Same(x, z)
<1>1. \A x, y : Core(x, y) /\ x.planner = y.planner => RefersTo(x) = RefersTo(y)
  BY DEF Core, RefersTo
<1>. QED  BY <1>1, CoreIsEquivalence DEF Same

(* The parts that runners are made of, from texts that are the same.       *)
LEMMA AuthParts ==
    ASSUME NEW x, NEW y, IsInputs(x),
           x.opt.token = y.opt.token,
           x.opt.tokenSecret = y.opt.tokenSecret,
           x.opt.appClient = y.opt.appClient,
           x.opt.installation = y.opt.installation,
           x.opt.keySecret = y.opt.keySecret,
           x.opt.cloudsSecret = y.opt.cloudsSecret,
           \A o \in SecretOptions :
              x.opt[o] \in Secrets => x.secret[x.opt[o]] = y.secret[x.opt[o]]
    PROVE  /\ Token(x) = Token(y)
           /\ AuthOk(x) <=> AuthOk(y)
           /\ AuthOk(x) => Auth(x) = Auth(y)
           /\ x.opt.cloudsSecret # "" => Clouds(x) = Clouds(y)
<1>1. /\ x.opt.tokenSecret # "" =>
            x.secret[x.opt.tokenSecret] = y.secret[x.opt.tokenSecret]
      /\ x.opt.keySecret # "" =>
            x.secret[x.opt.keySecret] = y.secret[x.opt.keySecret]
      /\ x.opt.cloudsSecret # "" =>
            x.secret[x.opt.cloudsSecret] = y.secret[x.opt.cloudsSecret]
  BY DEF SecretOptions, IsInputs
<1>2. Token(x) = Token(y)
  BY <1>1 DEF Token
<1>3. AppFieldsSet(x) = AppFieldsSet(y)
  BY DEF AppFieldsSet, AppFields
<1>4. AuthOk(x) <=> AuthOk(y)
  BY <1>1, <1>2, <1>3 DEF AuthOk
<1>5. AuthOk(x) => Auth(x) = Auth(y)
  <2>1. AuthOk(x) /\ Token(x) = "" => x.opt.keySecret # ""
    BY DEF AuthOk, AppFieldsSet, AppFields
  <2>. QED  BY <2>1, <1>1, <1>2 DEF Auth
<1>6. x.opt.cloudsSecret # "" => Clouds(x) = Clouds(y)
  BY <1>1 DEF Clouds
<1>. QED  BY <1>2, <1>4, <1>5, <1>6

LEMMA CoreAccepted ==
    ASSUME NEW x, NEW y, Core(x, y), IsInputs(x)
    PROVE  /\ AuthOk(x) <=> AuthOk(y)
           /\ AuthOk(x) => Auth(x) = Auth(y)
           /\ Clouds(x) = Clouds(y)
           /\ Accepted(x) <=> Accepted(y)
           /\ ImageReady(x) <=> ImageReady(y)
<1>1. /\ x.opt = y.opt /\ x.juju = y.juju /\ x.image = y.image
      /\ DebugOk(x) <=> DebugOk(y)
  BY DEF Core
<1>2. /\ AuthOk(x) <=> AuthOk(y)
      /\ AuthOk(x) => Auth(x) = Auth(y)
      /\ x.opt.cloudsSecret # "" => Clouds(x) = Clouds(y)
  BY <1>1, AuthParts DEF Core
<1>3. Clouds(x) = Clouds(y)
  BY <1>1, <1>2 DEF Clouds
<1>4. CharmConfigOk(x) <=> CharmConfigOk(y)
  BY <1>1, <1>2, <1>3
  DEF CharmConfigOk, PathOk, CloudsOk, LabelsOk, ExcludedOk, PortsOk
<1>5. RunnerProxy(x) = RunnerProxy(y) /\ CharmProxy(x) = CharmProxy(y)
  BY <1>1 DEF RunnerProxy, CharmProxy
<1>6. ProxyOk(x) <=> ProxyOk(y)
  BY <1>1, <1>5 DEF ProxyOk
<1>7. Machines(x) = Machines(y)
  BY <1>1 DEF Machines
<1>8. MachinesOk(x) <=> MachinesOk(y)
  BY <1>1, <1>7 DEF MachinesOk
<1>9. FlavorOk(x) <=> FlavorOk(y)
  BY <1>1 DEF FlavorOk
<1>10. OtelOk(x) <=> OtelOk(y)
  BY <1>1 DEF OtelOk
<1>. QED  BY <1>1, <1>2, <1>3, <1>4, <1>6, <1>8, <1>9, <1>10
          DEF Accepted, ImageReady

LEMMA SameAccepted ==
    ASSUME NEW x, NEW y, Same(x, y), IsInputs(x)
    PROVE  /\ AuthOk(x) => Auth(x) = Auth(y)
           /\ Clouds(x) = Clouds(y)
           /\ Planner(x) = Planner(y)
           /\ Accepted(x) <=> Accepted(y)
           /\ ImageReady(x) <=> ImageReady(y)
<1>1. Core(x, y) /\ x.planner = y.planner
  BY DEF Same
<1>2. Planner(x) = Planner(y)
  <2>1. x.planner # None /\ x.planner.token # "" =>
           x.secret[x.planner.token] = y.secret[x.planner.token]
    BY DEF Same, RefersTo, IsInputs
  <2>. QED  BY <1>1, <2>1 DEF Planner
<1>. QED  BY <1>1, <1>2, CoreAccepted

LEMMA SameApplication ==
    ASSUME NEW x, NEW y, Same(x, y), IsInputs(x), AuthOk(x),
           x.debug = y.debug
    PROVE  Application(x) = Application(y)
<1>1. x.opt = y.opt /\ x.juju = y.juju /\ x.image = y.image
  BY DEF Same, Core
<1>2. Path(x) = Path(y)
  BY <1>1 DEF Path
<1>3. RunnerProxy(x) = RunnerProxy(y)
  BY <1>1 DEF RunnerProxy, CharmProxy
<1>4. Flavor(x) = Flavor(y)
  BY <1>1 DEF Flavor
<1>5. FlavorLabels(x) = FlavorLabels(y)
  BY <1>4 DEF FlavorLabels
<1>6. CharmLabels(x) = CharmLabels(y)
  BY <1>1, <1>5 DEF CharmLabels
<1>7. Machines(x) = Machines(y)
  BY <1>1 DEF Machines
<1>8. Combinations(x) = Combinations(y)
  BY <1>1, <1>4, <1>5, <1>7 DEF Combinations, ImageReady
<1>9. Debug(x) = Debug(y)
  BY DEF Debug
<1>10. /\ PlannerField(x, "endpoint") = PlannerField(y, "endpoint")
       /\ PlannerField(x, "token") = PlannerField(y, "token")
  BY SameAccepted DEF PlannerField
<1>. QED
  BY <1>1, <1>2, <1>3, <1>6, <1>8, <1>9, <1>10, SameAccepted DEF Application

(***************************************************************************)
(* The hooks.                                                              *)
(***************************************************************************)

(* The types are kept whatever the world and the hooks do: a hook that     *)
(* failed stays due, and what is stored stays complete.                    *)
LEMMA TypeStep == TypeOK /\ [Next]_vars => TypeOK'
<1> SUFFICES ASSUME TypeOK, [Next]_vars PROVE TypeOK'
  OBVIOUS
<1>0. MaxFaults \in Nat
  BY CharmAssumption
<1>1. ASSUME WorldChanges PROVE TypeOK'
  <2>1. ASSUME NEW o, NEW v, SetOption(o, v) PROVE TypeOK'
    BY <2>1 DEF TypeOK, SetOption, Changes, World, hooks, unit, Events,
                Reconciling
  <2>2. ASSUME NEW s, NEW c, SetSecret(s, c) PROVE TypeOK'
    BY <2>2 DEF TypeOK, SetSecret, Changes, World, hooks, unit, Events,
                Reconciling
  <2>3. ASSUME NEW i, SetImage(i) PROVE TypeOK'
    BY <2>3 DEF TypeOK, SetImage, Changes, World, hooks, unit, Events,
                Reconciling
  <2>4. ASSUME NEW p, SetPlanner(p) PROVE TypeOK'
    BY <2>4 DEF TypeOK, SetPlanner, Changes, World, hooks, unit, Events,
                Reconciling
  <2>5. ASSUME NEW D, SetDebug(D) PROVE TypeOK'
    BY <2>5 DEF TypeOK, SetDebug, Changes, World, hooks, unit, Events,
                Reconciling
  <2>6. CASE LeaderChanges
    BY <2>6 DEF TypeOK, LeaderChanges, Changes, hooks, unit, outside
  <2>7. CASE Restarts
    BY <2>7 DEF TypeOK, Restarts, Changes, hooks, unit, outside, Events,
                Reconciling
  <2>. QED  BY <1>1, <2>1, <2>2, <2>3, <2>4, <2>5, <2>6, <2>7 DEF WorldChanges
<1>2. CASE CreateRunner \/ FlushAction
  BY <1>2 DEF TypeOK, CreateRunner, FlushAction, hooks, unit
<1>3. ASSUME NEW e \in Events, Begin(e) PROVE TypeOK'
  BY <1>3 DEF TypeOK, Begin, unit, outside, FirstStep, Steps, Events,
              Reconciling
<1>4. ASSUME HookGoesOn PROVE TypeOK'
  <2>1. CASE Install
    BY <2>1 DEF TypeOK, Install, At, Goto, outside, Steps
  <2>2. CASE ReadState
    BY <2>2 DEF TypeOK, ReadState, At, Goto, unit, outside, Steps
  <2>3. CASE RefuseState
    BY <2>3 DEF TypeOK, RefuseState, At, HookEnds, Steps
  <2>4. CASE FindImage
    BY <2>4 DEF TypeOK, FindImage, At, Goto, unit, outside, Steps
  <2>5. CASE MissImage
    BY <2>5 DEF TypeOK, MissImage, At, HookEnds, Steps, Stored, FlushValues
  <2>6. CASE Setup
    BY <2>6 DEF TypeOK, Setup, At, Goto, Steps
  <2>7. CASE Flush
    BY <2>7 DEF TypeOK, Flush, At, Goto, unit, Steps
  <2>8. CASE Commit
    BY <2>8 DEF TypeOK, Commit, At, HookEnds, Steps, Stored, FlushValues,
                TellPlanner
  <2>. QED  BY <1>4, <2>1, <2>2, <2>3, <2>4, <2>5, <2>6, <2>7, <2>8
            DEF HookGoesOn
<1>5. CASE SetupFails
  <2>1. missed' \in BOOLEAN
    BY <1>5 DEF TypeOK, SetupFails
  <2>. QED  BY <1>5, <1>0, <2>1 DEF TypeOK, SetupFails, HookRaises, HookEnds,
                                    At, Fault, Steps, Events, Reconciling
<1>6. CASE HookFails
  BY <1>6, <1>0 DEF TypeOK, HookFails, HookRaises, HookEnds, Fault, Steps,
                    Events, Reconciling
<1>7. CASE UNCHANGED vars
  BY <1>7 DEF TypeOK, vars, hooks, unit, outside
<1>. QED  BY <1>1, <1>2, <1>3, <1>4, <1>5, <1>6, <1>7 DEF Next

-----------------------------------------------------------------------------
(* The invariant behind the rest.  A hook that passed its checks runs on   *)
(* inputs that are accepted, and once it has set the service up, that runs *)
(* them.                                                                   *)
StepInv ==
    /\ step = "install" => hook = "upgrade"
    /\ step = "image" => hook # "joined"
    /\ hook # "none" /\ step \in {"setup", "flush"} =>
          hook \in Reconciling /\ ImageReady(seen)
    /\ hook # "none" /\ step \in {"image", "setup", "flush", "commit"} =>
          hook = "start" \/ Accepted(seen)
    /\ hook \in Reconciling /\ step \in {"flush", "commit"} =>
          service = "on" /\ conf = seen

(* A hook that reconciles is due.                                          *)
Due == \E e \in Reconciling : e \in pending

(* If none is due, the hook that runs has seen the inputs there are; if    *)
(* none runs either, the service has been set up with them.  (A relation   *)
(* to an image that ends is no event.)                                     *)
RunInv ==
    /\ IsInputs(inputs)
    /\ hook # "none" => IsInputs(seen)
    /\ hook # "none" /\ ~Due /\ inputs.image # None => Same(inputs, seen)
    /\ hook \notin Reconciling /\ ~Due /\ Accepted(inputs)
          /\ ImageReady(inputs) => service = "on" /\ Same(inputs, conf)

(* A service that runs, or has made runners, was set up with some inputs.  *)
Live == service = "on" \/ runners # {}
ConfInv == Live => IsInputs(conf)

CharmInv == TypeOK /\ StepInv /\ RunInv /\ ConfInv

(* The world does not reach into the unit.                                 *)
LEMMA WorldLeaves ==
    WorldChanges => UNCHANGED <<hook, step, seen, service, conf, stored,
                                runners, missed, untold>>
  BY DEF WorldChanges, SetOption, SetSecret, SetImage, SetPlanner, SetDebug,
         LeaderChanges, Restarts, World, hooks, unit, outside

LEMMA StepInvStep == TypeOK /\ StepInv /\ [Next]_vars => StepInv'
<1> SUFFICES ASSUME TypeOK, StepInv, [Next]_vars PROVE StepInv'
  OBVIOUS
<1>1. ASSUME WorldChanges PROVE StepInv'
  <2>. QED  BY <1>1, WorldLeaves DEF StepInv
<1>2. CASE CreateRunner \/ FlushAction
  BY <1>2 DEF StepInv, CreateRunner, FlushAction, hooks, unit
<1>3. ASSUME NEW e \in Events, Begin(e) PROVE StepInv'
  BY <1>3 DEF StepInv, Begin, FirstStep, Events, Reconciling
<1>4. ASSUME HookGoesOn PROVE StepInv'
  <2>1. CASE Install
    BY <2>1 DEF StepInv, Install, At, Goto
  <2>2. CASE ReadState
    <3>1. step' = "commit" => hook' \notin Reconciling
      BY <2>1, <2>2 DEF ReadState, At, Goto, Reconciling
    <3>. QED  BY <2>2, <3>1 DEF StepInv, ReadState, At, Goto
  <2>3. CASE RefuseState \/ MissImage
    BY <2>3 DEF StepInv, RefuseState, MissImage, HookEnds, Reconciling
  <2>4. CASE FindImage
    <3>1. hook # "start" => hook \in Reconciling
      BY <2>4 DEF StepInv, TypeOK, FindImage, At, Events
    <3>. QED  BY <2>4, <3>1 DEF StepInv, FindImage, At, Goto, unit, Reconciling
  <2>5. CASE Setup
    BY <2>5 DEF StepInv, Setup, At, Goto
  <2>6. CASE Flush
    BY <2>6 DEF StepInv, Flush, At, Goto, unit
  <2>7. CASE Commit
    BY <2>7 DEF StepInv, Commit, HookEnds, Reconciling
  <2>. QED  BY <1>4, <2>1, <2>2, <2>3, <2>4, <2>5, <2>6, <2>7 DEF HookGoesOn
<1>5. CASE SetupFails \/ HookFails
  BY <1>5 DEF StepInv, SetupFails, HookFails, HookRaises, HookEnds,
              Reconciling
<1>6. CASE UNCHANGED vars
  BY <1>6 DEF StepInv, vars, hooks, unit
<1>. QED  BY <1>1, <1>2, <1>3, <1>4, <1>5, <1>6 DEF Next

(* No hook is due that flushes in any case, and there is an image.         *)
Steady == /\ \A e \in Flushing : e \notin pending
          /\ inputs.image # None

(* What changed from y to x is no reason for such a hook: connections for  *)
(* debugging that went, options, and secrets that y does not refer to.     *)
Newer(x, y) ==
    /\ x.image = y.image /\ Debug(x) \subseteq Debug(y)
    /\ \A s \in RefersTo(y) \cap Secrets : x.secret[s] = y.secret[s]

(* A change of the world that is no reason for a hook that reconciles      *)
(* leaves inputs that are the same to the charm; one that is no reason for *)
(* a hook that flushes leaves inputs that make the same runners, options   *)
(* aside.                                                                  *)
LEMMA WorldStep ==
    ASSUME IsInputs(inputs), WorldChanges
    PROVE  /\ IsInputs(inputs')
           /\ ~Due' /\ inputs'.image # None =>
                 /\ ~Due /\ inputs.image # None
                 /\ Same(inputs', inputs) /\ told' = told
           /\ Steady' =>
                 /\ Steady
                 /\ \A y : RefersTo(y) \subseteq Referenced /\ Newer(inputs, y)
                              => Newer(inputs', y)
           /\ Steady' /\ "config" \notin pending' =>
                 "config" \notin pending /\ Core(inputs', inputs)
<1> DEFINE Goal ==
             /\ IsInputs(inputs')
             /\ ~Due' /\ inputs'.image # None =>
                   /\ ~Due /\ inputs.image # None
                   /\ Same(inputs', inputs) /\ told' = told
             /\ Steady' =>
                   /\ Steady
                   /\ \A y : RefersTo(y) \subseteq Referenced
                                /\ Newer(inputs, y) => Newer(inputs', y)
             /\ Steady' /\ "config" \notin pending' =>
                   "config" \notin pending /\ Core(inputs', inputs)
<1> HIDE DEF Goal
<1>0. /\ \A e \in Reconciling : e \in pending' => Due'
      /\ \A e \in Flushing : e \in pending' => ~Steady'
      /\ inputs'.image = None => ~Steady'
      /\ pending \subseteq pending' => (Due => Due')
      /\ pending \subseteq pending' /\ inputs.image = inputs'.image =>
            (Steady' => Steady)
  BY DEF Due, Steady
<1>1. ASSUME NEW a \in Alternatives, SetOption(a[1], a[2]) PROVE Goal
  <2>1. /\ "config" \in pending' /\ "config" \in Reconciling
        /\ pending \subseteq pending'
    BY <1>1 DEF SetOption, Reconciling
  <2>2. Due'
    BY <2>1, <1>0
  <2>3. /\ a[1] \in SecretOptions => a[2] \in Secrets \cup {""}
        /\ a[1] = "labels" => a[2] \in Seq(Range(a[2]))
    BY CharmAssumption
  <2>4. inputs' = [inputs EXCEPT !.opt[a[1]] = a[2]]
    BY <1>1 DEF SetOption
  <2>5. /\ inputs'.secret = inputs.secret /\ inputs'.planner = inputs.planner
        /\ inputs'.image = inputs.image /\ inputs'.debug = inputs.debug
        /\ DOMAIN inputs' = DOMAIN inputs
        /\ inputs'.opt = [inputs.opt EXCEPT ![a[1]] = a[2]]
    BY <2>4 DEF IsInputs
  <2>6. ASSUME NEW o \in SecretOptions
        PROVE  inputs'.opt[o] \in Secrets \cup {""}
    BY <2>3, <2>5 DEF IsInputs
  <2>7. inputs'.opt.labels \in Seq(Range(inputs'.opt.labels))
    <3>1. inputs'.opt.labels = IF a[1] = "labels" THEN a[2]
                                                  ELSE inputs.opt.labels
      BY <2>5 DEF IsInputs
    <3>2. inputs.opt.labels \in Seq(Range(inputs.opt.labels))
      BY DEF IsInputs
    <3>3. CASE a[1] = "labels"
      <4>1. inputs'.opt.labels = a[2]
        BY <3>1, <3>3
      <4>. QED  BY <4>1, <2>3, <3>3
    <3>4. CASE a[1] # "labels"
      <4>1. inputs'.opt.labels = inputs.opt.labels
        BY <3>1, <3>4
      <4>. QED  BY <4>1, <3>2
    <3>. QED  BY <3>3, <3>4
  <2>8. IsInputs(inputs')
    <3>1. DOMAIN inputs'.opt = DOMAIN inputs.opt
      BY <2>5
    <3>. QED  BY <2>5, <2>6, <2>7, <3>1 DEF IsInputs
  <2>9. \A y : Newer(inputs, y) => Newer(inputs', y)
    BY <2>5 DEF Newer, Debug
  <2>. QED  BY <2>1, <2>2, <2>5, <2>8, <2>9, <1>0 DEF Goal
<1>2. ASSUME NEW s \in Rotating, NEW c, SetSecret(s, c) PROVE Goal
  <2>1. inputs' = [inputs EXCEPT !.secret[s] = c] /\ told' = told
    BY <1>2 DEF SetSecret
  <2>2. /\ inputs'.opt = inputs.opt /\ inputs'.image = inputs.image
        /\ inputs'.planner = inputs.planner /\ inputs'.juju = inputs.juju
        /\ inputs'.debug = inputs.debug
        /\ inputs'.secret = [inputs.secret EXCEPT ![s] = c]
        /\ DOMAIN inputs' = DOMAIN inputs
    BY <2>1 DEF IsInputs
  <2>3. IsInputs(inputs')
    BY <2>2 DEF IsInputs
  <2>4. CASE "secret" \in pending'
    <3>1. "secret" \in Reconciling /\ "secret" \in Flushing
      BY DEF Reconciling, Flushing
    <3>. QED  BY <2>4, <3>1, <1>0, <2>3 DEF Goal
  <2>5. CASE "secret" \notin pending'
    <3>1. pending' = pending /\ s \notin Referenced
      BY <1>2, <2>5 DEF SetSecret
    <3>2. RefersTo(inputs') \subseteq Referenced
      BY <2>2 DEF RefersTo, Referenced
    <3>3. \A t \in Secrets : t # s => inputs'.secret[t] = inputs.secret[t]
      BY <2>2 DEF IsInputs
    <3>4. DebugOk(inputs') <=> DebugOk(inputs)
      BY <2>2 DEF DebugOk, Debug
    <3>5. \A o \in SecretOptions : inputs'.opt[o] \in RefersTo(inputs')
      BY DEF RefersTo
    <3>6. \A o \in SecretOptions : inputs'.opt[o] # s
      BY <3>1, <3>2, <3>5
    <3>7. Core(inputs', inputs)
      BY <2>2, <3>3, <3>4, <3>6 DEF Core
    <3>8. Same(inputs', inputs)
      BY <2>2, <3>1, <3>2, <3>3, <3>7 DEF Same
    <3>9. \A y : RefersTo(y) \subseteq Referenced /\ Newer(inputs, y)
                    => Newer(inputs', y)
      BY <2>2, <3>1, <3>3 DEF Newer, Debug
    <3>. QED  BY <2>1, <2>2, <2>3, <3>1, <3>7, <3>8, <3>9, <1>0 DEF Goal, Due
  <2>. QED  BY <2>4, <2>5
<1>3. ASSUME NEW i \in Images, SetImage(i) PROVE Goal
  <2>1. inputs' = [inputs EXCEPT !.image = i]
    BY <1>3 DEF SetImage
  <2>2. inputs'.image = i
    BY <2>1 DEF IsInputs
  <2>3. IsInputs(inputs')
    BY <2>1 DEF IsInputs
  <2>4. i # None => Due' /\ ~Steady'
    <3>1. /\ i # None => "image" \in pending'
          /\ "image" \in Reconciling /\ "image" \in Flushing
      BY <1>3 DEF SetImage, Reconciling, Flushing
    <3>. QED  BY <3>1, <1>0
  <2>5. ~Steady'
    BY <2>2, <2>4, <1>0
  <2>. QED  BY <2>2, <2>3, <2>4, <2>5 DEF Goal
<1>4. ASSUME NEW p \in Planners, SetPlanner(p) PROVE Goal
  <2>1. inputs' = [inputs EXCEPT !.planner = p]
    BY <1>4 DEF SetPlanner
  <2>2. p # None => p.token \in Secrets \cup {""}
    BY CharmAssumption
  <2>3. IsInputs(inputs')
    BY <2>1, <2>2 DEF IsInputs
  <2>4. /\ "planner" \in pending' /\ "planner" \in Reconciling
        /\ pending' = pending \cup {"planner"}
    BY <1>4 DEF SetPlanner, Reconciling
  <2>5. /\ inputs'.opt = inputs.opt /\ inputs'.image = inputs.image
        /\ inputs'.juju = inputs.juju /\ inputs'.secret = inputs.secret
        /\ inputs'.debug = inputs.debug
    BY <2>1 DEF IsInputs
  <2>6. \A y : Newer(inputs, y) => Newer(inputs', y)
    BY <2>5 DEF Newer, Debug
  <2>7. Core(inputs', inputs)
    BY <2>5 DEF Core, DebugOk, Debug
  <2>. QED  BY <2>3, <2>4, <2>5, <2>6, <2>7, <1>0 DEF Goal
<1>5. ASSUME NEW D \in SUBSET Debuggers, SetDebug(D) PROVE Goal
  <2>1. /\ inputs' = [inputs EXCEPT !.debug = D] /\ DebugOk(inputs)
        /\ told' = told
    BY <1>5 DEF SetDebug
  <2>2. /\ inputs'.opt = inputs.opt /\ inputs'.image = inputs.image
        /\ inputs'.planner = inputs.planner /\ inputs'.juju = inputs.juju
        /\ inputs'.debug = D /\ inputs'.secret = inputs.secret
        /\ DOMAIN inputs' = DOMAIN inputs
    BY <2>1 DEF IsInputs
  <2>3. Debuggers \cap (Malformed \cup {None}) = {}
    BY CharmAssumption
  <2>4. IsInputs(inputs')
    BY <2>2, <2>3 DEF IsInputs
  <2>5. DebugOk(inputs')
    BY <2>2, <2>3 DEF DebugOk, Debug
  <2>6. Core(inputs', inputs)
    BY <2>1, <2>2, <2>5 DEF Core
  <2>7. Same(inputs', inputs)
    BY <2>2, <2>6 DEF Same
  <2>8. pending \subseteq pending'
    BY <1>5 DEF SetDebug
  <2>9. Steady' => \A y : Newer(inputs, y) => Newer(inputs', y)
    <3>1. /\ "debug" \in Flushing
          /\ ~(D \subseteq inputs.debug) => "debug" \in pending'
      BY <1>5 DEF SetDebug, Flushing
    <3>2. Steady' => D \subseteq inputs.debug
      BY <3>1, <1>0
    <3>. QED  BY <3>2, <2>2 DEF Newer, Debug
  <2>. QED  BY <2>1, <2>2, <2>4, <2>6, <2>7, <2>8, <2>9, <1>0 DEF Goal
<1>6. ASSUME LeaderChanges \/ Restarts PROVE Goal
  <2>1. /\ inputs' = inputs /\ pending \subseteq pending' /\ told' = told
    BY <1>6 DEF LeaderChanges, Restarts, outside
  <2>. QED  BY <2>1, <1>0, SameIsEquivalence, CoreIsEquivalence DEF Goal
<1>7. Goal
  BY <1>1, <1>2, <1>3, <1>4, <1>5, <1>6 DEF WorldChanges
<1>. QED  BY <1>7 DEF Goal

(* Inputs that are the same as those a hook was refused for, are refused.  *)
LEMMA RunInvStep == CharmInv /\ [Next]_vars => RunInv'
<1> SUFFICES ASSUME CharmInv, [Next]_vars PROVE RunInv'
  OBVIOUS
<1>0. TypeOK /\ StepInv /\ RunInv
  BY DEF CharmInv
<1>1. ASSUME WorldChanges PROVE RunInv'
  <2>1. /\ UNCHANGED <<hook, step, seen, service, conf>>
        /\ IsInputs(inputs')
        /\ ~Due' /\ inputs'.image # None =>
              /\ ~Due /\ inputs.image # None
              /\ Same(inputs', inputs)
    BY <1>0, <1>1, WorldStep, WorldLeaves DEF RunInv
  <2>2. hook' # "none" => IsInputs(seen')
    BY <1>0, <2>1 DEF RunInv
  <2>3. hook' # "none" /\ ~Due' /\ inputs'.image # None => Same(inputs', seen')
    BY <1>0, <2>1, SameIsEquivalence DEF RunInv
  <2>4. ASSUME hook' \notin Reconciling, ~Due', Accepted(inputs'),
               ImageReady(inputs')
        PROVE  service' = "on" /\ Same(inputs', conf')
    <3>1. inputs'.image # None
      BY <2>4 DEF ImageReady
    <3>2. Accepted(inputs) /\ ImageReady(inputs)
      BY <2>1, <2>4, <3>1, SameAccepted
    <3>3. service = "on" /\ Same(inputs, conf)
      BY <1>0, <2>1, <2>4, <3>1, <3>2 DEF RunInv
    <3>. QED  BY <2>1, <2>4, <3>1, <3>3, SameIsEquivalence
  <2>. QED  BY <2>1, <2>2, <2>3, <2>4 DEF RunInv
<1>2. CASE CreateRunner \/ FlushAction
  <2>1. UNCHANGED <<inputs, pending, hook, seen, service, conf>>
    BY <1>2 DEF CreateRunner, FlushAction, hooks, unit
  <2>. QED  BY <1>0, <2>1 DEF RunInv, Due
<1>3. ASSUME NEW e \in Events, Begin(e) PROVE RunInv'
  <2>1. /\ inputs' = inputs /\ seen' = inputs /\ hook' = e
        /\ service' = service /\ conf' = conf
        /\ pending' = pending \ {e} /\ hook = "none"
    BY <1>3 DEF Begin, unit
  <2>2. Same(inputs', seen')
    BY <2>1, SameIsEquivalence
  <2>3. hook' \notin Reconciling /\ ~Due' => ~Due
    BY <2>1 DEF Due
  <2>4. hook \notin Reconciling
    BY <2>1 DEF Reconciling
  <2>. QED  BY <1>0, <2>1, <2>2, <2>3, <2>4 DEF RunInv
<1>4. CASE Install \/ ReadState \/ FindImage \/ Setup \/ Flush
  <2>1. UNCHANGED <<inputs, pending, hook, seen>>
    BY <1>4 DEF Install, ReadState, FindImage, Setup, Flush, Goto
  <2>2. hook \in Reconciling \/ UNCHANGED <<service, conf>>
    <3>1. CASE Install
      BY <1>0, <3>1 DEF StepInv, Install, At, Reconciling
    <3>2. CASE Setup
      BY <1>0, <3>2 DEF StepInv, Setup, At
    <3>3. CASE ReadState \/ FindImage \/ Flush
      BY <3>3 DEF ReadState, FindImage, Flush, unit
    <3>. QED  BY <1>4, <3>1, <3>2, <3>3
  <2>. QED  BY <1>0, <2>1, <2>2 DEF RunInv, Due
<1>5. CASE RefuseState \/ MissImage
  <2>1. /\ UNCHANGED <<inputs, pending>> /\ hook # "none" /\ hook' = "none"
        /\ ~Accepted(seen) \/ ~ImageReady(seen)
    BY <1>5 DEF RefuseState, MissImage, At, HookEnds
  <2>2. ASSUME ~Due', Accepted(inputs'), ImageReady(inputs') PROVE FALSE
    <3>1. ~Due /\ inputs.image # None
      BY <2>1, <2>2 DEF Due, ImageReady
    <3>2. Same(inputs, seen)
      BY <1>0, <2>1, <3>1 DEF RunInv
    <3>3. Accepted(seen) /\ ImageReady(seen)
      BY <1>0, <2>1, <2>2, <3>2, SameAccepted DEF RunInv
    <3>. QED  BY <2>1, <3>3
  <2>. QED  BY <1>0, <2>1, <2>2 DEF RunInv
<1>6. CASE Commit
  <2>1. /\ UNCHANGED <<inputs, pending, service, conf>>
        /\ hook # "none" /\ step = "commit" /\ hook' = "none"
    BY <1>6 DEF Commit, At, HookEnds
  <2>2. ASSUME ~Due', Accepted(inputs'), ImageReady(inputs')
        PROVE  service' = "on" /\ Same(inputs', conf')
    <3>1. ~Due /\ inputs.image # None
      BY <2>1, <2>2 DEF Due, ImageReady
    <3>2. Same(inputs, seen)
      BY <1>0, <2>1, <3>1 DEF RunInv
    <3>3. CASE hook \in Reconciling
      BY <1>0, <2>1, <3>2, <3>3 DEF StepInv
    <3>4. CASE hook \notin Reconciling
      BY <1>0, <2>1, <2>2, <3>1, <3>4 DEF RunInv
    <3>. QED  BY <3>3, <3>4
  <2>. QED  BY <1>0, <2>1, <2>2 DEF RunInv
<1>7. CASE SetupFails \/ HookFails
  <2>1. /\ inputs' = inputs /\ hook' = "none" /\ hook \in pending'
        /\ pending \subseteq pending'
    BY <1>7 DEF SetupFails, HookFails, HookRaises, HookEnds
  <2>2. hook \in Reconciling => Due'
    BY <2>1 DEF Due
  <2>3. hook \notin Reconciling => UNCHANGED <<service, conf>>
    BY <1>0, <1>7 DEF StepInv, SetupFails, HookFails, At
  <2>4. ~Due' => ~Due
    BY <2>1 DEF Due
  <2>. QED  BY <1>0, <2>1, <2>2, <2>3, <2>4 DEF RunInv
<1>8. CASE UNCHANGED vars
  <2>1. UNCHANGED <<inputs, pending, hook, seen, service, conf>>
    BY <1>8 DEF vars, hooks, unit
  <2>. QED  BY <1>0, <2>1 DEF RunInv, Due
<1>. QED  BY <1>1, <1>2, <1>3, <1>4, <1>5, <1>6, <1>7, <1>8
          DEF Next, HookGoesOn

LEMMA ConfInvStep == CharmInv /\ [Next]_vars => ConfInv'
<1> SUFFICES ASSUME CharmInv, [Next]_vars PROVE ConfInv'
  OBVIOUS
<1>0. ConfInv /\ (hook # "none" => IsInputs(seen))
  BY DEF CharmInv, RunInv
<1>1. CASE WorldChanges
  BY <1>0, <1>1, WorldLeaves DEF ConfInv, Live
<1>2. CASE CreateRunner \/ FlushAction
  BY <1>0, <1>2 DEF ConfInv, Live, CreateRunner, FlushAction, unit
<1>3. ASSUME NEW e \in Events, Begin(e) PROVE ConfInv'
  BY <1>0, <1>3 DEF ConfInv, Live, Begin, unit, outside
<1>4. CASE Setup \/ SetupFails
  BY <1>0, <1>4 DEF ConfInv, Live, Setup, SetupFails, HookRaises, At
<1>5. CASE \/ Install \/ ReadState \/ RefuseState \/ FindImage \/ MissImage
           \/ Flush \/ Commit \/ HookFails
  BY <1>0, <1>5 DEF ConfInv, Live, Install, ReadState, RefuseState, FindImage,
     MissImage, Flush, Commit, HookFails, HookRaises, unit, outside
<1>6. CASE UNCHANGED vars
  BY <1>0, <1>6 DEF ConfInv, Live, vars, unit, outside
<1>. QED  BY <1>1, <1>2, <1>3, <1>4, <1>5, <1>6 DEF Next, HookGoesOn

LEMMA CharmInvariant == Spec => []CharmInv
<1>1. Init => CharmInv
  <2> SUFFICES ASSUME Init PROVE CharmInv
    OBVIOUS
  <2>1. MaxFaults \in Nat
    BY CharmAssumption
  <2>2. \A d \in Deployments : IsInputs(d.inputs) /\ d.changes \in Nat
    BY CharmAssumption
  <2>3. IsInputs(inputs) /\ changes \in Nat
    BY <2>2 DEF Init
  <2>4. hook = "none" /\ step = "state" /\ Due
    BY DEF Init, Due, Reconciling
  <2>5. TypeOK
    <3>1. faults \in 0..MaxFaults /\ leader \in BOOLEAN
      BY <2>1 DEF Init
    <3>2. pending \subseteq Events
      BY DEF Init, Events, Reconciling
    <3>3. DOMAIN stored = FlushOptions
      BY DEF Init, FlushValues
    <3>. QED  BY <2>3, <3>1, <3>2, <3>3 DEF Init, TypeOK, Steps
  <2>6. StepInv
    BY <2>4 DEF StepInv, Reconciling
  <2>7. RunInv
    BY <2>3, <2>4 DEF RunInv
  <2>8. ConfInv
    BY DEF Init, ConfInv, Live
  <2>. QED  BY <2>5, <2>6, <2>7, <2>8 DEF CharmInv
<1>2. CharmInv /\ [Next]_vars => CharmInv'
  BY TypeStep, StepInvStep, RunInvStep, ConfInvStep DEF CharmInv
<1>. QED  BY <1>1, <1>2, PTL DEF Spec

-----------------------------------------------------------------------------
(* The runners.  While no hook is due that changes what runners are made   *)
(* of, the hook that runs, or the service if none runs, has inputs that    *)
(* make the same ones.                                                     *)
CoreInv ==
    Steady /\ "config" \notin pending =>
        /\ hook # "none" => Core(inputs, seen)
        /\ hook \notin Flushing \cup {"config"} /\ Accepted(inputs)
              /\ ImageReady(inputs) => Core(inputs, conf)

(* A hook runs that flushes in any case, and has yet to do so.             *)
Midflush == hook \in Flushing /\ step # "commit"

(* What is newer than what a hook has seen, or than the service, is no     *)
(* reason for such a hook, if none is due.                                 *)
NewerInv ==
    Steady =>
        /\ hook # "none" => Newer(inputs, seen)
        /\ ~missed /\ Live /\ ~Midflush => Newer(inputs, conf)
        /\ ~missed /\ Live /\ hook \notin Flushing \cup {"none"} =>
              Newer(seen, conf)

(* The service runs with options that config-changed has not stored: it    *)
(* flushes when it finds them, and that is to come.                        *)
Odd == FlushValues(conf) # stored

Excused ==
    \/ ~Steady \/ ~ImageReady(inputs) \/ Midflush
    \/ /\ Odd /\ ~(hook = "config" /\ step = "commit")
       /\ "config" \in pending \/ hook = "config" \/ ~Accepted(inputs)

(* Unless a flush is to come, or was lost, no runner is stale.             *)
Fits(r, x) ==
    /\ r.identity = Identity(x)
    /\ r.boot.external = x.opt.external
    /\ r.boot.debug = None => Debug(x) = {}

FitInv == ~missed /\ runners # {} =>
              Excused \/ \A r \in runners : Fits(r, conf)

RunnersInv == CoreInv /\ NewerInv /\ FitInv

LEMMA FlushValuesSay ==
    \A x, y : FlushValues(x) = FlushValues(y) =>
        \A o \in FlushOptions : x.opt[o] = y.opt[o]
<1> SUFFICES ASSUME NEW x, NEW y, FlushValues(x) = FlushValues(y),
                    NEW o \in FlushOptions
             PROVE  x.opt[o] = y.opt[o]
  OBVIOUS
<1>1. FlushValues(x)[o] = x.opt[o] /\ FlushValues(y)[o] = y.opt[o]
  BY DEF FlushValues
<1>. QED  BY <1>1

(* A runner fits a configuration that is only newer.                       *)
LEMMA NewerFits ==
    ASSUME NEW r, NEW x, NEW y, Fits(r, x), Newer(y, x), IsInputs(x),
           AuthOk(y), FlushValues(y) = FlushValues(x)
    PROVE  Fits(r, y)
<1>1. \A o \in FlushOptions : x.opt[o] = y.opt[o]
  BY FlushValuesSay
<1>2. /\ x.opt.token = y.opt.token
      /\ x.opt.tokenSecret = y.opt.tokenSecret
      /\ x.opt.appClient = y.opt.appClient
      /\ x.opt.installation = y.opt.installation
      /\ x.opt.keySecret = y.opt.keySecret
      /\ x.opt.cloudsSecret = y.opt.cloudsSecret
      /\ x.opt.path = y.opt.path /\ x.opt.labels = y.opt.labels
      /\ x.opt.external = y.opt.external
  BY <1>1 DEF FlushOptions
<1>3. \A o \in SecretOptions :
          x.opt[o] \in Secrets => x.secret[x.opt[o]] = y.secret[x.opt[o]]
  BY DEF Newer, RefersTo
<1>4. /\ AuthOk(x) <=> AuthOk(y)
      /\ AuthOk(x) => Auth(x) = Auth(y)
      /\ x.opt.cloudsSecret # "" => Clouds(x) = Clouds(y)
  BY <1>2, <1>3, AuthParts
<1>5. Identity(x) = Identity(y)
  BY <1>2, <1>4 DEF Identity, Newer
<1>6. Debug(x) = {} => Debug(y) = {}
  BY DEF Newer
<1>. QED  BY <1>2, <1>5, <1>6 DEF Fits

(* A runner fits the configuration it is made with.                        *)
LEMMA MadeFits ==
    ASSUME NEW x, IsInputs(x), NEW r \in Kinds(x)
    PROVE  Fits(r, x)
<1>1. /\ r.identity = Identity(x)
      /\ r.boot \in CloudInit(Application(x))
  BY DEF Kinds
<1>2. /\ Application(x).debug = Debug(x)
      /\ Application(x).external = x.opt.external
  BY DEF Application
<1>3. /\ r.boot.external = x.opt.external
      /\ r.boot.debug \in IF Debug(x) = {} THEN {None} ELSE Debug(x)
  BY <1>1, <1>2 DEF CloudInit
<1>4. None \notin Debug(x)
  BY DEF IsInputs, Debug
<1>. QED  BY <1>1, <1>3, <1>4 DEF Fits

LEMMA CoreInvStep == CharmInv /\ CoreInv /\ [Next]_vars => CoreInv'
<1> SUFFICES ASSUME CharmInv, CoreInv, [Next]_vars,
                    Steady', "config" \notin pending'
             PROVE  /\ hook' # "none" => Core(inputs', seen')
                    /\ hook' \notin Flushing \cup {"config"}
                          /\ Accepted(inputs') /\ ImageReady(inputs')
                          => Core(inputs', conf')
  BY DEF CoreInv
<1> DEFINE Goal == /\ hook' # "none" => Core(inputs', seen')
                   /\ hook' \notin Flushing \cup {"config"}
                         /\ Accepted(inputs') /\ ImageReady(inputs')
                         => Core(inputs', conf')
<1> HIDE DEF Goal
<1>0. StepInv /\ IsInputs(inputs)
  BY DEF CharmInv, RunInv
<1>1. CASE WorldChanges
  <2>1. /\ UNCHANGED <<hook, seen, conf>>
        /\ Steady /\ "config" \notin pending /\ Core(inputs', inputs)
        /\ IsInputs(inputs')
    BY <1>0, <1>1, WorldStep, WorldLeaves
  <2>2. /\ Accepted(inputs') <=> Accepted(inputs)
        /\ ImageReady(inputs') <=> ImageReady(inputs)
    BY <2>1, CoreAccepted
  <2>. QED  BY <2>1, <2>2, CoreIsEquivalence DEF CoreInv, Goal
<1>2. CASE CreateRunner \/ FlushAction
  <2>1. UNCHANGED <<inputs, pending, hook, seen, conf>>
    BY <1>2 DEF CreateRunner, FlushAction, hooks, unit
  <2>. QED  BY <2>1 DEF CoreInv, Steady, Goal
<1>3. ASSUME NEW e \in Events, Begin(e) PROVE Goal
  <2>1. /\ inputs' = inputs /\ seen' = inputs /\ hook' = e /\ conf' = conf
        /\ pending' = pending \ {e} /\ hook = "none"
    BY <1>3 DEF Begin, unit
  <2>2. e \notin Flushing \cup {"config"} =>
           Steady /\ "config" \notin pending
    BY <2>1 DEF Steady
  <2>3. hook \notin Flushing \cup {"config"}
    BY <2>1 DEF Flushing
  <2>. QED  BY <2>1, <2>2, <2>3, CoreIsEquivalence DEF CoreInv, Goal
<1>4. CASE Install \/ ReadState \/ FindImage \/ Setup \/ Flush
  <2>1. /\ UNCHANGED <<inputs, pending, hook, seen>>
        /\ Steady /\ "config" \notin pending
    BY <1>4 DEF Install, ReadState, FindImage, Setup, Flush, Goto, Steady
  <2>2. conf' = conf \/ (conf' = seen /\ hook # "none")
    BY <1>4 DEF Install, ReadState, FindImage, Setup, Flush, unit, At
  <2>. QED  BY <2>1, <2>2 DEF CoreInv, Goal
<1>5. CASE RefuseState \/ MissImage
  <2>1. /\ UNCHANGED <<inputs, pending>> /\ hook # "none" /\ hook' = "none"
        /\ ~Accepted(seen) \/ ~ImageReady(seen)
    BY <1>5 DEF RefuseState, MissImage, At, HookEnds
  <2>2. Core(inputs, seen)
    BY <2>1 DEF CoreInv, Steady
  <2>3. ~Accepted(inputs) \/ ~ImageReady(inputs)
    BY <1>0, <2>1, <2>2, CoreAccepted
  <2>. QED  BY <2>1, <2>3 DEF Goal
<1>6. CASE Commit
  <2>1. /\ UNCHANGED <<inputs, pending, conf>>
        /\ hook # "none" /\ step = "commit" /\ hook' = "none"
    BY <1>6 DEF Commit, At, HookEnds
  <2>2. Steady /\ "config" \notin pending
    BY <2>1 DEF Steady
  <2>3. hook \in Reconciling => conf = seen
    BY <1>0, <2>1 DEF StepInv
  <2>. QED  BY <2>1, <2>2, <2>3 DEF CoreInv, Goal, Flushing, Reconciling
<1>7. CASE SetupFails \/ HookFails
  <2>1. /\ inputs' = inputs /\ hook' = "none"
        /\ pending' = pending \cup {hook} /\ hook # "none"
        /\ conf' = conf \/ conf' = seen
    BY <1>7 DEF SetupFails, HookFails, HookRaises, HookEnds, At
  <2>2. /\ Steady /\ "config" \notin pending
        /\ hook \notin Flushing \cup {"config"}
    BY <2>1 DEF Steady
  <2>. QED  BY <2>1, <2>2 DEF CoreInv, Goal
<1>8. CASE UNCHANGED vars
  <2>1. UNCHANGED <<inputs, pending, hook, seen, conf>>
    BY <1>8 DEF vars, hooks, unit
  <2>. QED  BY <2>1 DEF CoreInv, Steady, Goal
<1>. QED  BY <1>1, <1>2, <1>3, <1>4, <1>5, <1>6, <1>7, <1>8
          DEF Next, HookGoesOn, Goal

LEMMA NewerInvStep == CharmInv /\ NewerInv /\ [Next]_vars => NewerInv'
<1> SUFFICES ASSUME CharmInv, NewerInv, [Next]_vars, Steady'
             PROVE  /\ hook' # "none" => Newer(inputs', seen')
                    /\ ~missed' /\ Live' /\ ~Midflush' => Newer(inputs', conf')
                    /\ ~missed' /\ Live' /\ hook' \notin Flushing \cup {"none"}
                          => Newer(seen', conf')
  BY DEF NewerInv
<1> DEFINE Goal == /\ hook' # "none" => Newer(inputs', seen')
                   /\ ~missed' /\ Live' /\ ~Midflush' => Newer(inputs', conf')
                   /\ ~missed' /\ Live' /\ hook' \notin Flushing \cup {"none"}
                         => Newer(seen', conf')
<1> HIDE DEF Goal
<1>0. StepInv /\ IsInputs(inputs)
  BY DEF CharmInv, RunInv
<1>00. \A x : Newer(x, x)
  BY DEF Newer
<1>1. CASE WorldChanges
  <2>1. /\ UNCHANGED <<hook, step, seen, service, conf, runners, missed>>
        /\ Steady
        /\ \A y : RefersTo(y) \subseteq Referenced /\ Newer(inputs, y)
                     => Newer(inputs', y)
    BY <1>0, <1>1, WorldStep, WorldLeaves
  <2>2. /\ hook # "none" => RefersTo(seen) \subseteq Referenced
        /\ Live => RefersTo(conf) \subseteq Referenced
    <3>1. Live => ~(service = "off" /\ runners = {})
      BY DEF Live
    <3>. QED  BY <3>1 DEF Referenced
  <2>3. (Live' <=> Live) /\ (Midflush' <=> Midflush)
    BY <2>1 DEF Live, Midflush
  <2>. QED  BY <2>1, <2>2, <2>3 DEF NewerInv, Goal
<1>2. CASE CreateRunner \/ FlushAction
  <2>1. /\ UNCHANGED <<inputs, pending, hook, step, seen, conf, missed>>
        /\ Live
    BY <1>2 DEF CreateRunner, FlushAction, hooks, unit, Live
  <2>. QED  BY <2>1 DEF NewerInv, Steady, Midflush, Goal
<1>3. ASSUME NEW e \in Events, Begin(e) PROVE Goal
  <2>1. /\ inputs' = inputs /\ seen' = inputs /\ hook' = e
        /\ UNCHANGED <<conf, service, runners, missed>>
        /\ step' = FirstStep(e)
        /\ pending' = pending \ {e} /\ hook = "none"
    BY <1>3 DEF Begin, unit, outside
  <2>2. e \in Flushing => Midflush'
    BY <2>1 DEF Midflush, FirstStep
  <2>3. e \notin Flushing => Steady /\ ~Midflush
    BY <2>1 DEF Steady, Midflush, Flushing
  <2>4. Live' <=> Live
    BY <2>1 DEF Live
  <2>. QED  BY <2>1, <2>2, <2>3, <2>4, <1>00 DEF NewerInv, Goal
<1>4. CASE Install \/ ReadState \/ FindImage
  <2>1. /\ UNCHANGED <<inputs, pending, hook, seen, conf, runners, missed>>
        /\ service' \in {service, "off"}
        /\ Steady
    BY <1>4 DEF Install, ReadState, FindImage, Goto, unit, outside, Steady
  <2>2. Live' => Live
    BY <2>1 DEF Live
  <2>3. ~Midflush' => ~Midflush
    <3>1. CASE hook \in Flushing
      BY <1>0, <1>4, <3>1 DEF Install, ReadState, FindImage, At, Goto, Flushing,
         Midflush, StepInv
    <3>2. CASE hook \notin Flushing
      BY <3>2 DEF Midflush
    <3>. QED  BY <3>1, <3>2
  <2>. QED  BY <2>1, <2>2, <2>3 DEF NewerInv, Goal
<1>5. CASE Setup
  <2>1. /\ UNCHANGED <<inputs, pending, hook, seen>> /\ conf' = seen
        /\ hook # "none" /\ Steady
    BY <1>5 DEF Setup, Goto, At, Steady
  <2>. QED  BY <2>1, <1>00 DEF NewerInv, Goal
<1>6. CASE Flush
  <2>1. /\ UNCHANGED <<inputs, pending, hook, seen, conf>>
        /\ hook # "none" /\ step = "flush" /\ Steady
    BY <1>6 DEF Flush, Goto, At, Steady, unit
  <2>2. conf = seen
    BY <1>0, <2>1 DEF StepInv
  <2>. QED  BY <2>1, <2>2, <1>00 DEF NewerInv, Goal
<1>7. CASE RefuseState \/ MissImage
  <2>1. /\ UNCHANGED <<inputs, pending, conf, runners>>
        /\ hook # "none" /\ hook' = "none"
        /\ service' \in {service, "off"}
        /\ Steady
    BY <1>7 DEF RefuseState, MissImage, At, HookEnds, Steady
  <2>2. ~missed' => ~missed /\ hook \notin Flushing
    BY <1>7 DEF RefuseState, MissImage, Wanted
  <2>3. Live' => Live
    BY <2>1 DEF Live
  <2>. QED  BY <2>1, <2>2, <2>3 DEF NewerInv, Midflush, Goal
<1>8. CASE Commit
  <2>1. /\ UNCHANGED <<inputs, pending, service, conf, runners, missed>>
        /\ hook # "none" /\ step = "commit" /\ hook' = "none"
        /\ Steady
    BY <1>8 DEF Commit, At, HookEnds, Steady
  <2>2. ~Midflush /\ (Live' <=> Live)
    BY <2>1 DEF Midflush, Live
  <2>. QED  BY <2>1, <2>2 DEF NewerInv, Goal
<1>9. CASE SetupFails \/ HookFails
  <2>0. ~missed' => ~missed
    BY <1>9 DEF SetupFails, HookFails
  <2>1. /\ inputs' = inputs /\ hook' = "none" /\ hook # "none"
        /\ pending' = pending \cup {hook} /\ runners' = runners
        /\ conf' = seen \/ (conf' = conf /\ service' \in {service, "off"})
    BY <1>9 DEF SetupFails, HookFails, HookRaises, HookEnds, At
  <2>2. Steady /\ hook \notin Flushing
    BY <2>1 DEF Steady
  <2>3. CASE conf' = seen
    <3>1. Newer(inputs, seen)
      BY <2>1, <2>2 DEF NewerInv
    <3>2. Newer(inputs', conf')
      BY <2>1, <2>3, <3>1
    <3>. QED  BY <2>1, <3>2 DEF Goal
  <2>4. CASE conf' = conf /\ service' \in {service, "off"}
    BY <2>0, <2>1, <2>2, <2>4 DEF NewerInv, Midflush, Live, Goal
  <2>. QED  BY <2>1, <2>3, <2>4
<1>10. CASE UNCHANGED vars
  <2>1. UNCHANGED <<inputs, pending, hook, step, seen, service, conf, runners,
                    missed>>
    BY <1>10 DEF vars, hooks, unit, outside
  <2>. QED  BY <2>1 DEF NewerInv, Steady, Midflush, Live, Goal
<1>. QED  BY <1>1, <1>2, <1>3, <1>4, <1>5, <1>6, <1>7, <1>8, <1>9, <1>10
          DEF Next, HookGoesOn, Goal

(* A hook that sets the service up, and is not to flush, leaves runners    *)
(* that fit what it sets it up with.                                       *)
LEMMA SetupFits ==
    ASSUME CharmInv, RunnersInv, At("setup"), ~Wanted, ~Overlooked,
           ~missed, Steady, runners # {},
           FlushValues(seen) # stored =>
              "config" \notin pending /\ hook # "config"
    PROVE  \A r \in runners : Fits(r, seen)
<1>1. /\ hook \in Reconciling \ Flushing /\ step = "setup"
      /\ Accepted(seen) /\ ImageReady(seen)
  <2>1. hook # "none" /\ step = "setup" /\ hook \notin Flushing
    BY DEF At, Wanted
  <2>. QED  BY <2>1 DEF CharmInv, StepInv, Reconciling
<1>2. hook \notin Flushing \cup {"none"} /\ ~Midflush
  BY <1>1 DEF Reconciling, Midflush
<1>3. IsInputs(conf) /\ IsInputs(inputs) /\ Live
  BY DEF CharmInv, ConfInv, RunInv, Live
<1>4. Newer(seen, conf) /\ inputs.image = seen.image
  BY <1>2, <1>3 DEF RunnersInv, NewerInv, Newer
<1>5. ImageReady(inputs)
  BY <1>1, <1>4 DEF ImageReady
<1>6. FlushValues(seen) = FlushValues(conf) /\ ~Excused
  <2>1. CASE FlushValues(seen) = stored
    <3>1. FlushValues(conf) = stored
      BY <2>1 DEF Overlooked
    <3>. QED  BY <2>1, <3>1, <1>2, <1>5 DEF Excused, Odd
  <2>2. CASE FlushValues(seen) # stored
    <3>1. "config" \notin pending /\ hook \notin Flushing \cup {"config"}
      BY <1>2, <2>2
    <3>2. Core(inputs, seen)
      BY <1>2, <3>1 DEF RunnersInv, CoreInv
    <3>3. Accepted(inputs)
      BY <1>1, <1>3, <3>2, CoreAccepted
    <3>4. Core(inputs, conf)
      BY <3>1, <3>3, <1>5 DEF RunnersInv, CoreInv
    <3>5. seen.opt = conf.opt
      BY <3>2, <3>4 DEF Core
    <3>. QED  BY <3>1, <3>3, <3>5, <1>2, <1>5 DEF FlushValues, Excused
  <2>. QED  BY <2>1, <2>2
<1>7. \A r \in runners : Fits(r, conf)
  BY <1>6 DEF RunnersInv, FitInv
<1>8. AuthOk(seen)
  BY <1>1 DEF Accepted, CharmConfigOk
<1>. QED  BY <1>3, <1>4, <1>6, <1>7, <1>8, NewerFits

LEMMA FitInvStep == CharmInv /\ RunnersInv /\ [Next]_vars => FitInv'
<1> SUFFICES ASSUME CharmInv, RunnersInv, [Next]_vars,
                    ~missed', runners' # {}, ~Excused'
             PROVE  \A r \in runners' : Fits(r, conf')
  BY DEF FitInv
<1> DEFINE Goal == \A r \in runners' : Fits(r, conf')
<1> HIDE DEF Goal
<1>0. StepInv /\ IsInputs(inputs)
  BY DEF CharmInv, RunInv
<1>1. /\ Steady' /\ ImageReady(inputs') /\ ~Midflush'
      /\ \/ ~Odd'
         \/ hook' = "config" /\ step' = "commit"
         \/ /\ "config" \notin pending' /\ hook' # "config"
            /\ Accepted(inputs')
  BY DEF Excused
<1>2. ~missed /\ runners # {} /\ ~Excused => \A r \in runners : Fits(r, conf)
  BY DEF RunnersInv, FitInv
<1>3. CASE WorldChanges
  <2>1. /\ UNCHANGED <<hook, step, conf, stored, runners, missed>>
        /\ Steady
        /\ \A y : RefersTo(y) \subseteq Referenced /\ Newer(inputs, y)
                     => Newer(inputs', y)
        /\ "config" \notin pending' =>
              "config" \notin pending /\ Core(inputs', inputs)
        /\ IsInputs(inputs')
    BY <1>0, <1>1, <1>3, WorldStep, WorldLeaves
  <2>2. Newer(inputs', inputs)
    BY <2>1 DEF Newer, Referenced
  <2>3. ImageReady(inputs)
    BY <1>1, <2>2 DEF Newer, ImageReady
  <2>4. "config" \notin pending' /\ Accepted(inputs') =>
           "config" \notin pending /\ Accepted(inputs)
    BY <2>1, CoreAccepted
  <2>5. (Odd' <=> Odd) /\ (Midflush' <=> Midflush)
    BY <2>1 DEF Odd, FlushValues, Midflush
  <2>6. ~Excused
    BY <1>1, <2>1, <2>3, <2>4, <2>5 DEF Excused
  <2>. QED  BY <1>2, <2>1, <2>6
<1>4. CASE CreateRunner
  <2>1. /\ UNCHANGED <<inputs, pending, hook, step, conf, stored, missed>>
        /\ service = "on"
        /\ \E kind \in Kinds(conf) : runners' = runners \cup {kind}
    BY <1>4 DEF CreateRunner, hooks, unit
  <2>2. ~Excused
    BY <1>1, <2>1 DEF Excused, Steady, Odd, FlushValues, Midflush
  <2>3. IsInputs(conf)
    BY <2>1 DEF CharmInv, ConfInv, Live
  <2>4. \A r \in runners : Fits(r, conf)
    BY <1>2, <2>1, <2>2
  <2>. QED  BY <2>1, <2>3, <2>4, MadeFits
<1>5. CASE FlushAction \/ Flush
  BY <1>5 DEF FlushAction, Flush
<1>6. ASSUME NEW e \in Events, Begin(e) PROVE Goal
  <2>1. /\ inputs' = inputs /\ hook' = e /\ step' = FirstStep(e)
        /\ UNCHANGED <<conf, stored, runners, missed>>
        /\ pending' = pending \ {e} /\ hook = "none"
    BY <1>6 DEF Begin, unit, outside
  <2>2. e \notin Flushing /\ step' # "commit"
    BY <1>1, <2>1 DEF Midflush, FirstStep
  <2>3. Steady /\ ~Midflush /\ (Odd' <=> Odd)
    BY <1>1, <2>1, <2>2 DEF Steady, Midflush, Flushing, Odd, FlushValues
  <2>4. ~Excused
    BY <1>1, <2>1, <2>2, <2>3 DEF Excused
  <2>. QED  BY <1>2, <2>1, <2>4 DEF Goal
<1>7. CASE Install \/ ReadState \/ FindImage
  <2>1. /\ UNCHANGED <<inputs, pending, hook, conf, stored, runners, missed>>
        /\ step # "commit" /\ hook # "none"
    BY <1>7 DEF Install, ReadState, FindImage, Goto, At, unit, outside
  <2>2. step' = "commit" => hook \in {"joined", "start"}
    BY <1>7 DEF Install, ReadState, FindImage, Goto
  <2>3. Steady /\ ~Midflush /\ (Odd' <=> Odd)
    BY <1>1, <2>1, <2>2 DEF Steady, Midflush, Flushing, Odd, FlushValues
  <2>4. ~Excused
    BY <1>1, <2>1, <2>2, <2>3 DEF Excused
  <2>. QED  BY <1>2, <2>1, <2>4
<1>8. CASE Setup
  <2>1. /\ UNCHANGED <<inputs, pending, hook, seen, stored, runners>>
        /\ conf' = seen /\ At("setup") /\ hook # "none"
        /\ step' = IF Wanted THEN "flush" ELSE "commit"
    BY <1>8 DEF Setup, Goto, At
  <2>2. ~missed /\ ~Overlooked
    BY <1>8 DEF Setup
  <2>3. Odd' <=> FlushValues(seen) # stored
    BY <2>1 DEF Odd, FlushValues
  <2>4. ~Wanted
    BY <1>1, <2>1, <2>3 DEF Wanted, Midflush
  <2>5. FlushValues(seen) # stored => "config" \notin pending /\ hook # "config"
    BY <1>1, <2>1, <2>3, <2>4 DEF Wanted
  <2>6. Steady
    BY <1>1, <2>1 DEF Steady
  <2>. QED  BY <2>1, <2>2, <2>4, <2>5, <2>6, SetupFits
<1>9. CASE RefuseState \/ MissImage
  <2>1. /\ UNCHANGED <<inputs, pending, conf, runners>>
        /\ hook # "none" /\ hook' = "none" /\ step \in {"state", "image"}
        /\ ~Accepted(seen) \/ ~ImageReady(seen)
    BY <1>9 DEF RefuseState, MissImage, At, HookEnds
  <2>2. ~missed /\ hook \notin Flushing /\ stored' = stored
    BY <1>9 DEF RefuseState, MissImage, Wanted, Stored
  <2>3. Steady /\ ~Midflush /\ (Odd' <=> Odd)
    BY <1>1, <2>1, <2>2 DEF Steady, Midflush, Odd, FlushValues
  <2>4. "config" \notin pending /\ Accepted(inputs) => hook # "config"
    <3>1. "config" \notin pending => Core(inputs, seen)
      BY <2>1, <2>3 DEF RunnersInv, CoreInv
    <3>. QED  BY <1>0, <1>1, <2>1, <3>1, CoreAccepted
  <2>5. ~Excused
    BY <1>1, <2>1, <2>3, <2>4 DEF Excused
  <2>. QED  BY <1>2, <2>1, <2>2, <2>5
<1>10. CASE Commit
  <2>1. /\ UNCHANGED <<inputs, pending, conf, runners, missed>>
        /\ hook # "none" /\ step = "commit" /\ hook' = "none"
        /\ stored' = Stored
    BY <1>10 DEF Commit, At, HookEnds
  <2>2. Steady /\ ~Midflush
    BY <1>1, <2>1 DEF Steady, Midflush
  <2>3. CASE hook = "config"
    BY <1>1, <1>2, <2>1, <2>2, <2>3 DEF Excused
  <2>4. CASE hook # "config"
    <3>1. Odd' <=> Odd
      BY <2>1, <2>4 DEF Odd, FlushValues, Stored
    <3>2. ~Excused
      BY <1>1, <2>1, <2>2, <2>4, <3>1 DEF Excused
    <3>. QED  BY <1>2, <2>1, <3>2
  <2>. QED  BY <2>3, <2>4
<1>11. CASE SetupFails \/ HookFails
  <2>1. /\ inputs' = inputs /\ hook' = "none" /\ hook # "none"
        /\ pending' = pending \cup {hook}
        /\ UNCHANGED <<runners, stored>>
    BY <1>11 DEF SetupFails, HookFails, HookRaises, HookEnds, At
  <2>2. Steady /\ hook \notin Flushing /\ ~Midflush
    BY <1>1, <2>1 DEF Steady, Midflush
  <2>3. CASE UNCHANGED <<conf, missed>>
    <3>1. Odd' <=> Odd
      BY <2>1, <2>3 DEF Odd, FlushValues
    <3>2. ~Excused
      BY <1>1, <2>1, <2>2, <3>1 DEF Excused
    <3>. QED  BY <1>2, <2>1, <2>3, <3>2
  <2>4. CASE At("setup") /\ conf' = seen /\ missed' = (missed \/ Overlooked)
    <3>1. ~missed /\ ~Overlooked
      BY <2>4
    <3>2. Odd' <=> FlushValues(seen) # stored
      BY <2>1, <2>4 DEF Odd, FlushValues
    <3>3. FlushValues(seen) # stored =>
             "config" \notin pending /\ hook # "config"
      BY <1>1, <2>1, <3>2
    <3>4. ~Wanted
      BY <2>2, <3>3 DEF Wanted
    <3>. QED  BY <2>1, <2>2, <2>4, <3>1, <3>3, <3>4, SetupFits
  <2>. QED  BY <1>11, <2>3, <2>4 DEF SetupFails, HookFails
<1>12. CASE UNCHANGED vars
  <2>1. UNCHANGED <<inputs, pending, hook, step, conf, stored, runners, missed>>
    BY <1>12 DEF vars, hooks, unit, outside
  <2>2. ~Excused
    BY <1>1, <2>1 DEF Excused, Steady, Odd, FlushValues, Midflush
  <2>. QED  BY <1>2, <2>1, <2>2
<1>. QED  BY <1>3, <1>4, <1>5, <1>6, <1>7, <1>8, <1>9, <1>10, <1>11, <1>12
          DEF Next, HookGoesOn, Goal

LEMMA RunnersInvariant == Spec => [](CharmInv /\ RunnersInv)
<1>1. Init => RunnersInv
  <2> SUFFICES ASSUME Init PROVE RunnersInv
    OBVIOUS
  <2>1. /\ "config" \in pending /\ hook = "none"
        /\ runners = {} /\ service = "off"
    BY DEF Init
  <2>. QED  BY <2>1 DEF RunnersInv, CoreInv, NewerInv, FitInv, Live
<1>2. CharmInv /\ RunnersInv /\ [Next]_vars => RunnersInv'
  BY CoreInvStep, NewerInvStep, FitInvStep DEF RunnersInv
<1>. QED  BY <1>1, <1>2, CharmInvariant, PTL DEF Spec

-----------------------------------------------------------------------------
(* The planner.  While no hook is due that reconciles, and none runs, it   *)
(* has been told of the configuration in force.                            *)
TellInv ==
    hook \notin Reconciling /\ ~Due /\ Accepted(inputs) /\ ImageReady(inputs)
       /\ inputs.planner # None /\ ~untold => told = PlannerData(conf)

LEMMA TellInvStep == CharmInv /\ TellInv /\ [Next]_vars => TellInv'
<1> SUFFICES ASSUME CharmInv, TellInv, [Next]_vars,
                    hook' \notin Reconciling, ~Due',
                    Accepted(inputs'), ImageReady(inputs'),
                    inputs'.planner # None, ~untold'
             PROVE  told' = PlannerData(conf')
  BY DEF TellInv
<1>0. StepInv /\ RunInv
  BY DEF CharmInv
<1>1. CASE WorldChanges
  <2>1. inputs'.image # None
    BY DEF ImageReady
  <2>2. /\ UNCHANGED <<hook, conf, untold>> /\ IsInputs(inputs')
        /\ ~Due /\ Same(inputs', inputs) /\ told' = told
    BY <1>0, <1>1, <2>1, WorldStep, WorldLeaves DEF RunInv
  <2>3. Accepted(inputs) /\ ImageReady(inputs) /\ inputs.planner # None
    BY <2>2, SameAccepted DEF Same
  <2>4. told = PlannerData(conf)
    BY <2>2, <2>3 DEF TellInv
  <2>. QED  BY <2>2, <2>4 DEF PlannerData
<1>2. CASE CreateRunner \/ FlushAction \/ UNCHANGED vars
  <2>1. UNCHANGED <<inputs, pending, hook, conf, told, untold>>
    BY <1>2 DEF CreateRunner, FlushAction, vars, hooks, unit, outside
  <2>2. told = PlannerData(conf)
    BY <2>1 DEF TellInv, Due
  <2>. QED  BY <2>1, <2>2 DEF PlannerData
<1>3. ASSUME NEW e \in Events, Begin(e) PROVE told' = PlannerData(conf')
  <2>1. /\ UNCHANGED <<inputs, conf, told, untold>> /\ hook' = e
        /\ pending' = pending \ {e} /\ hook = "none"
    BY <1>3 DEF Begin, unit, outside
  <2>2. ~Due /\ hook \notin Reconciling
    BY <2>1 DEF Due, Reconciling
  <2>3. told = PlannerData(conf)
    BY <2>1, <2>2 DEF TellInv
  <2>. QED  BY <2>1, <2>3 DEF PlannerData
<1>4. CASE Install \/ ReadState \/ FindImage \/ Setup \/ Flush
  <2>1. UNCHANGED <<inputs, pending, hook, told, untold>> /\ hook # "none"
    BY <1>4 DEF Install, ReadState, FindImage, Setup, Flush, At, Goto, outside
  <2>2. ~Setup
    BY <1>0, <2>1 DEF StepInv, Setup, At
  <2>3. conf' = conf
    BY <1>4, <2>2 DEF Install, ReadState, FindImage, Flush, unit
  <2>4. told = PlannerData(conf)
    BY <2>1 DEF TellInv, Due
  <2>. QED  BY <2>1, <2>3, <2>4 DEF PlannerData
<1>5. CASE RefuseState \/ MissImage
  <2>1. /\ UNCHANGED <<inputs, pending>> /\ hook # "none"
        /\ ~Accepted(seen) \/ ~ImageReady(seen)
    BY <1>5 DEF RefuseState, MissImage, At
  <2>2. Same(inputs, seen)
    BY <1>0, <2>1 DEF RunInv, Due, ImageReady
  <2>. QED  BY <1>0, <2>1, <2>2, SameAccepted DEF RunInv
<1>6. CASE Commit
  <2>1. /\ UNCHANGED <<inputs, pending, conf>>
        /\ hook # "none" /\ step = "commit"
    BY <1>6 DEF Commit, At
  <2>2. CASE hook \in Reconciling
    <3>1. conf = seen
      BY <1>0, <2>1, <2>2 DEF StepInv
    <3>2. TellPlanner
      BY <1>6, <2>2 DEF Commit
    <3>3. told' = PlannerData(seen)
      BY <3>2 DEF TellPlanner
    <3>. QED  BY <2>1, <3>1, <3>3 DEF PlannerData
  <2>3. CASE hook \notin Reconciling
    <3>1. UNCHANGED <<told, untold>>
      BY <1>6, <2>3 DEF Commit
    <3>2. told = PlannerData(conf)
      BY <2>1, <2>3, <3>1 DEF TellInv, Due
    <3>. QED  BY <2>1, <3>1, <3>2 DEF PlannerData
  <2>. QED  BY <2>2, <2>3
<1>7. CASE SetupFails \/ HookFails
  <2>1. /\ UNCHANGED <<inputs, told, untold>> /\ hook # "none"
        /\ pending' = pending \cup {hook}
    BY <1>7 DEF SetupFails, HookFails, HookRaises, At
  <2>2. hook \notin Reconciling /\ ~Due
    BY <2>1 DEF Due
  <2>3. ~SetupFails
    BY <1>0, <2>2 DEF StepInv, SetupFails, At
  <2>4. conf' = conf
    BY <1>7, <2>3 DEF HookFails
  <2>5. told = PlannerData(conf)
    BY <2>1, <2>2 DEF TellInv
  <2>. QED  BY <2>1, <2>4, <2>5 DEF PlannerData
<1>. QED  BY <1>1, <1>2, <1>3, <1>4, <1>5, <1>6, <1>7 DEF Next, HookGoesOn

LEMMA TellInvariant == Spec => [](CharmInv /\ TellInv)
<1>1. Init => TellInv
  BY DEF Init, TellInv, Due, Reconciling
<1>2. CharmInv /\ TellInv /\ [Next]_vars => TellInv'
  BY TellInvStep
<1>. QED  BY <1>1, <1>2, CharmInvariant, PTL DEF Spec

(* The label of the flavor is one of the labels anyway.                    *)
LEMMA FlavorIsLabel ==
    ASSUME NEW in, in.opt.labels \in Seq(Range(in.opt.labels))
    PROVE  Range(FlavorLabels(in)) \subseteq Range(CharmLabels(in))
<1> DEFINE labels == in.opt.labels
<1>1. CASE FlavorLabels(in) = <<>>
  BY <1>1 DEF Range
<1>2. CASE FlavorLabels(in) # <<>>
  <2> DEFINE l == Flavor(in).label
  <2>1. FlavorLabels(in) = <<l>>
    BY <1>2 DEF FlavorLabels
  <2> HIDE DEF l, labels
  <2>2. labels \in Seq(Range(labels))
    BY DEF labels
  <2>3. CharmLabels(in) = <<l>> \o labels
    BY <2>1 DEF CharmLabels, labels
  <2>4. <<l>> \in Seq({l} \cup Range(labels))
    OBVIOUS
  <2>5. labels \in Seq({l} \cup Range(labels))
    BY <2>2
  <2>6. 1 \in DOMAIN (<<l>> \o labels) /\ (<<l>> \o labels)[1] = l
    BY <2>4, <2>5
  <2>7. Range(<<l>>) = {l}
    BY DEF Range
  <2>. QED  BY <2>1, <2>3, <2>6, <2>7 DEF Range
<1>. QED  BY <1>1, <1>2

-----------------------------------------------------------------------------
(* TypeOK of every unit (the hooks of src/charm.py).                       *)
THEOREM TypeCorrect == Spec => []TypeOK
<1>1. CharmInv => TypeOK
  BY DEF CharmInv
<1>. QED  BY <1>1, CharmInvariant, PTL

(* Whatever the options, the secrets and the relations are: a hook that    *)
(* gets to start the service hands it a configuration that it runs with,   *)
(* an empty list of clouds and the endpoint of a planner aside.            *)
THEOREM AcceptedAlwaysRuns == Spec => []AcceptedRuns
<1>1. CharmInv => AcceptedRuns
  <2> SUFFICES ASSUME CharmInv, At("setup")
               PROVE  Runnable(seen) \/ Unchecked(seen)
    BY DEF AcceptedRuns
  <2>1. hook # "none" /\ step = "setup"
    BY DEF At
  <2>2. hook \in Reconciling /\ ImageReady(seen)
    BY <2>1 DEF CharmInv, StepInv
  <2>3. Accepted(seen)
    BY <2>1, <2>2 DEF CharmInv, StepInv, Reconciling
  <2>4. "" \notin Malformed
    BY CharmAssumption
  <2>. QED  BY <2>2, <2>3, <2>4, AcceptedIsRunnable
<1>. QED  BY <1>1, CharmInvariant, PTL

(* Whatever happened before, in whatever order and with however many hooks *)
(* that failed: a unit with nothing left to do runs what its operator and  *)
(* its relations say.                                                      *)
THEOREM ActiveAlwaysCurrent == Spec => []ActiveIsCurrent
<1>1. CharmInv => ActiveIsCurrent
  <2> SUFFICES ASSUME CharmInv, Settled
               PROVE  /\ service = "on"
                      /\ Application([inputs EXCEPT !.debug = conf.debug])
                           = Application(conf)
    BY DEF ActiveIsCurrent
  <2>1. /\ IsInputs(inputs) /\ Accepted(inputs) /\ ImageReady(inputs)
        /\ hook \notin Reconciling /\ ~Due
    BY DEF Settled, Quiet, Due, Reconciling, CharmInv, RunInv
  <2>2. service = "on" /\ Same(inputs, conf)
    BY <2>1 DEF CharmInv, RunInv
  <2> DEFINE in == [inputs EXCEPT !.debug = conf.debug]
  <2>3. /\ in.opt = inputs.opt /\ in.image = inputs.image
        /\ in.planner = inputs.planner /\ in.juju = inputs.juju
        /\ in.debug = conf.debug /\ in.secret = inputs.secret
        /\ DOMAIN in = DOMAIN inputs
    BY <2>1 DEF IsInputs
  <2> HIDE DEF in
  <2>4. IsInputs(in)
    BY <2>1, <2>2, <2>3 DEF IsInputs, CharmInv, ConfInv, Live
  <2>5. Same(in, conf)
    <3>1. DebugOk(in) <=> DebugOk(conf)
      BY <2>3 DEF DebugOk, Debug
    <3>2. Core(in, conf) /\ RefersTo(in) = RefersTo(inputs)
      BY <2>2, <2>3, <3>1 DEF Same, Core, RefersTo
    <3>. QED  BY <2>2, <2>3, <3>2 DEF Same
  <2>6. AuthOk(in)
    BY <2>1, <2>2, <2>4, <2>5, SameAccepted, SameIsEquivalence
    DEF Accepted, CharmConfigOk
  <2>7. Application(in) = Application(conf)
    BY <2>3, <2>4, <2>5, <2>6, SameApplication
  <2>. QED  BY <2>2, <2>7 DEF in
<1>. QED  BY <1>1, CharmInvariant, PTL

(* Whatever is changed and changed back, in whatever order hooks hear of   *)
(* it: of a unit with nothing left to do that lost no flush, every idle    *)
(* runner has the labels, the path, the credentials and the image that the *)
(* service now makes runners with.                                         *)
THEOREM NoneIsStale == Spec => []NoStaleRunners
<1>1. CharmInv /\ RunnersInv => NoStaleRunners
  <2> SUFFICES ASSUME CharmInv, RunnersInv, Settled, ~missed,
                      NEW r \in runners
               PROVE  UpToDate(r)
    BY DEF NoStaleRunners
  <2>1. Steady /\ ~Excused
    BY DEF Settled, Quiet, ImageReady, Steady, Excused, Midflush, Flushing
  <2>2. Fits(r, conf)
    BY <2>1 DEF RunnersInv, FitInv
  <2>. QED  BY <2>2 DEF Fits, UpToDate
<1>. QED  BY <1>1, RunnersInvariant, PTL

(* A unit that told the planner of itself at its last reconcile, as its    *)
(* leader, and has nothing left to do has told it the labels that its      *)
(* runners get, with the tags of the image, and their least number.        *)
THEOREM PlannerAlwaysKnows == Spec => []PlannerKnows
<1>1. CharmInv /\ TellInv => PlannerKnows
  <2> SUFFICES ASSUME CharmInv, TellInv, Settled, inputs.planner # None,
                      ~untold
               PROVE  /\ told.labels = RunnerLabels(Application(conf))
                      /\ told.least = Application(conf).combinations[1].base
    BY DEF PlannerKnows
  <2>1. /\ IsInputs(inputs) /\ Accepted(inputs) /\ ImageReady(inputs)
        /\ hook \notin Reconciling /\ ~Due
    BY DEF Settled, Quiet, Due, Reconciling, CharmInv, RunInv
  <2>2. told = PlannerData(conf)
    BY <2>1 DEF TellInv
  <2>3. service = "on" /\ Same(inputs, conf)
    BY <2>1 DEF CharmInv, RunInv
  <2>4. IsInputs(conf) /\ ImageReady(conf)
    BY <2>1, <2>3, SameAccepted DEF CharmInv, ConfInv, Live
  <2> DEFINE app == Application(conf)
             c == [image |-> conf.image.id, imageLabels |-> conf.image.tags,
                   flavor |-> Flavor(conf).flavor,
                   flavorLabels |-> FlavorLabels(conf),
                   base |-> Machines(conf).base, max |-> Machines(conf).max]
  <2>5. app.combinations = <<c>> /\ app.extraLabels = CharmLabels(conf)
    BY <2>4 DEF Application, Combinations
  <2>6. /\ c.imageLabels = conf.image.tags /\ c.base = Machines(conf).base
        /\ c.flavorLabels = FlavorLabels(conf)
    OBVIOUS
  <2> HIDE DEF app, c
  <2>7. app.combinations[1] = c
    BY <2>5
  <2>8. Range(FlavorLabels(conf)) \subseteq Range(CharmLabels(conf))
    BY <2>4, FlavorIsLabel DEF IsInputs
  <2>9. RunnerLabels(app) = PlannerLabels(conf)
    BY <2>4, <2>5, <2>6, <2>7, <2>8 DEF RunnerLabels, PlannerLabels
  <2>10. /\ told.labels = PlannerLabels(conf)
         /\ told.least = Machines(conf).base
    BY <2>2 DEF PlannerData
  <2>. QED  BY <2>6, <2>7, <2>9, <2>10 DEF app
<1>. QED  BY <1>1, TellInvariant, PTL
=============================================================================
