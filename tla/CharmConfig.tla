----------------------------- MODULE CharmConfig -----------------------------
(***************************************************************************)
(* From what the operator and the related applications say to the          *)
(* configuration of the service: what the charm accepts                    *)
(* (src/charm_state.py), what it makes of it (src/factories.py), and what  *)
(* the service requires (configuration/base.py,                            *)
(* manager/pressure_reconciler.py).                                        *)
(*                                                                         *)
(* Inputs are a record: opt, the options; secret, the content of secrets;  *)
(* image, planner, debug, the relations; juju, the proxies of the model.   *)
(* Texts are values; "" is an option that is not set.                      *)
(***************************************************************************)
EXTENDS Integers, Sequences, Functions

CONSTANTS
    Malformed,      \* texts that whoever parses them refuses
    NoClouds,       \* well-formed lists of clouds that are empty
    Repos,          \* paths that name a repository, not an organisation
    Absent,         \* the content of a secret that cannot be found
    None

-----------------------------------------------------------------------------
(* GithubConfig.from_charm: one of two ways to authenticate, in full.      *)

Missing == {Absent, ""}

Token(in) == IF in.opt.tokenSecret = "" THEN in.opt.token
                                        ELSE in.secret[in.opt.tokenSecret]

AppFields == {"appClient", "installation", "keySecret"}
AppFieldsSet(in) == {f \in AppFields : in.opt[f] # ""}

AuthOk(in) ==
    /\ Token(in) # Absent
    /\ in.opt.tokenSecret # "" => Token(in) # ""
    /\ AppFieldsSet(in) = IF Token(in) = "" THEN AppFields ELSE {}
    /\ in.opt.keySecret # "" => in.secret[in.opt.keySecret] \notin Missing

Auth(in) ==
    IF Token(in) # ""
      THEN [token |-> Token(in)]
      ELSE [client |-> in.opt.appClient, installation |-> in.opt.installation,
            key |-> in.secret[in.opt.keySecret]]

(* parse_github_path: a group matters to organisations only.               *)
PathOk(in) == in.opt.path # "" /\ in.opt.path \notin Malformed

Path(in) == IF in.opt.path \in Repos THEN <<in.opt.path>>
                                     ELSE <<in.opt.path, in.opt.group>>

-----------------------------------------------------------------------------
(* CharmConfig.from_charm.                                                 *)

(* The secret wins over the option.                                        *)
Clouds(in) == IF in.opt.cloudsSecret = "" THEN in.opt.clouds
                                          ELSE in.secret[in.opt.cloudsSecret]

CloudsOk(in) == Clouds(in) \notin Missing \cup Malformed

LabelsOk(in) == Range(in.opt.labels) \cap Malformed = {}

(* A port, or the first and the last of a range, whichever is larger; what *)
(* cannot be read as numbers is empty here.                                *)
PortOk(p) == p \in 0..65535
PortsOk(in) == \A r \in Range(in.opt.ports) :
                  Len(r) \in 1..2 /\ \A i \in DOMAIN r : PortOk(r[i])

ExcludedOk(in) == Range(in.opt.exclude) \cap Malformed = {}

CharmConfigOk(in) ==
    /\ PathOk(in) /\ AuthOk(in)
    /\ in.opt.interval >= 1
    /\ CloudsOk(in) /\ LabelsOk(in)
    /\ in.opt.mirror \notin Malformed
    /\ ExcludedOk(in) /\ PortsOk(in)

-----------------------------------------------------------------------------
(* The proxies: of the charm itself, and of the runners.                   *)

(* No exceptions from a proxy that is not there.                           *)
CharmProxy(in) ==
    [in.juju EXCEPT !.no = IF in.juju.http = "" /\ in.juju.https = ""
                             THEN "" ELSE @]

RunnerProxy(in) ==
    IF in.opt.proxy # "" THEN [http |-> in.opt.proxy, https |-> "", no |-> ""]
                         ELSE CharmProxy(in)

ProxyParsed(p) == {p.http, p.https} \cap Malformed = {}
HasAddress(p) == p.http # "" \/ p.https # ""

ProxyOk(in) ==
    /\ ProxyParsed(CharmProxy(in)) /\ ProxyParsed(RunnerProxy(in))
    /\ in.opt.aproxy => HasAddress(RunnerProxy(in))

-----------------------------------------------------------------------------
(* OpenstackRunnerConfig.from_charm.                                       *)

(* The deprecated number of machines counts if the others are not set.     *)
Machines(in) ==
    IF in.opt.base = 0 /\ in.opt.max = 0
      THEN [base |-> in.opt.machines, max |-> in.opt.machines]
      ELSE [base |-> in.opt.base, max |-> in.opt.max]

(* A maximum of zero, or less, is no cap.                                  *)
CapOk(m) == ~(0 < m.max /\ m.max < m.base)

(* Mutant: base and maximum are not compared.                              *)
MachinesUncapped(in) ==
    in.opt.base # 0 \/ in.opt.max # 0 => in.opt.machines = 0

MachinesOk(in) ==
    /\ in.opt.base # 0 \/ in.opt.max # 0 => in.opt.machines = 0
    /\ CapOk(Machines(in))

(* At most one pair of flavor and label, both named (what is no pair has   *)
(* an empty flavor here); else the plain flavor option.                    *)
FlavorOk(in) ==
    IF in.opt.flavorLabels = <<>>
      THEN in.opt.flavor # ""
      ELSE /\ Len(in.opt.flavorLabels) = 1
           /\ LET pair == in.opt.flavorLabels[1]
              IN  pair.flavor # "" /\ pair.label # ""

Flavor(in) == IF in.opt.flavorLabels = <<>>
                THEN [flavor |-> in.opt.flavor, label |-> ""]
                ELSE in.opt.flavorLabels[1]

FlavorLabels(in) == IF Flavor(in).label = "" THEN <<>>
                                             ELSE <<Flavor(in).label>>

(* OpenstackImage.from_charm: no relation, no image yet, or an image.      *)
ImageReady(in) == in.image # None /\ in.image.id # ""

-----------------------------------------------------------------------------
(* The other relations.                                                    *)

(* Units that have not said everything yet count for nothing: "" here.     *)
Debug(in) == in.debug \ {""}
DebugOk(in) == Debug(in) \cap Malformed = {}

OtelOk(in) == in.opt.otel \notin Malformed

(* The planner is used once its endpoint and its token are there; whether  *)
(* the endpoint is a URL is not looked at.                                 *)
Planner(in) ==
    IF \/ in.planner = None \/ in.planner.endpoint = ""
       \/ in.planner.token = "" \/ in.secret[in.planner.token] \in Missing
      THEN None
      ELSE [endpoint |-> in.planner.endpoint,
            token |-> in.secret[in.planner.token]]

(* CharmState.from_charm succeeds.                                         *)
Accepted(in) ==
    /\ CharmConfigOk(in) /\ ProxyOk(in)
    /\ MachinesOk(in) /\ FlavorOk(in)
    /\ DebugOk(in) /\ OtelOk(in)

(* The label of the flavor comes first.                                    *)
CharmLabels(in) == FlavorLabels(in) \o in.opt.labels

-----------------------------------------------------------------------------
(* create_application_configuration.                                       *)

Combinations(in) ==
    IF ~ImageReady(in) THEN <<>>
    ELSE <<[image |-> in.image.id, imageLabels |-> in.image.tags,
            flavor |-> Flavor(in).flavor, flavorLabels |-> FlavorLabels(in),
            base |-> Machines(in).base, max |-> Machines(in).max]>>

PlannerField(in, f) == IF Planner(in) = None THEN "" ELSE Planner(in)[f]

(* What is passed on as it is and changes nothing that follows, such as    *)
(* scripts and the log level, is left out.                                 *)
Application(in) ==
    [auth |-> Auth(in), path |-> Path(in),
     external |-> in.opt.external,
     extraLabels |-> CharmLabels(in),
     combinations |-> Combinations(in),
     runnerProxy |-> RunnerProxy(in), aproxy |-> in.opt.aproxy,
     ports |-> in.opt.ports,
     debug |-> Debug(in),
     clouds |-> Clouds(in),
     plannerUrl |-> PlannerField(in, "endpoint"),
     plannerToken |-> PlannerField(in, "token"),
     interval |-> in.opt.interval]

(* The validators of ApplicationConfiguration and of its parts, and        *)
(* create_openstack_configuration, which takes the first cloud.            *)
Valid(app) ==
    /\ app.clouds \notin NoClouds
    /\ app.aproxy => HasAddress(app.runnerProxy)
    /\ \A i \in DOMAIN app.combinations : CapOk(app.combinations[i])
    /\ app.plannerUrl \notin Malformed
    /\ app.interval >= 1

(* build_pressure_reconciler and build_runner_manager raise no error.      *)
Starts(app) ==
    /\ app.combinations # <<>>
    /\ (app.plannerUrl = "") <=> (app.plannerToken = "")

Runnable(in) == Valid(Application(in)) /\ Starts(Application(in))

(* _generate_cloud_init: what the first boot of a runner may find.  It gets*)
(* one of the connections for debugging, at random, if there are any, and  *)
(* aproxy if it was asked for and has an address and ports to redirect.    *)
CloudInit(app) ==
    [debug : IF app.debug = {} THEN {None} ELSE app.debug,
     aproxy : {app.aproxy /\ HasAddress(app.runnerProxy) /\ app.ports # <<>>},
     external : {app.external}]

(* What a runner answers to, and what the planner is told of it.           *)
RunnerLabels(app) ==
    LET c == app.combinations[1]
    IN  Range(app.extraLabels) \cup Range(c.imageLabels)
            \cup Range(c.flavorLabels)

(* Mutant: the tags of the image are forgotten.                            *)
PlannerLabelsOfCharm(in) == Range(CharmLabels(in))

PlannerLabels(in) ==
    Range(CharmLabels(in)) \cup
        (IF ImageReady(in) THEN Range(in.image.tags) ELSE {})

-----------------------------------------------------------------------------
(* What the charm does not look at: an empty list of clouds, and the       *)
(* endpoint of a planner.                                                  *)
Unchecked(in) ==
    \/ Clouds(in) \in NoClouds
    \/ PlannerField(in, "endpoint") \in Malformed
=============================================================================
