--------------------------- MODULE ManagerService ---------------------------
(***************************************************************************)
(* The services of the units on one machine: src/manager_service.py,       *)
(* called by the hooks of src/charm.py, and the requests the hooks make to *)
(* the service through src/manager_client.py.                              *)
(*                                                                         *)
(* Every hook first makes sure that its unit has an HTTP port.  A          *)
(* configure hook then sets up the service and may flush the runners; a    *)
(* halt hook (install, or one that finds no image) only stops the service; *)
(* a stop hook flushes and cleans up; the remove hook has no handler.      *)
(***************************************************************************)
EXTENDS Integers

CONSTANTS
    Units,          \* units of all applications on the machine
    Base,           \* the port derived from the index of each unit
    Span,           \* how many ports to try beyond it
    MaxVersion,     \* bound: changes of the configuration of a unit
    MaxFaults,      \* bound: crashes, failing commands, foreign processes
    None,           \* no file, nobody
    Damaged,        \* a port file that holds no number
    Other           \* a process that is none of the services

ASSUME ServiceAssumption ==
    /\ Base \in [Units -> Nat]
    /\ Span \in Nat /\ MaxVersion \in Nat /\ MaxFaults \in Nat
    /\ None \notin Units /\ Other \notin Units /\ None # Other
    /\ None \notin Nat /\ Damaged \notin Nat /\ None # Damaged

VARIABLES
    (* files and processes of each unit *)
    portFile,       \* http_port: a port, Damaged or None
    unitFile,       \* the systemd service file exists
    config,         \* version of the configuration file, or None
    service,        \* state of the systemd service
    port,           \* the port its command line says
    loaded,         \* version of the configuration the process has read
    listener,       \* who listens on each port
    (* port allocation *)
    lock,           \* the unit that holds port-alloc.lock
    used,           \* ports it has read from the port files
    offset,         \* offset of the candidate it looks at
    (* hooks *)
    life,           \* of each unit: "installed", "stopped", "removed"
    version,        \* version of the configuration in Juju
    hook,           \* the hook that runs in each unit, or ran to its end
    pc,             \* what it does next
    faults,         \* faults left
    (* history, read by properties only *)
    fellBack,       \* units whose port was taken without being free
    raced           \* units whose service awaited its restart during setup

allocation == <<lock, used, offset>>
files == <<portFile, unitFile, config>>
process == <<service, port, loaded, listener>>
juju == <<life, version, hook>>
history == <<fellBack, raced>>
vars == <<files, process, allocation, juju, pc, faults, history>>

Ports == UNION {Base[u] .. Base[u] + Span : u \in Units}

Fault == faults > 0 /\ faults' = faults - 1
Goto(u, label) == pc' = [pc EXCEPT ![u] = label]

Init ==
    /\ portFile = [u \in Units |-> None]
    /\ unitFile = [u \in Units |-> FALSE]
    /\ config = [u \in Units |-> None]
    /\ service = [u \in Units |-> "off"]
    /\ port = [u \in Units |-> None]
    /\ loaded = [u \in Units |-> None]
    /\ listener = [p \in Ports |-> None]
    /\ lock = None /\ used = {} /\ offset = 0
    /\ life = [u \in Units |-> "installed"]
    /\ version = [u \in Units |-> 0]
    /\ hook = [u \in Units |-> "none"]
    /\ pc = [u \in Units |-> "idle"]
    /\ faults = MaxFaults
    /\ fellBack = {} /\ raced = {}

-----------------------------------------------------------------------------
(* Hooks begin and end.                                                    *)

Hooks(u) ==
    CASE life[u] = "installed" -> {"configure", "halt", "stop"}
      [] life[u] = "stopped" -> {"remove"}
      [] life[u] = "removed" -> {}

(* Mutant: the port file is not looked at.                                 *)
HasPortNever(u) == FALSE

(* A port file with a number in it is used.                                *)
HasPort(u) == portFile[u] \in Ports

(* The charm object is made.                                               *)
CallHook(u, h) ==
    /\ pc[u] = "idle" /\ h \in Hooks(u)
    /\ hook' = [hook EXCEPT ![u] = h]
    /\ version' \in {version, [version EXCEPT ![u] = @ + 1]}
    /\ version'[u] <= MaxVersion
    /\ Goto(u, IF HasPort(u) THEN "port" ELSE "lock")
    /\ raced' = raced \ {u}
    /\ UNCHANGED <<files, process, allocation, life, faults, fellBack>>

(* A command fails or the process of the hook is killed.  The lock goes    *)
(* with its process; a port file may be left empty.                        *)
HookFails(u) ==
    /\ pc[u] # "idle" /\ Fault
    /\ Goto(u, "idle")
    /\ hook' = [hook EXCEPT ![u] = "none"]
    /\ IF lock = u THEN lock' = None /\ used' = {} /\ offset' = 0
                   ELSE UNCHANGED allocation
    /\ \/ UNCHANGED portFile
       \/ pc[u] = "write" /\ portFile' = [portFile EXCEPT ![u] = Damaged]
    /\ UNCHANGED <<unitFile, config, process, life, version, history>>

-----------------------------------------------------------------------------
(* ensure_http_port_for_unit                                               *)

(* Mutant: only the units with a running service count.                    *)
PersistedByRunning ==
    {portFile[v] : v \in {w \in Units : service[w] # "off"}} \cap Ports

(* Mutant: what is no number is kept too.                                  *)
PersistedRaw == {portFile[v] : v \in Units}

PersistedPorts == {portFile[v] : v \in Units} \cap Ports

TakeLock(u) ==
    /\ pc[u] = "lock" /\ lock = None
    /\ lock' = u /\ used' = PersistedPorts /\ offset' = 0
    /\ Goto(u, "probe")
    /\ UNCHANGED <<files, process, juju, faults, history>>

(* A candidate is free if no unit has persisted it and nobody listens.     *)
Probe(u) ==
    /\ pc[u] = "probe"
    /\ LET candidate == Base[u] + offset
       IN  IF candidate \notin used /\ listener[candidate] = None
             THEN /\ Goto(u, "write") /\ fellBack' = fellBack \ {u}
                  /\ UNCHANGED offset
             ELSE IF offset < Span
             THEN offset' = offset + 1 /\ UNCHANGED <<pc, fellBack>>
             ELSE /\ offset' = 0 /\ fellBack' = fellBack \cup {u}
                  /\ Goto(u, "write")
    /\ UNCHANGED <<files, process, lock, used, juju, faults, raced>>

(* The port is persisted before the lock is released.                      *)
WritePort(u) ==
    /\ pc[u] = "write"
    /\ portFile' = [portFile EXCEPT ![u] = Base[u] + offset]
    /\ lock' = None /\ used' = {} /\ offset' = 0
    /\ Goto(u, "port")
    /\ UNCHANGED <<unitFile, config, process, juju, faults, history>>

(* The hook has its port and goes to its own work.                         *)
HavePort(u) ==
    /\ pc[u] = "port"
    /\ Goto(u, CASE hook[u] = "stop" -> "wait"
                 [] hook[u] = "remove" -> "idle"
                 [] OTHER -> "stop")
    /\ life' = [life EXCEPT ![u] = IF hook[u] = "remove" THEN "removed" ELSE @]
    /\ UNCHANGED <<files, process, allocation, version, hook, faults, history>>

-----------------------------------------------------------------------------
(* setup, stop and cleanup                                                 *)

Running(u) == service[u] \in {"starting", "loaded", "up", "deaf"}

Hangup(u) == [p \in Ports |-> IF listener[p] = u THEN None ELSE listener[p]]

(* Mutant: the service is not stopped before its files are written.        *)
StopServiceNever(u) == UNCHANGED process

(* The service is stopped if it is active; one that waits for its restart  *)
(* is not.                                                                 *)
StopService(u) ==
    IF Running(u)
      THEN /\ service' = [service EXCEPT ![u] = "off"]
           /\ loaded' = [loaded EXCEPT ![u] = None]
           /\ listener' = Hangup(u)
           /\ UNCHANGED port
      ELSE UNCHANGED process

(* setup begins, or a missing image ends the hook.                         *)
Stop(u) ==
    /\ pc[u] = "stop"
    /\ StopService(u)
    /\ Goto(u, IF hook[u] = "configure" THEN "files" ELSE "idle")
    /\ raced' = IF service[u] = "failed" THEN raced \cup {u} ELSE raced
    /\ UNCHANGED <<files, allocation, juju, faults, fellBack>>

WriteFiles(u) ==
    /\ pc[u] = "files"
    /\ config' = [config EXCEPT ![u] = version[u]]
    /\ unitFile' = [unitFile EXCEPT ![u] = TRUE]
    /\ Goto(u, "enable")
    /\ UNCHANGED <<portFile, process, allocation, juju, faults, history>>

(* systemd starts the process of a service with the port of its file.      *)
Launch(u) ==
    /\ service' = [service EXCEPT ![u] = "starting"]
    /\ port' = [port EXCEPT ![u] = portFile[u]]
    /\ UNCHANGED <<loaded, listener>>

(* The service is started unless it is active.                             *)
Enable(u) ==
    /\ pc[u] = "enable"
    /\ IF Running(u) THEN UNCHANGED process ELSE Launch(u)
    /\ Goto(u, "wait")
    /\ UNCHANGED <<files, allocation, juju, faults, history>>

(* Who answers on the port of the unit.                                    *)
Answer(u) == listener[portFile[u]]

(* catch_requests_errors: no answer, an answer too late and an answer that *)
(* is an error become errors of the manager, which end the hook.           *)
RequestFails(u) == Goto(u, "idle") /\ hook' = [hook EXCEPT ![u] = "none"]

WaitTillReady(u) ==
    /\ pc[u] = "wait"
    /\ IF Answer(u) \in Units
         THEN Goto(u, "flush") /\ UNCHANGED hook
         ELSE RequestFails(u)
    /\ UNCHANGED <<files, process, allocation, life, version, faults, history>>

(* POST /runner/flush; an event without a flush skips it.                  *)
Flush(u) ==
    /\ pc[u] = "flush"
    /\ \/ /\ Answer(u) \in Units
          /\ Goto(u, IF hook[u] = "stop" THEN "cleanup" ELSE "idle")
          /\ UNCHANGED hook
       \/ Answer(u) \notin Units /\ RequestFails(u)
       \/ hook[u] = "configure" /\ Goto(u, "idle") /\ UNCHANGED hook
    /\ UNCHANGED <<files, process, allocation, life, version, faults, history>>

(* cleanup: stop, then remove the service file, then the data.             *)
CleanupStop(u) ==
    /\ pc[u] = "cleanup"
    /\ StopService(u)
    /\ Goto(u, "unlink")
    /\ UNCHANGED <<files, allocation, juju, faults, history>>

CleanupUnlink(u) ==
    /\ pc[u] = "unlink"
    /\ unitFile' = [unitFile EXCEPT ![u] = FALSE]
    /\ Goto(u, "rmtree")
    /\ UNCHANGED <<portFile, config, process, allocation, juju, faults, history>>

RemoveUnitData(u) ==
    /\ pc[u] = "rmtree"
    /\ portFile' = [portFile EXCEPT ![u] = None]
    /\ config' = [config EXCEPT ![u] = None]
    /\ life' = [life EXCEPT ![u] = "stopped"]
    /\ Goto(u, "idle")
    /\ UNCHANGED <<unitFile, process, allocation, version, hook, faults, history>>

-----------------------------------------------------------------------------
(* The process of a service, and systemd.                                  *)

LoadConfig(u) ==
    /\ service[u] = "starting"
    /\ loaded' = [loaded EXCEPT ![u] = config[u]]
    /\ service' = [service EXCEPT ![u] =
                     IF config[u] = None THEN "failed" ELSE "loaded"]
    /\ UNCHANGED <<files, port, listener, allocation, juju, pc, faults, history>>

(* The thread of the HTTP server binds the port.  If it cannot, it ends    *)
(* with SystemExit, which the thread wrapper does not report: the process  *)
(* goes on without it, or ends.                                            *)
BindPort(u) ==
    /\ service[u] = "loaded"
    /\ IF listener[port[u]] = None
         THEN /\ listener' = [listener EXCEPT ![port[u]] = u]
              /\ service' = [service EXCEPT ![u] = "up"]
              /\ UNCHANGED loaded
         ELSE /\ UNCHANGED listener
              /\ \/ service' = [service EXCEPT ![u] = "deaf"] /\ UNCHANGED loaded
                 \/ /\ service' = [service EXCEPT ![u] = "failed"]
                    /\ loaded' = [loaded EXCEPT ![u] = None]
    /\ UNCHANGED <<files, port, allocation, juju, pc, faults, history>>

ServiceCrashes(u) ==
    /\ Running(u) /\ Fault
    /\ service' = [service EXCEPT ![u] = "failed"]
    /\ loaded' = [loaded EXCEPT ![u] = None]
    /\ listener' = Hangup(u)
    /\ UNCHANGED <<files, port, allocation, juju, pc, history>>

(* Restart=on-failure, if there still is a service file.                   *)
RestartService(u) ==
    /\ service[u] = "failed"
    /\ IF unitFile[u] THEN Launch(u)
       ELSE service' = [service EXCEPT ![u] = "off"]
            /\ UNCHANGED <<port, loaded, listener>>
    /\ UNCHANGED <<files, allocation, juju, pc, faults, history>>

(* Another program takes or leaves a port.                                 *)
OtherBinds(p) ==
    /\ listener[p] = None /\ Fault
    /\ listener' = [listener EXCEPT ![p] = Other]
    /\ UNCHANGED <<files, service, port, loaded, allocation, juju, pc, history>>

OtherLeaves(p) ==
    /\ listener[p] = Other
    /\ listener' = [listener EXCEPT ![p] = None]
    /\ UNCHANGED <<files, service, port, loaded, allocation, juju, pc, faults,
                   history>>

-----------------------------------------------------------------------------
HookStep(u) ==
    \/ TakeLock(u) \/ Probe(u) \/ WritePort(u) \/ HavePort(u)
    \/ Stop(u) \/ WriteFiles(u) \/ Enable(u) \/ WaitTillReady(u) \/ Flush(u)
    \/ CleanupStop(u) \/ CleanupUnlink(u) \/ RemoveUnitData(u)

ServiceStep(u) == LoadConfig(u) \/ BindPort(u) \/ RestartService(u)

(* The machine stays when its last unit is gone.                           *)
AllRemoved == (\A u \in Units : life[u] = "removed") /\ UNCHANGED vars

Next ==
    \/ AllRemoved
    \/ \E u \in Units, h \in {"configure", "halt", "stop", "remove"} :
          CallHook(u, h)
    \/ \E u \in Units : \/ HookStep(u) \/ HookFails(u)
                        \/ ServiceStep(u) \/ ServiceCrashes(u)
    \/ \E p \in Ports : OtherBinds(p) \/ OtherLeaves(p)

Spec == Init /\ [][Next]_vars

-----------------------------------------------------------------------------
(* Type invariant of the services of a machine.                            *)
TypeOK ==
    /\ portFile \in [Units -> Ports \cup {Damaged, None}]
    /\ unitFile \in [Units -> BOOLEAN]
    /\ config \in [Units -> 0..MaxVersion \cup {None}]
    /\ service \in [Units -> {"off", "starting", "loaded", "up", "deaf",
                              "failed"}]
    /\ port \in [Units -> Ports \cup {None}]
    /\ loaded \in [Units -> 0..MaxVersion \cup {None}]
    /\ listener \in [Ports -> Units \cup {Other, None}]
    /\ lock \in Units \cup {None} /\ used \subseteq Ports /\ offset \in 0..Span
    /\ life \in [Units -> {"installed", "stopped", "removed"}]
    /\ version \in [Units -> 0..MaxVersion]
    /\ hook \in [Units -> {"none", "configure", "halt", "stop", "remove"}]
    /\ pc \in [Units -> {"idle", "lock", "probe", "write", "port", "stop",
                         "files", "enable", "wait", "flush", "cleanup",
                         "unlink", "rmtree"}]
    /\ faults \in 0..MaxFaults
    /\ fellBack \subseteq Units /\ raced \subseteq Units

(* Units that allocate at the same time, crash while they do, or have a    *)
(* service that is down never persist the same port, unless one of them    *)
(* found every candidate taken.                                            *)
PortsApart ==
    \A u, v \in Units :
        /\ u # v /\ portFile[u] = portFile[v] /\ portFile[u] \in Ports
        => u \in fellBack \/ v \in fellBack

(* The port files, the lock and the probe are a registry of ports: however *)
(* hooks interleave and die, a unit gets a port that no other unit has, or *)
(* its base port, and has it until its data is removed.                    *)
Registry == INSTANCE PortRegistry WITH
    owned <- [u \in Units |->
                IF portFile[u] = Damaged THEN None ELSE portFile[u]],
    shared <- {u \in fellBack : portFile[u] \in Ports}

KeepsRegistry == Registry!Spec

(* The flush of a unit never reaches the service of another unit, unless   *)
(* one of the two found every candidate taken, or the other was removed    *)
(* and left its service behind, which cleanup did not find running.        *)
OwnAnswer ==
    \A u, v \in Units :
        /\ pc[u] = "flush" /\ Answer(u) = v /\ life[v] = "installed"
        => v = u \/ {u, v} \cap fellBack # {}

(* After a configure hook the service of the unit works with the           *)
(* configuration the hook wrote, unless systemd was about to restart it    *)
(* when the hook began.                                                    *)
ConfigurationApplies ==
    \A u \in Units :
        /\ pc[u] = "idle" /\ hook[u] = "configure" /\ loaded[u] # None
        => loaded[u] = config[u] \/ u \in raced

-----------------------------------------------------------------------------
(* What the documentation says of this component and the code does not do. *)

(* _select_http_port: "If all candidates are busy, returns the base port;  *)
(* systemd start will fail and surface error."  The hook is told that the  *)
(* service is ready although it could not bind its port.                   *)
FallbackSurfaces ==
    \A u \in fellBack :
        service[u] \in {"deaf", "failed"} => pc[u] # "flush"
=============================================================================
