------------------------ MODULE ManagerServiceProofs ------------------------
(***************************************************************************)
(* Proofs about ManagerService: its types, the port lock and the ports.    *)
(***************************************************************************)
EXTENDS ManagerService, TLAPS

(* Steps of a hook that has its port.                                      *)
Working == {"port", "stop", "files", "enable", "wait", "flush", "cleanup",
            "unlink", "rmtree"}

(* The lock is held by the hook that allocates, and by nobody else.        *)
LockIsHeld == \A u \in Units : lock = u <=> pc[u] \in {"probe", "write"}

(* A hook allocates only for a unit without a port, and goes on with one.  *)
PortIsKnown ==
    \A u \in Units :
        /\ pc[u] \in {"lock", "probe", "write"} => portFile[u] \notin Ports
        /\ pc[u] \in Working => portFile[u] \in Ports

(* A service file goes before the port file that its process reads.        *)
ServiceHasPort ==
    \A u \in Units : /\ unitFile[u] => portFile[u] \in Ports
                     /\ pc[u] = "rmtree" => ~unitFile[u]

(* What the holder of the lock has read stays an upper bound of the ports  *)
(* that are persisted: only the holder persists one.                       *)
UsedIsCurrent ==
    lock # None =>
        \A v \in Units : portFile[v] \in Ports => portFile[v] \in used

(* A candidate that is written was not in use, or all of them were and it  *)
(* is the base port.                                                       *)
CandidateIsFree ==
    \A u \in Units :
        pc[u] = "write" =>
            \/ u \in fellBack /\ offset = 0
            \/ u \notin fellBack /\ Base[u] + offset \notin used

(* The inductive invariant of the ports.                                   *)
PortInv ==
    /\ TypeOK /\ LockIsHeld /\ PortIsKnown /\ ServiceHasPort
    /\ UsedIsCurrent /\ CandidateIsFree /\ PortsApart

(* The process of an installed unit has the port of the port file, which   *)
(* stays as it is until the unit is stopped for good.                      *)
ProcessHasPort ==
    \A u \in Units :
        life[u] = "installed" /\ service[u] # "off"
            => port[u] = portFile[u] /\ portFile[u] \in Ports

(* Who listens is up, and listens on its own port.                         *)
ListenerIsUp ==
    \A p \in Ports, u \in Units :
        listener[p] = u => service[u] = "up" /\ port[u] = p

(* A process that has not read its configuration has none.                 *)
LoadedByProcess ==
    \A u \in Units :
        service[u] \in {"off", "starting", "failed"} => loaded[u] = None

(* Only a configure hook writes the configuration and only a stop hook     *)
(* removes it.                                                             *)
HookAtWork ==
    \A u \in Units :
        /\ pc[u] \in {"files", "enable"} => hook[u] = "configure"
        /\ pc[u] \in {"cleanup", "unlink", "rmtree"} => hook[u] = "stop"

(* Unless systemd was about to restart the service, it is off while its    *)
(* configuration is written, and reads it afterwards.                      *)
ConfigurationIsRead ==
    \A u \in Units :
        hook[u] = "configure" /\ u \notin raced =>
            /\ pc[u] \in {"files", "enable"} => service[u] = "off"
            /\ pc[u] \in {"wait", "flush", "idle"}
                  => loaded[u] \in {None, config[u]}

(* The inductive invariant of the processes, on top of that of the ports.  *)
ProcessInv ==
    /\ ProcessHasPort /\ ListenerIsUp /\ LoadedByProcess /\ HookAtWork
    /\ ConfigurationIsRead

(* The inductive invariant: the ports and who persists them, the processes *)
(* and what they have read.                                                *)
IInv == PortInv /\ ProcessInv

-----------------------------------------------------------------------------
(* Every candidate of a unit is a port of the model.                       *)
LEMMA CandidateIsPort ==
    ASSUME NEW u \in Units, NEW k \in 0..Span
    PROVE  Base[u] + k \in Ports /\ Base[u] + k \in Nat
<1>1. Base[u] \in Nat /\ Span \in Nat
    BY ServiceAssumption
<1>2. Base[u] + k \in Base[u] .. Base[u] + Span
    BY <1>1
<1> QED BY <1>1, <1>2 DEF Ports

(* A port is a number, so it is neither an absent nor a damaged file.      *)
LEMMA PortIsNumber ==
    Ports \subseteq Nat /\ None \notin Ports /\ Damaged \notin Ports
<1>1. \A u \in Units : Base[u] \in Nat /\ Span \in Nat
    BY ServiceAssumption
<1>2. Ports \subseteq Nat
    BY <1>1 DEF Ports
<1> QED BY <1>2, ServiceAssumption

LEMMA InitPorts == Init => PortInv
<1> SUFFICES ASSUME Init PROVE PortInv
    OBVIOUS
<1> USE ServiceAssumption
<1>1. TypeOK
    BY DEF Init, TypeOK
<1>2. LockIsHeld /\ PortIsKnown
    BY PortIsNumber DEF Init, LockIsHeld, PortIsKnown, Working
<1>3. ServiceHasPort /\ UsedIsCurrent /\ CandidateIsFree /\ PortsApart
    BY PortIsNumber DEF Init, ServiceHasPort, UsedIsCurrent, CandidateIsFree,
                        PortsApart
<1> QED BY <1>1, <1>2, <1>3 DEF PortInv


(* Every step keeps the types.  A service is launched with the port in the *)
(* port file, which is one as long as there is a service file.             *)
LEMMA TypeStep == PortInv /\ [Next]_vars => TypeOK'
<1> SUFFICES ASSUME PortInv, [Next]_vars PROVE TypeOK'
    OBVIOUS
<1> USE ServiceAssumption DEF PortInv, TypeOK
<1>1. ASSUME NEW u \in Units,
             NEW h \in {"configure", "halt", "stop", "remove"}, CallHook(u, h)
      PROVE  TypeOK'
  <2>1. version' \in [Units -> 0..MaxVersion]
    BY <1>1 DEF CallHook, HasPort
  <2> QED BY <1>1, <2>1 DEF CallHook, HasPort, Goto, files, process, allocation,
                             history
<1>2. ASSUME NEW u \in Units, HookFails(u) PROVE TypeOK'
    BY <1>2 DEF HookFails, Fault, Goto, allocation, process, history
<1>3. ASSUME NEW u \in Units, TakeLock(u) PROVE TypeOK'
    BY <1>3 DEF TakeLock, PersistedPorts, Goto, files, process, juju, history
<1>4. ASSUME NEW u \in Units, Probe(u) PROVE TypeOK'
    BY <1>4 DEF Probe, Goto, files, process, juju
<1>5. ASSUME NEW u \in Units, WritePort(u) PROVE TypeOK'
    BY <1>5, CandidateIsPort DEF WritePort, Goto, process, juju, history
<1>6. ASSUME NEW u \in Units, HavePort(u) PROVE TypeOK'
    BY <1>6 DEF HavePort, Goto, files, process, allocation, history
<1>7. ASSUME NEW u \in Units, Stop(u) PROVE TypeOK'
  <2>1. StopService(u) /\ UNCHANGED files /\ UNCHANGED allocation
        /\ UNCHANGED juju
    BY <1>7 DEF Stop
  <2> QED BY <1>7, <2>1 DEF Stop, StopService, Hangup, Goto, files, process,
                            allocation, juju
<1>8. ASSUME NEW u \in Units, WriteFiles(u) PROVE TypeOK'
    BY <1>8 DEF WriteFiles, Goto, process, allocation, juju, history
<1>9. ASSUME NEW u \in Units, Enable(u) PROVE TypeOK'
  <2>1. portFile[u] \in Ports
    BY <1>9 DEF Enable, PortIsKnown, Working
  <2> QED BY <1>9, <2>1 DEF Enable, Launch, Goto, files, process, allocation,
                            juju, history
<1>10. ASSUME NEW u \in Units, WaitTillReady(u) PROVE TypeOK'
    BY <1>10 DEF WaitTillReady, RequestFails, Goto, files, process, allocation,
                 history
<1>11. ASSUME NEW u \in Units, Flush(u) PROVE TypeOK'
    BY <1>11 DEF Flush, RequestFails, Goto, files, process, allocation, history
<1>12. ASSUME NEW u \in Units, CleanupStop(u) PROVE TypeOK'
    BY <1>12 DEF CleanupStop, StopService, Hangup, Goto, files, process,
                 allocation, juju, history
<1>13. ASSUME NEW u \in Units, CleanupUnlink(u) PROVE TypeOK'
    BY <1>13 DEF CleanupUnlink, Goto, process, allocation, juju, history
<1>14. ASSUME NEW u \in Units, RemoveUnitData(u) PROVE TypeOK'
    BY <1>14 DEF RemoveUnitData, Goto, process, allocation, history
<1>15. ASSUME NEW u \in Units, LoadConfig(u) PROVE TypeOK'
    BY <1>15 DEF LoadConfig, files, allocation, juju, history
<1>16. ASSUME NEW u \in Units, BindPort(u) PROVE TypeOK'
    BY <1>16 DEF BindPort, files, allocation, juju, history
<1>17. ASSUME NEW u \in Units, RestartService(u) PROVE TypeOK'
    BY <1>17 DEF RestartService, Launch, ServiceHasPort, files, allocation,
                 juju, history
<1>18. ASSUME NEW u \in Units, ServiceCrashes(u) PROVE TypeOK'
    BY <1>18 DEF ServiceCrashes, Fault, Hangup, files, allocation, juju, history
<1>19. ASSUME NEW p \in Ports, OtherBinds(p) \/ OtherLeaves(p) PROVE TypeOK'
    BY <1>19 DEF OtherBinds, OtherLeaves, Fault, files, allocation, juju,
                 history
<1>20. CASE UNCHANGED vars
    BY <1>20 DEF vars, files, process, allocation, juju, history
<1> QED
    BY <1>1, <1>2, <1>3, <1>4, <1>5, <1>6, <1>7, <1>8, <1>9, <1>10, <1>11,
       <1>12, <1>13, <1>14, <1>15, <1>16, <1>17, <1>18, <1>19, <1>20
    DEF Next, AllRemoved, HookStep, ServiceStep

-----------------------------------------------------------------------------
(* What the rest of the invariant speaks of: no step of a service, of      *)
(* systemd or of another program changes it.                               *)
books == <<portFile, unitFile, lock, used, offset, fellBack>>

LEMMA ServicesLeaveIt ==
    ASSUME PortInv, TypeOK', UNCHANGED books, UNCHANGED pc PROVE PortInv'
<1> QED BY DEF PortInv, LockIsHeld, PortIsKnown, ServiceHasPort, UsedIsCurrent,
               CandidateIsFree, PortsApart, books

(* Most steps of a hook with a port only lead to another of them.          *)
LEMMA WorkLeavesIt ==
    ASSUME PortInv, TypeOK', UNCHANGED books, NEW u \in Units, pc[u] \in Working,
           NEW label \in (Working \ {"rmtree"}) \cup {"idle"}, Goto(u, label)
    PROVE  PortInv'
<1>1. \A v \in Units : pc'[v] = IF v = u THEN label ELSE pc[v]
    BY DEF Goto, PortInv, TypeOK
<1>2. LockIsHeld' /\ PortIsKnown' /\ ServiceHasPort'
    BY <1>1 DEF PortInv, LockIsHeld, PortIsKnown, ServiceHasPort, Working, books
<1>3. UsedIsCurrent' /\ CandidateIsFree' /\ PortsApart'
    BY <1>1 DEF PortInv, UsedIsCurrent, CandidateIsFree, PortsApart, Working, books
<1> QED BY <1>2, <1>3 DEF PortInv

(* The port that is written is nobody's, because what the holder of the    *)
(* lock read is still current.                                             *)
LEMMA WriteKeepsPortsApart ==
    ASSUME PortInv, NEW u \in Units, WritePort(u) PROVE PortsApart'
<1>1. portFile' = [portFile EXCEPT ![u] = Base[u] + offset]
      /\ fellBack' = fellBack /\ pc[u] = "write" /\ lock = u
    BY DEF WritePort, PortInv, LockIsHeld, history
<1>2. ASSUME NEW v \in Units, v # u, portFile[v] = Base[u] + offset
      PROVE  u \in fellBack
    BY <1>1, <1>2, CandidateIsPort, ServiceAssumption
    DEF PortInv, TypeOK, UsedIsCurrent, CandidateIsFree
<1> QED BY <1>1, <1>2 DEF PortInv, TypeOK, PortsApart

LEMMA StepPorts == PortInv /\ [Next]_vars => PortInv'
<1> SUFFICES ASSUME PortInv, [Next]_vars PROVE PortInv'
    OBVIOUS
<1>0. TypeOK'
    BY TypeStep
<1> USE DEF PortInv
<1>1. ASSUME NEW u \in Units,
             NEW h \in {"configure", "halt", "stop", "remove"}, CallHook(u, h)
      PROVE  PortInv'
  <2> USE <1>1 DEF CallHook, HasPort, Goto, files, allocation, history
  <2>1. LockIsHeld' /\ PortIsKnown' /\ ServiceHasPort'
    BY DEF TypeOK, LockIsHeld, PortIsKnown, ServiceHasPort, Working
  <2>2. UsedIsCurrent' /\ CandidateIsFree' /\ PortsApart'
    BY DEF TypeOK, UsedIsCurrent, CandidateIsFree, PortsApart
  <2> QED BY <1>0, <2>1, <2>2
<1>2. ASSUME NEW u \in Units, HookFails(u) PROVE PortInv'
  <2> USE <1>2, ServiceAssumption
      DEF HookFails, Goto, allocation, history
  <2>1. LockIsHeld'
    BY DEF TypeOK, LockIsHeld
  <2>2. \A v \in Units : portFile'[v] \in Ports <=> portFile[v] \in Ports
    BY PortIsNumber DEF TypeOK, PortIsKnown
  <2>3. \A v \in Units : portFile'[v] \in Ports => portFile'[v] = portFile[v]
    BY PortIsNumber DEF TypeOK
  <2>4. PortIsKnown' /\ ServiceHasPort'
    BY <2>2 DEF TypeOK, PortIsKnown, ServiceHasPort, Working
  <2>5. UsedIsCurrent' /\ CandidateIsFree'
    BY <2>3 DEF TypeOK, LockIsHeld, UsedIsCurrent, CandidateIsFree
  <2>6. PortsApart'
    BY <2>3 DEF TypeOK, PortsApart
  <2> QED BY <1>0, <2>1, <2>4, <2>5, <2>6
<1>3. ASSUME NEW u \in Units, TakeLock(u) PROVE PortInv'
  <2> USE <1>3, ServiceAssumption DEF TakeLock, Goto, files, history
  <2>1. LockIsHeld' /\ PortIsKnown' /\ ServiceHasPort'
    BY DEF TypeOK, LockIsHeld, PortIsKnown, ServiceHasPort, Working
  <2>2. UsedIsCurrent'
    BY DEF PersistedPorts, UsedIsCurrent
  <2>3. CandidateIsFree' /\ PortsApart'
    BY DEF TypeOK, LockIsHeld, CandidateIsFree, PortsApart
  <2> QED BY <1>0, <2>1, <2>2, <2>3
<1>4. ASSUME NEW u \in Units, Probe(u) PROVE PortInv'
  <2> USE <1>4, ServiceAssumption DEF Probe, Goto, files
  <2>1. lock' = lock /\ used' = used /\ portFile' = portFile
        /\ unitFile' = unitFile /\ lock = u /\ portFile[u] \notin Ports
    BY DEF LockIsHeld, PortIsKnown
  <2>2. LockIsHeld' /\ PortIsKnown' /\ ServiceHasPort'
    BY <2>1 DEF TypeOK, LockIsHeld, PortIsKnown, ServiceHasPort, Working
  <2>3. UsedIsCurrent'
    BY <2>1 DEF UsedIsCurrent
  <2>4. CandidateIsFree'
    BY <2>1 DEF TypeOK, LockIsHeld, CandidateIsFree
  <2>5. PortsApart'
    BY <2>1 DEF TypeOK, PortsApart
  <2> QED BY <1>0, <2>2, <2>3, <2>4, <2>5
<1>5. ASSUME NEW u \in Units, WritePort(u) PROVE PortInv'
  <2>1. PortsApart'
    BY <1>5, WriteKeepsPortsApart
  <2> USE <1>5, ServiceAssumption DEF WritePort, Goto, history
  <2>2. portFile'[u] \in Ports /\ lock = u /\ lock' = None
    BY CandidateIsPort DEF TypeOK, LockIsHeld
  <2>3. LockIsHeld'
    BY <2>2 DEF TypeOK, LockIsHeld
  <2>4. PortIsKnown' /\ ServiceHasPort'
    BY <2>2 DEF TypeOK, PortIsKnown, ServiceHasPort, Working
  <2>5. UsedIsCurrent' /\ CandidateIsFree'
    BY <2>2 DEF TypeOK, LockIsHeld, UsedIsCurrent, CandidateIsFree
  <2> QED BY <1>0, <2>1, <2>3, <2>4, <2>5
<1>6. ASSUME NEW u \in Units,
             \/ HavePort(u) \/ Stop(u) \/ Enable(u) \/ WaitTillReady(u)
             \/ Flush(u) \/ CleanupStop(u)
      PROVE  PortInv'
  <2>1. UNCHANGED books /\ pc[u] \in Working
    BY <1>6 DEF HavePort, Stop, Enable, WaitTillReady, Flush, RequestFails,
                CleanupStop, files, allocation, history, books, Working
  <2>2. PICK label \in {"wait", "idle", "stop", "files", "flush", "cleanup",
                        "unlink"} : Goto(u, label)
    BY <1>6 DEF HavePort, Stop, Enable, WaitTillReady, Flush, RequestFails,
                CleanupStop
  <2> QED BY <1>0, <2>1, <2>2, WorkLeavesIt DEF Working
<1>7. ASSUME NEW u \in Units, WriteFiles(u) PROVE PortInv'
  <2> USE <1>7 DEF WriteFiles, Goto, allocation, history
  <2>1. LockIsHeld' /\ PortIsKnown' /\ ServiceHasPort'
    BY DEF TypeOK, LockIsHeld, PortIsKnown, ServiceHasPort, Working
  <2>2. UsedIsCurrent' /\ CandidateIsFree' /\ PortsApart'
    BY DEF TypeOK, UsedIsCurrent, CandidateIsFree, PortsApart
  <2> QED BY <1>0, <2>1, <2>2
<1>8. ASSUME NEW u \in Units, CleanupUnlink(u) PROVE PortInv'
  <2> USE <1>8 DEF CleanupUnlink, Goto, allocation, history
  <2>1. LockIsHeld' /\ PortIsKnown' /\ ServiceHasPort'
    BY DEF TypeOK, LockIsHeld, PortIsKnown, ServiceHasPort, Working
  <2>2. UsedIsCurrent' /\ CandidateIsFree' /\ PortsApart'
    BY DEF TypeOK, UsedIsCurrent, CandidateIsFree, PortsApart
  <2> QED BY <1>0, <2>1, <2>2
<1>9. ASSUME NEW u \in Units, RemoveUnitData(u) PROVE PortInv'
  <2> USE <1>9 DEF RemoveUnitData, Goto, allocation, history
  <2>1. portFile'[u] \notin Ports
    BY PortIsNumber DEF TypeOK
  <2>2. LockIsHeld' /\ PortIsKnown' /\ ServiceHasPort'
    BY <2>1 DEF TypeOK, LockIsHeld, PortIsKnown, ServiceHasPort, Working
  <2>3. UsedIsCurrent' /\ CandidateIsFree' /\ PortsApart'
    BY <2>1 DEF TypeOK, UsedIsCurrent, CandidateIsFree, PortsApart
  <2> QED BY <1>0, <2>2, <2>3
<1>10. ASSUME NEW u \in Units, ServiceStep(u) \/ ServiceCrashes(u) PROVE PortInv'
  <2>1. UNCHANGED books /\ UNCHANGED pc
    BY <1>10 DEF ServiceStep, LoadConfig, BindPort, RestartService,
                 ServiceCrashes, files, allocation, history, books
  <2> QED BY <1>0, <2>1, ServicesLeaveIt
<1>11. ASSUME NEW p \in Ports, OtherBinds(p) \/ OtherLeaves(p) PROVE PortInv'
  <2>1. UNCHANGED books /\ UNCHANGED pc
    BY <1>11 DEF OtherBinds, OtherLeaves, files, allocation, history, books
  <2> QED BY <1>0, <2>1, ServicesLeaveIt
<1>12. CASE UNCHANGED vars
  <2>1. UNCHANGED books /\ UNCHANGED pc
    BY <1>12 DEF vars, files, allocation, history, books
  <2> QED BY <1>0, <2>1, ServicesLeaveIt
<1> QED
    BY <1>1, <1>2, <1>3, <1>4, <1>5, <1>6, <1>7, <1>8, <1>9, <1>10, <1>11,
       <1>12
    DEF Next, AllRemoved, HookStep

-----------------------------------------------------------------------------
(* The processes and what they have read.                                  *)
LEMMA InitProcesses == Init => ProcessInv
<1> SUFFICES ASSUME Init PROVE ProcessInv
    OBVIOUS
<1> USE ServiceAssumption DEF Init
<1>1. ProcessHasPort /\ ListenerIsUp /\ LoadedByProcess
    BY DEF ProcessHasPort, ListenerIsUp, LoadedByProcess
<1>2. HookAtWork /\ ConfigurationIsRead
    BY DEF HookAtWork, ConfigurationIsRead
<1> QED BY <1>1, <1>2 DEF ProcessInv

(* What a process is and has read, and what its unit expects of it.        *)
processes == <<process, config, hook, raced>>

(* A hook may go on while its process and its configuration stay.          *)
LEMMA ProcessesStay ==
    ASSUME PortInv, ProcessInv, UNCHANGED processes, NEW u \in Units,
           NEW label, Goto(u, label),
           label \in {"files", "enable", "cleanup", "unlink", "rmtree"}
              => label = pc[u],
           hook[u] = "configure" /\ label \in {"wait", "flush", "idle"}
              => pc[u] \in {"wait", "flush", "idle"},
           \A v \in Units : life'[v] = "installed" =>
              life[v] = "installed" /\ (portFile[v] \in Ports
                                           => portFile'[v] = portFile[v])
    PROVE  ProcessInv'
<1> USE DEF PortInv, TypeOK, ProcessInv, processes, process
<1>1. \A v \in Units : pc'[v] = IF v = u THEN label ELSE pc[v]
    BY DEF Goto
<1>2. ProcessHasPort'
    BY DEF ProcessHasPort
<1>3. ListenerIsUp' /\ LoadedByProcess'
    BY DEF ListenerIsUp, LoadedByProcess
<1>4. HookAtWork' /\ ConfigurationIsRead'
    BY <1>1 DEF HookAtWork, ConfigurationIsRead
<1> QED BY <1>2, <1>3, <1>4

LEMMA StepProcesses == PortInv /\ ProcessInv /\ [Next]_vars => ProcessInv'
<1> SUFFICES ASSUME PortInv, ProcessInv, [Next]_vars PROVE ProcessInv'
    OBVIOUS
<1> USE ServiceAssumption DEF PortInv, TypeOK, ProcessInv
<1>1. ASSUME NEW u \in Units,
             NEW h \in {"configure", "halt", "stop", "remove"}, CallHook(u, h)
      PROVE  ProcessInv'
  <2> USE <1>1 DEF CallHook, HasPort, Goto, files, process, allocation, history
  <2>1. ProcessHasPort' /\ ListenerIsUp' /\ LoadedByProcess'
    BY DEF ProcessHasPort, ListenerIsUp, LoadedByProcess
  <2>2. HookAtWork' /\ ConfigurationIsRead'
    BY DEF HookAtWork, ConfigurationIsRead
  <2> QED BY <2>1, <2>2
<1>2. ASSUME NEW u \in Units, HookFails(u) PROVE ProcessInv'
  <2> USE <1>2 DEF HookFails, Goto, process, history
  <2>1. \A v \in Units : portFile[v] \in Ports => portFile'[v] = portFile[v]
    BY DEF PortIsKnown
  <2>2. ProcessHasPort'
    BY <2>1 DEF ProcessHasPort
  <2>3. ListenerIsUp' /\ LoadedByProcess'
    BY DEF ListenerIsUp, LoadedByProcess
  <2>4. HookAtWork' /\ ConfigurationIsRead'
    BY DEF HookAtWork, ConfigurationIsRead
  <2> QED BY <2>2, <2>3, <2>4
<1>3. ASSUME NEW u \in Units, TakeLock(u) PROVE ProcessInv'
    BY <1>3, ProcessesStay DEF TakeLock, files, juju, history, processes
<1>4. ASSUME NEW u \in Units, Probe(u) PROVE ProcessInv'
  <2>1. \E label \in {"probe", "write"} : Goto(u, label)
    BY <1>4 DEF Probe, Goto
  <2> QED BY <1>4, <2>1, ProcessesStay DEF Probe, files, juju, processes
<1>5. ASSUME NEW u \in Units, WritePort(u) PROVE ProcessInv'
  <2>1. portFile[u] \notin Ports
    BY <1>5 DEF WritePort, PortIsKnown
  <2>2. \A v \in Units : portFile[v] \in Ports => portFile'[v] = portFile[v]
    BY <1>5, <2>1 DEF WritePort
  <2> QED BY <1>5, <2>2, ProcessesStay DEF WritePort, juju, history, processes
<1>6. ASSUME NEW u \in Units, HavePort(u) PROVE ProcessInv'
  <2>1. PICK label : /\ Goto(u, label)
                     /\ label = CASE hook[u] = "stop" -> "wait"
                                  [] hook[u] = "remove" -> "idle"
                                  [] OTHER -> "stop"
    BY <1>6 DEF HavePort
  <2>2. \A v \in Units : life'[v] = "installed" => life[v] = "installed"
    BY <1>6 DEF HavePort
  <2> QED BY <1>6, <2>1, <2>2, ProcessesStay
          DEF HavePort, files, history, processes
<1>7. ASSUME NEW u \in Units, Stop(u) PROVE ProcessInv'
  <2> USE <1>7 DEF Stop, Goto, files, juju
  <2>1. StopService(u)
    OBVIOUS
  <2>2. ProcessHasPort'
    BY <2>1 DEF ProcessHasPort, StopService, process
  <2>3. ListenerIsUp' /\ LoadedByProcess'
    BY <2>1 DEF ListenerIsUp, LoadedByProcess, StopService, Hangup, process,
                Running
  <2>4. service[u] # "failed" => service'[u] = "off"
    BY <2>1 DEF StopService, process, Running
  <2>5. \A v \in Units \ {u} :
           service'[v] = service[v] /\ loaded'[v] = loaded[v]
    BY <2>1 DEF StopService, process
  <2>6. HookAtWork' /\ ConfigurationIsRead'
    BY <2>3, <2>4, <2>5 DEF HookAtWork, ConfigurationIsRead, LoadedByProcess
  <2> QED BY <2>2, <2>3, <2>6
<1>8. ASSUME NEW u \in Units, WriteFiles(u) PROVE ProcessInv'
  <2> USE <1>8 DEF WriteFiles, Goto, process, juju, history
  <2>1. ProcessHasPort' /\ ListenerIsUp' /\ LoadedByProcess'
    BY DEF ProcessHasPort, ListenerIsUp, LoadedByProcess
  <2>2. HookAtWork' /\ ConfigurationIsRead'
    BY DEF HookAtWork, ConfigurationIsRead
  <2> QED BY <2>1, <2>2
<1>9. ASSUME NEW u \in Units, Enable(u) PROVE ProcessInv'
  <2> USE <1>9 DEF Enable, Goto, files, juju, history
  <2>1. portFile[u] \in Ports
    BY DEF PortIsKnown, Working
  <2>2. ProcessHasPort'
    BY <2>1 DEF ProcessHasPort, Launch, process
  <2>3. ListenerIsUp' /\ LoadedByProcess'
    BY DEF ListenerIsUp, LoadedByProcess, Launch, process, Running
  <2>4. HookAtWork' /\ ConfigurationIsRead'
    BY DEF HookAtWork, ConfigurationIsRead, LoadedByProcess, Launch, process
  <2> QED BY <2>2, <2>3, <2>4
<1>10. ASSUME NEW u \in Units, WaitTillReady(u) \/ Flush(u) PROVE ProcessInv'
  <2> USE <1>10 DEF WaitTillReady, Flush, RequestFails, Goto, files, process,
                    allocation, history
  <2>1. ProcessHasPort' /\ ListenerIsUp' /\ LoadedByProcess'
    BY DEF ProcessHasPort, ListenerIsUp, LoadedByProcess
  <2>2. HookAtWork' /\ ConfigurationIsRead'
    BY DEF HookAtWork, ConfigurationIsRead
  <2> QED BY <2>1, <2>2
<1>11. ASSUME NEW u \in Units, CleanupStop(u) PROVE ProcessInv'
  <2> USE <1>11 DEF CleanupStop, Goto, files, juju, history
  <2>1. StopService(u)
    OBVIOUS
  <2>2. ProcessHasPort'
    BY <2>1 DEF ProcessHasPort, StopService, process
  <2>3. ListenerIsUp' /\ LoadedByProcess'
    BY <2>1 DEF ListenerIsUp, LoadedByProcess, StopService, Hangup, process,
                Running
  <2>4. \A v \in Units \ {u} :
           service'[v] = service[v] /\ loaded'[v] = loaded[v]
    BY <2>1 DEF StopService, process
  <2>5. HookAtWork' /\ ConfigurationIsRead'
    BY <2>4 DEF HookAtWork, ConfigurationIsRead
  <2> QED BY <2>2, <2>3, <2>5
<1>12. ASSUME NEW u \in Units, CleanupUnlink(u) PROVE ProcessInv'
  <2> USE <1>12 DEF CleanupUnlink, Goto, process, juju, history
  <2>1. ProcessHasPort' /\ ListenerIsUp' /\ LoadedByProcess'
    BY DEF ProcessHasPort, ListenerIsUp, LoadedByProcess
  <2>2. HookAtWork' /\ ConfigurationIsRead'
    BY DEF HookAtWork, ConfigurationIsRead
  <2> QED BY <2>1, <2>2
<1>13. ASSUME NEW u \in Units, RemoveUnitData(u) PROVE ProcessInv'
  <2> USE <1>13 DEF RemoveUnitData, Goto, process, history
  <2>1. ProcessHasPort' /\ ListenerIsUp' /\ LoadedByProcess'
    BY DEF ProcessHasPort, ListenerIsUp, LoadedByProcess
  <2>2. HookAtWork' /\ ConfigurationIsRead'
    BY DEF HookAtWork, ConfigurationIsRead
  <2> QED BY <2>1, <2>2
<1>14. ASSUME NEW u \in Units, LoadConfig(u) PROVE ProcessInv'
  <2> USE <1>14 DEF LoadConfig, files, juju, history
  <2>1. ProcessHasPort' /\ ListenerIsUp' /\ LoadedByProcess'
    BY DEF ProcessHasPort, ListenerIsUp, LoadedByProcess
  <2>2. HookAtWork' /\ ConfigurationIsRead'
    BY DEF HookAtWork, ConfigurationIsRead
  <2> QED BY <2>1, <2>2
<1>15. ASSUME NEW u \in Units, BindPort(u) PROVE ProcessInv'
  <2> USE <1>15 DEF BindPort, files, juju, history
  <2>1. ProcessHasPort' /\ ListenerIsUp' /\ LoadedByProcess'
    BY DEF ProcessHasPort, ListenerIsUp, LoadedByProcess
  <2>2. HookAtWork' /\ ConfigurationIsRead'
    BY DEF HookAtWork, ConfigurationIsRead
  <2> QED BY <2>1, <2>2
<1>16. ASSUME NEW u \in Units, RestartService(u) PROVE ProcessInv'
  <2> USE <1>16 DEF RestartService, Launch, files, juju, history
  <2>1. unitFile[u] => portFile[u] \in Ports
    BY DEF ServiceHasPort
  <2>2. ProcessHasPort'
    BY <2>1 DEF ProcessHasPort
  <2>3. ListenerIsUp' /\ LoadedByProcess'
    BY DEF ListenerIsUp, LoadedByProcess
  <2>4. HookAtWork' /\ ConfigurationIsRead'
    BY DEF HookAtWork, ConfigurationIsRead
  <2> QED BY <2>2, <2>3, <2>4
<1>17. ASSUME NEW u \in Units, ServiceCrashes(u) PROVE ProcessInv'
  <2> USE <1>17 DEF ServiceCrashes, Hangup, Running, files, juju, history
  <2>1. ProcessHasPort' /\ ListenerIsUp' /\ LoadedByProcess'
    BY DEF ProcessHasPort, ListenerIsUp, LoadedByProcess
  <2>2. HookAtWork' /\ ConfigurationIsRead'
    BY DEF HookAtWork, ConfigurationIsRead
  <2> QED BY <2>1, <2>2
<1>18. ASSUME NEW p \in Ports, OtherBinds(p) \/ OtherLeaves(p)
       PROVE  ProcessInv'
  <2> USE <1>18 DEF OtherBinds, OtherLeaves, files, juju, history
  <2>1. ProcessHasPort' /\ LoadedByProcess'
    BY DEF ProcessHasPort, LoadedByProcess
  <2>2. ListenerIsUp'
    BY DEF ListenerIsUp
  <2>3. HookAtWork' /\ ConfigurationIsRead'
    BY DEF HookAtWork, ConfigurationIsRead
  <2> QED BY <2>1, <2>2, <2>3
<1>19. CASE UNCHANGED vars
  <2> USE <1>19 DEF vars, files, process, juju, history
  <2>1. ProcessHasPort' /\ ListenerIsUp' /\ LoadedByProcess'
    BY DEF ProcessHasPort, ListenerIsUp, LoadedByProcess
  <2>2. HookAtWork' /\ ConfigurationIsRead'
    BY DEF HookAtWork, ConfigurationIsRead
  <2> QED BY <2>1, <2>2
<1> QED
    BY <1>1, <1>2, <1>3, <1>4, <1>5, <1>6, <1>7, <1>8, <1>9, <1>10, <1>11,
       <1>12, <1>13, <1>14, <1>15, <1>16, <1>17, <1>18, <1>19
    DEF Next, AllRemoved, HookStep, ServiceStep

-----------------------------------------------------------------------------
(* The inductive invariant holds in every reachable state.                 *)
THEOREM Invariance == Spec => []IInv
<1>1. Init => IInv
    BY InitPorts, InitProcesses DEF IInv
<1>2. IInv /\ [Next]_vars => IInv'
    BY StepPorts, StepProcesses DEF IInv
<1> QED BY <1>1, <1>2, PTL DEF Spec

(* The types of the files, processes and hooks of a machine.               *)
THEOREM TypeCorrect == Spec => []TypeOK
<1>1. IInv => TypeOK
    BY DEF IInv, PortInv
<1> QED BY <1>1, Invariance, PTL

(* Two units never persist the same port unless one of them found every    *)
(* candidate taken, for any number of units and candidates and any crash.  *)
THEOREM PortsStayApart == Spec => []PortsApart
<1>1. IInv => PortsApart
    BY DEF IInv, PortInv
<1> QED BY <1>1, Invariance, PTL

(* The flush that ends a configuration or a unit is answered by the own    *)
(* service of the unit, for any number of units and any crash: whoever     *)
(* listens on its port has the same port in its file, which PortsApart     *)
(* rules out for others that are installed.                                *)
THEOREM FlushIsAnswered == Spec => []OwnAnswer
<1>1. ASSUME IInv PROVE OwnAnswer
  <2> USE <1>1 DEF IInv, PortInv, TypeOK
  <2> SUFFICES ASSUME NEW u \in Units, NEW v \in Units, pc[u] = "flush",
                      Answer(u) = v, life[v] = "installed"
               PROVE  v = u \/ {u, v} \cap fellBack # {}
      BY DEF OwnAnswer
  <2>1. portFile[u] \in Ports
      BY DEF PortIsKnown, Working
  <2>2. service[v] = "up" /\ port[v] = portFile[u]
      BY <2>1 DEF Answer, ProcessInv, ListenerIsUp
  <2>3. portFile[v] = portFile[u]
      BY <2>2 DEF ProcessInv, ProcessHasPort
  <2> QED BY <2>1, <2>3 DEF PortsApart
<1> QED BY <1>1, Invariance, PTL

(* What a configure hook wrote is what the service has read when the hook  *)
(* is over, if it has read anything yet.                                   *)
THEOREM ConfigurationIsApplied == Spec => []ConfigurationApplies
<1>1. ASSUME IInv PROVE ConfigurationApplies
    BY <1>1 DEF IInv, ProcessInv, ConfigurationIsRead, ConfigurationApplies
<1> QED BY <1>1, Invariance, PTL

-----------------------------------------------------------------------------
(* The registry of ports sees only the port files and who fell back.       *)
LEMMA RegistryStays ==
    ASSUME TypeOK, UNCHANGED <<portFile, fellBack>>
    PROVE  UNCHANGED Registry!registry
<1> QED BY DEF Registry!registry

(* A change of a file that holds no port before and after, or of the mark  *)
(* of a unit that has no port, is not seen.                                *)
LEMMA NoPortStays ==
    ASSUME TypeOK, TypeOK',
           \A v \in Units : \/ portFile'[v] = portFile[v]
                            \/ /\ portFile[v] \in {None, Damaged}
                               /\ portFile'[v] \in {None, Damaged},
           \A v \in Units : (v \in fellBack') = (v \in fellBack)
                            \/ portFile'[v] \notin Ports
    PROVE  UNCHANGED Registry!registry
<1>1. \A v \in Units : portFile'[v] \in Ports <=> portFile[v] \in Ports
    BY PortIsNumber DEF TypeOK
<1>2. \A v \in Units :
         (IF portFile'[v] = Damaged THEN None ELSE portFile'[v])
         = (IF portFile[v] = Damaged THEN None ELSE portFile[v])
    OBVIOUS
<1>3. {u \in fellBack' : portFile'[u] \in Ports}
      = {u \in fellBack : portFile[u] \in Ports}
    BY <1>1 DEF TypeOK
<1> QED BY <1>2, <1>3 DEF Registry!registry

(* The port that is written is the base port of a unit that fell back, and *)
(* otherwise nobody's, because what the holder of the lock read is still   *)
(* current.                                                                *)
LEMMA WriteIsAllocation ==
    ASSUME PortInv, NEW u \in Units, WritePort(u)
    PROVE  Registry!Allocate(u) \/ Registry!FallBack(u)
<1> USE PortIsNumber, ServiceAssumption DEF PortInv, TypeOK
<1> DEFINE Owned == [v \in Units |->
                       IF portFile[v] = Damaged THEN None ELSE portFile[v]]
           OwnedNext == [v \in Units |->
                       IF portFile'[v] = Damaged THEN None ELSE portFile'[v]]
           Shared == {v \in fellBack : portFile[v] \in Ports}
           SharedNext == {v \in fellBack' : portFile'[v] \in Ports}
<1>1. /\ pc[u] = "write" /\ lock = u
      /\ portFile' = [portFile EXCEPT ![u] = Base[u] + offset]
      /\ fellBack' = fellBack
    BY DEF WritePort, LockIsHeld, history
<1>2. Base[u] + offset \in Ports /\ Base[u] + offset \in Nat
    BY CandidateIsPort
<1>3. portFile[u] \in {None, Damaged}
    BY <1>1 DEF PortIsKnown
<1>4. Owned[u] = None
    BY <1>3
<1>5. OwnedNext = [Owned EXCEPT ![u] = Base[u] + offset]
    BY <1>1, <1>2
<1>6. CASE u \in fellBack /\ offset = 0
  <2>1. Base[u] + offset = Base[u]
      BY <1>6
  <2>2. SharedNext = Shared \cup {u}
      BY <1>1, <1>2, <1>6
  <2> QED BY <1>4, <1>5, <2>1, <2>2 DEF Registry!FallBack
<1>7. CASE u \notin fellBack /\ Base[u] + offset \notin used
  <2>1. \A v \in Units : Owned[v] # Base[u] + offset
      BY <1>1, <1>2, <1>7 DEF UsedIsCurrent
  <2>2. Base[u] + offset \in (Base[u] .. Base[u] + Span)
                                \ {Owned[v] : v \in Units}
      BY <2>1
  <2>3. SharedNext = Shared
      BY <1>1, <1>7
  <2> QED BY <1>4, <1>5, <2>2, <2>3 DEF Registry!Allocate
<1> QED BY <1>1, <1>6, <1>7 DEF CandidateIsFree

(* Only the removal of its data takes a port from a unit.                  *)
LEMMA RemovalIsRelease ==
    ASSUME PortInv, NEW u \in Units, RemoveUnitData(u)
    PROVE  Registry!Release(u)
<1> USE PortIsNumber, ServiceAssumption DEF PortInv, TypeOK
<1> DEFINE Owned == [v \in Units |->
                       IF portFile[v] = Damaged THEN None ELSE portFile[v]]
           OwnedNext == [v \in Units |->
                       IF portFile'[v] = Damaged THEN None ELSE portFile'[v]]
           Shared == {v \in fellBack : portFile[v] \in Ports}
           SharedNext == {v \in fellBack' : portFile'[v] \in Ports}
<1>1. /\ portFile' = [portFile EXCEPT ![u] = None] /\ fellBack' = fellBack
      /\ portFile[u] \in Ports
    BY DEF RemoveUnitData, PortIsKnown, Working, history
<1>2. Owned[u] # None
    BY <1>1
<1>3. OwnedNext = [Owned EXCEPT ![u] = None]
    BY <1>1
<1>4. SharedNext = Shared \ {u}
    BY <1>1
<1> QED BY <1>2, <1>3, <1>4 DEF Registry!Release

(* Every step of the machine is a step of the registry or leaves it alone. *)
LEMMA StepIsRegistryStep ==
    PortInv /\ [Next]_vars => [Registry!Next]_Registry!registry
<1> SUFFICES ASSUME PortInv, [Next]_vars
             PROVE  Registry!Next \/ UNCHANGED Registry!registry
    OBVIOUS
<1>0. TypeOK /\ TypeOK'
    BY TypeStep DEF PortInv
<1>1. ASSUME NEW u \in Units, WritePort(u) PROVE Registry!Next
    BY <1>1, WriteIsAllocation DEF Registry!Next
<1>2. ASSUME NEW u \in Units, RemoveUnitData(u) PROVE Registry!Next
    BY <1>2, RemovalIsRelease DEF Registry!Next
<1>3. ASSUME NEW u \in Units, Probe(u) PROVE UNCHANGED Registry!registry
  <2>1. portFile[u] \notin Ports /\ portFile' = portFile
      BY <1>3 DEF Probe, PortInv, PortIsKnown, files
  <2>2. \A v \in Units : (v \in fellBack') = (v \in fellBack) \/ v = u
      BY <1>3 DEF Probe
  <2> QED BY <1>0, <2>1, <2>2, NoPortStays
<1>4. ASSUME NEW u \in Units, HookFails(u)
      PROVE  UNCHANGED Registry!registry
  <2>1. fellBack' = fellBack
      BY <1>4 DEF HookFails, history
  <2>2. CASE UNCHANGED portFile
      BY <1>0, <2>1, <2>2, RegistryStays
  <2>3. CASE pc[u] = "write" /\ portFile' = [portFile EXCEPT ![u] = Damaged]
    <3>1. portFile[u] \in {None, Damaged}
        BY <2>3, <1>0 DEF PortInv, PortIsKnown, TypeOK
    <3>2. \A v \in Units : \/ portFile'[v] = portFile[v]
                           \/ /\ portFile[v] \in {None, Damaged}
                              /\ portFile'[v] \in {None, Damaged}
        BY <2>3, <3>1, <1>0 DEF TypeOK
    <3> QED BY <1>0, <2>1, <3>2, NoPortStays
  <2> QED BY <1>4, <2>2, <2>3 DEF HookFails
<1>5. ASSUME NEW u \in Units,
             \/ TakeLock(u) \/ HavePort(u) \/ Stop(u) \/ WriteFiles(u)
             \/ Enable(u) \/ WaitTillReady(u) \/ Flush(u) \/ CleanupStop(u)
             \/ CleanupUnlink(u) \/ ServiceStep(u) \/ ServiceCrashes(u)
      PROVE  UNCHANGED <<portFile, fellBack>>
    BY <1>5 DEF TakeLock, HavePort, Stop, WriteFiles, Enable, WaitTillReady,
                Flush, CleanupStop, CleanupUnlink, ServiceStep, LoadConfig,
                BindPort, RestartService, ServiceCrashes, files, history
<1>6. ASSUME NEW u \in Units,
             NEW h \in {"configure", "halt", "stop", "remove"}, CallHook(u, h)
      PROVE  UNCHANGED <<portFile, fellBack>>
    BY <1>6 DEF CallHook, files
<1>7. ASSUME NEW p \in Ports, OtherBinds(p) \/ OtherLeaves(p)
      PROVE  UNCHANGED <<portFile, fellBack>>
    BY <1>7 DEF OtherBinds, OtherLeaves, files, history
<1>8. UNCHANGED vars => UNCHANGED Registry!registry
    BY <1>0, RegistryStays DEF vars, files, history
<1>9. UNCHANGED <<portFile, fellBack>> => UNCHANGED Registry!registry
    BY <1>0, RegistryStays
<1> QED
    BY <1>1, <1>2, <1>3, <1>4, <1>5, <1>6, <1>7, <1>8, <1>9
    DEF Next, AllRemoved, HookStep

(* The port files, the lock and the probe implement the registry of ports, *)
(* for any number of units and candidates and any crash: a unit gets a     *)
(* port nobody has, or its base port, in one step, and keeps it until its  *)
(* data is removed.                                                        *)
THEOREM ImplementsRegistry == Spec => KeepsRegistry
<1>1. Init => Registry!Init
    BY PortIsNumber, ServiceAssumption DEF Init, Registry!Init
<1>2. IInv /\ [Next]_vars => [Registry!Next]_Registry!registry
    BY StepIsRegistryStep DEF IInv
<1> QED BY <1>1, <1>2, Invariance, PTL DEF Spec, KeepsRegistry, Registry!Spec
=============================================================================
