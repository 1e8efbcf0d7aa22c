--------------------------- MODULE OpenstackCloud ---------------------------
(***************************************************************************)
(* The servers, key pairs and key files of one unit, and the operations of *)
(* openstack_cloud/openstack_cloud.py on them.                             *)
(*                                                                         *)
(* launch, delete and expire run one at a time under the lock of the       *)
(* process; a listing runs under the lock too, and beside them when it is  *)
(* made for GET /runner/check.  The servers of one launch or delete are    *)
(* worked on in parallel.                                                  *)
(***************************************************************************)
EXTENDS Integers, FiniteSets

CONSTANTS
    Names,          \* instance names, unique by their random suffix
    Existing,       \* names of servers that an earlier release left
    MaxFaults       \* bound: faults of OpenStack and of the process

NoName == "noname"

ASSUME NamesAssumption ==
    /\ IsFiniteSet(Names) /\ NoName \notin Names
    /\ Existing \subseteq Names
    /\ MaxFaults \in Nat

(* A name has one server, and one more for each fault.  A server's id is   *)
(* its rank by creation time.                                              *)
Servers == 1..(Cardinality(Names) + MaxFaults)

VARIABLES
    (* OpenStack and the key directory *)
    status,         \* status of each server
    nameOf,         \* the name of each server
    limbo,          \* names with a create request that may be served late
    keypair,        \* names with a key pair in OpenStack
    keyfile,        \* names with a key file
    fresh,          \* names whose key file is younger than the minimum age
    faults,         \* faults left
    (* operations *)
    call,           \* the operation under the lock, or "none"
    stage,          \* what a launch or a delete does next with each name
    view,           \* the servers a listing has seen
    todo,           \* the duplicates among them it still has to delete
    exclude,        \* names whose keys an expiry spares
    doomed,         \* key pairs it still has to delete
    (* history, read by properties only *)
    launched,       \* names whose server was accepted and not asked to go
    result          \* how the launch of each name ended

cloud == <<status, nameOf, limbo>>
keys == <<keypair, keyfile, fresh>>
lists == <<view, todo>>
expiry == <<exclude, doomed>>
history == <<launched, result>>
vars == <<cloud, keys, faults, call, stage, lists, expiry, history>>

Listers == {"call", "check"}

OnCloud == {s \in Servers : status[s] \in {"up", "going"}}
Named(n) == {s \in OnCloud : nameOf[s] = n}

Fault == faults > 0 /\ faults' = faults - 1

Nothing == [l \in Listers |-> {}]

Init ==
    /\ \E rank \in [Existing -> Servers] :
          /\ \A n, m \in Existing : n # m => rank[n] # rank[m]
          /\ \A n \in Existing : rank[n] <= Cardinality(Existing)
          /\ nameOf = [s \in Servers |->
                IF \E n \in Existing : rank[n] = s
                  THEN CHOOSE n \in Existing : rank[n] = s ELSE NoName]
    /\ status = [s \in Servers |-> IF nameOf[s] = NoName THEN "none" ELSE "up"]
    /\ limbo = {}
    /\ keypair = Existing /\ keyfile = Existing /\ fresh = {}
    /\ faults = MaxFaults
    /\ call = "none"
    /\ stage = [n \in Names |-> IF n \in Existing THEN "idle" ELSE "new"]
    /\ view = Nothing /\ todo = Nothing
    /\ exclude = {} /\ doomed = {}
    /\ launched = Existing
    /\ result = [n \in Names |-> "none"]

-----------------------------------------------------------------------------
(* The metadata of a server is written by launch_instance and read back by *)
(* from_openstack_server as the keyword arguments of RunnerMetadata.       *)

LaunchMetadata == {"platform_name", "runner_id", "prefix"}
MetadataFields == {"platform_name", "runner_id", "url"}
Readable == LaunchMetadata \subseteq MetadataFields

(* OpenStack accepts k create requests of one name.                        *)
Accept(n, k) ==
    LET used == Cardinality({s \in Servers : status[s] # "none"})
        new  == used + 1 .. used + k
    IN  /\ status' = [s \in Servers |-> IF s \in new THEN "up" ELSE status[s]]
        /\ nameOf' = [s \in Servers |-> IF s \in new THEN n ELSE nameOf[s]]

Advance(n, s) == stage' = [stage EXCEPT ![n] = s]

InProgress == {n \in Names : stage[n] \notin {"new", "idle"}}

CallLaunch(S) ==
    /\ call = "none" /\ S # {}
    /\ \A n \in S : stage[n] = "new"
    /\ call' = "launch"
    /\ stage' = [n \in Names |-> IF n \in S THEN "keypair" ELSE stage[n]]
    /\ UNCHANGED <<cloud, keys, faults, lists, expiry, history>>

(* A launch fails before its server was asked for; its result is an error. *)
GiveUp(n) ==
    /\ Fault
    /\ Advance(n, "idle")
    /\ result' = [result EXCEPT ![n] = "OpenStackError"]

(* _setup_keypair: the answer of OpenStack may be lost.                    *)
CreateKeypair(n) ==
    /\ stage[n] = "keypair"
    /\ keyfile' = keyfile \ {n} /\ fresh' = fresh \ {n}
    /\ \/ /\ keypair' = keypair \cup {n}
          /\ Advance(n, "keyfile")
          /\ UNCHANGED <<faults, result>>
       \/ /\ keypair' \in {keypair, keypair \cup {n}}
          /\ GiveUp(n)
    /\ UNCHANGED <<cloud, call, lists, expiry, launched>>

WriteKeyfile(n) ==
    /\ stage[n] = "keyfile"
    /\ keyfile' = keyfile \cup {n} /\ fresh' = fresh \cup {n}
    /\ Advance(n, "server")
    /\ UNCHANGED <<cloud, keypair, faults, call, lists, expiry, history>>

(* create_server: accepted, perhaps twice.                                 *)
CreateServer(n) ==
    /\ stage[n] = "server"
    /\ \/ Accept(n, 1) /\ UNCHANGED faults
       \/ Accept(n, 2) /\ Fault
    /\ Advance(n, "metadata")
    /\ launched' = launched \cup {n}
    /\ UNCHANGED <<limbo, keys, call, lists, expiry, result>>

(* create_server fails: with a timeout the server and then its key pair    *)
(* are deleted, with an error of the SDK the key pair, with another error  *)
(* of the client nothing.  The server may be there, now or later.          *)
CreateFails(n) ==
    /\ stage[n] = "server"
    /\ Fault
    /\ \/ UNCHANGED cloud
       \/ Accept(n, 1) /\ UNCHANGED limbo
       \/ limbo' = limbo \cup {n} /\ UNCHANGED <<status, nameOf>>
    /\ \E next \in {"dropServer", "dropKeypair", "idle"} : Advance(n, next)
    /\ result' = [result EXCEPT ![n] = "OpenStackError"]
    /\ UNCHANGED <<keys, call, lists, expiry, launched>>

ReadMetadata(n) ==
    /\ stage[n] = "metadata"
    /\ Advance(n, "idle")
    /\ result' = [result EXCEPT ![n] =
                    IF Readable THEN "OpenstackInstance" ELSE "TypeError"]
    /\ UNCHANGED <<cloud, keys, faults, call, lists, expiry, launched>>

-----------------------------------------------------------------------------
(* delete_instances                                                        *)

CallDelete(S) ==
    /\ call = "none" /\ S # {}
    /\ \A n \in S : stage[n] = "idle"
    /\ call' = "delete"
    /\ stage' = [n \in Names |-> IF n \in S THEN "dropServer" ELSE stage[n]]
    /\ launched' = launched \ S
    /\ UNCHANGED <<cloud, keys, faults, lists, expiry, result>>

(* The server is deleted by name: an error if two have it, nothing if none.*)
DropServer(n) ==
    /\ stage[n] = "dropServer"
    /\ \/ /\ Cardinality(Named(n)) <= 1
          /\ status' = [s \in Servers |->
                          IF s \in Named(n) THEN "going" ELSE status[s]]
          /\ Advance(n, "dropKeypair")
          /\ UNCHANGED faults
       \/ /\ IF Cardinality(Named(n)) > 1 THEN UNCHANGED faults ELSE Fault
          /\ Advance(n, "idle")
          /\ UNCHANGED status
    /\ UNCHANGED <<nameOf, limbo, keys, call, lists, expiry, history>>

(* _delete_keypair: the file goes only after OpenStack deleted the pair.   *)
DropKeypair(n) ==
    /\ stage[n] = "dropKeypair"
    /\ \/ /\ keypair' = keypair \ {n}
          /\ Advance(n, IF n \in keypair THEN "dropKeyfile" ELSE "idle")
          /\ UNCHANGED faults
       \/ /\ Fault
          /\ keypair' \in {keypair, keypair \ {n}}
          /\ Advance(n, "idle")
    /\ UNCHANGED <<cloud, keyfile, fresh, call, lists, expiry, history>>

DropKeyfile(n) ==
    /\ stage[n] = "dropKeyfile"
    /\ keyfile' = keyfile \ {n} /\ fresh' = fresh \ {n}
    /\ Advance(n, "idle")
    /\ UNCHANGED <<cloud, keypair, faults, call, lists, expiry, history>>

CallReturns ==
    /\ call \in {"launch", "delete"} /\ InProgress = {}
    /\ call' = "none"
    /\ UNCHANGED <<cloud, keys, faults, stage, lists, expiry, history>>

-----------------------------------------------------------------------------
(* get_instances, by a call under the lock or by GET /runner/check.        *)

(* Mutant: duplicates are told from the kept server by their name.         *)
OutdatedByName(seen) ==
    {s \in seen : \E t \in seen : t # s /\ nameOf[t] = nameOf[s]}

(* Mutant: duplicates are only reported.                                   *)
OutdatedReported(seen) == seen \ seen

(* _get_and_ensure_unique_server keeps one server of each name.            *)
Outdated(seen) == {s \in seen : \E t \in seen : t < s /\ nameOf[t] = nameOf[s]}

StartList(l) ==
    /\ view[l] = {} /\ OnCloud # {}
    /\ IF l = "call" THEN call = "none" /\ call' = "list" ELSE UNCHANGED call
    /\ view' = [view EXCEPT ![l] = OnCloud]
    /\ todo' = [todo EXCEPT ![l] = Outdated(OnCloud)]
    /\ UNCHANGED <<cloud, keys, faults, stage, expiry, history>>

(* A duplicate is deleted by its id; an error is logged and forgotten.     *)
DeleteDuplicate(l, s) ==
    /\ s \in todo[l]
    /\ todo' = [todo EXCEPT ![l] = @ \ {s}]
    /\ \/ /\ status' = [status EXCEPT ![s] = IF @ = "up" THEN "going" ELSE @]
          /\ UNCHANGED faults
       \/ Fault /\ UNCHANGED status
    /\ UNCHANGED <<nameOf, limbo, keys, call, stage, view, expiry, history>>

(* It returns, or raises when it reads the metadata; nothing changes.      *)
ListReturns(l) ==
    /\ view[l] # {} /\ todo[l] = {}
    /\ view' = [view EXCEPT ![l] = {}]
    /\ IF l = "call" THEN call' = "none" ELSE UNCHANGED call
    /\ UNCHANGED <<cloud, keys, faults, stage, todo, expiry, history>>

-----------------------------------------------------------------------------
(* delete_expired_keys                                                     *)

(* Mutant: only fresh keys are spared.                                     *)
SparedFresh == fresh

(* Mutant: the servers are taken for their names.                          *)
SparedServers == OnCloud \cup fresh

(* The names of listed servers and of fresh key files.                     *)
Spared == {nameOf[s] : s \in OnCloud} \cup fresh

CallExpire ==
    /\ call = "none"
    /\ call' = "keyfiles"
    /\ exclude' = Spared
    /\ UNCHANGED <<cloud, keys, faults, stage, lists, doomed, history>>

UnlinkKeyfile(n) ==
    /\ call = "keyfiles" /\ n \in keyfile \ exclude
    /\ keyfile' = keyfile \ {n} /\ fresh' = fresh \ {n}
    /\ UNCHANGED <<cloud, keypair, faults, call, stage, lists, expiry, history>>

(* Mutant: key pairs are looked for by their key files.                    *)
ExpiredByKeyfile == (keypair \cap keyfile) \ exclude

Expired == keypair \ exclude

ListKeypairs ==
    /\ call = "keyfiles" /\ keyfile \subseteq exclude
    /\ call' = "keypairs"
    /\ doomed' = Expired
    /\ UNCHANGED <<cloud, keys, faults, stage, lists, exclude, history>>

(* A key pair that cannot be deleted is left for the next time.            *)
ExpireKeypair(n) ==
    /\ call = "keypairs" /\ n \in doomed
    /\ doomed' = doomed \ {n}
    /\ \/ /\ keypair' = keypair \ {n}
          /\ keyfile' = keyfile \ {n} /\ fresh' = fresh \ {n}
          /\ UNCHANGED faults
       \/ Fault /\ UNCHANGED keys
    /\ UNCHANGED <<cloud, call, stage, lists, exclude, history>>

(* It is done, or one of its two listings raised.                          *)
ExpireEnds ==
    /\ \/ call = "keypairs" /\ doomed = {} /\ UNCHANGED faults
       \/ call = "keyfiles" /\ Fault
    /\ call' = "none"
    /\ exclude' = {} /\ doomed' = {}
    /\ UNCHANGED <<cloud, keys, stage, lists, history>>

-----------------------------------------------------------------------------
(* The process dies and starts again; what it had asked for may still come.*)
Crash ==
    /\ call # "none"
    /\ Fault
    /\ \E K \in SUBSET {n \in Names : stage[n] = "keypair"} :
          keypair' = keypair \cup K
    /\ limbo' = limbo \cup {n \in Names : stage[n] = "server"}
    /\ stage' = [n \in Names |-> IF stage[n] = "new" THEN "new" ELSE "idle"]
    /\ call' = "none"
    /\ view' = Nothing /\ todo' = Nothing
    /\ exclude' = {} /\ doomed' = {}
    /\ UNCHANGED <<status, nameOf, keyfile, fresh, history>>

(* OpenStack and the clock.                                                *)
LateServer(n) ==
    /\ n \in limbo
    /\ limbo' = limbo \ {n}
    /\ Accept(n, 1) \/ UNCHANGED <<status, nameOf>>
    /\ UNCHANGED <<keys, faults, call, stage, lists, expiry, history>>

DeletionCompletes(s) ==
    /\ status[s] = "going"
    /\ status' = [status EXCEPT ![s] = "gone"]
    /\ UNCHANGED <<nameOf, limbo, keys, faults, call, stage, lists, expiry,
                   history>>

KeyAges(n) ==
    /\ n \in fresh
    /\ fresh' = fresh \ {n}
    /\ UNCHANGED <<cloud, keypair, keyfile, faults, call, stage, lists, expiry,
                   history>>

-----------------------------------------------------------------------------
Step(n) ==
    \/ CreateKeypair(n) \/ WriteKeyfile(n) \/ CreateServer(n) \/ CreateFails(n)
    \/ ReadMetadata(n) \/ DropServer(n) \/ DropKeypair(n) \/ DropKeyfile(n)

Next ==
    \/ \E S \in SUBSET Names : CallLaunch(S) \/ CallDelete(S)
    \/ \E n \in Names : Step(n) \/ UnlinkKeyfile(n) \/ ExpireKeypair(n)
    \/ \E n \in Names : LateServer(n) \/ KeyAges(n)
    \/ \E l \in Listers : StartList(l) \/ ListReturns(l)
    \/ \E l \in Listers, s \in Servers : DeleteDuplicate(l, s)
    \/ \E s \in Servers : DeletionCompletes(s)
    \/ CallReturns \/ CallExpire \/ ListKeypairs \/ ExpireEnds \/ Crash

(* The callers list and expire again and again; what was begun goes on;    *)
(* time passes.                                                            *)
Fairness ==
    /\ SF_vars(CallExpire) /\ SF_vars(StartList("call"))
    /\ WF_vars(CallReturns) /\ WF_vars(ListKeypairs) /\ WF_vars(ExpireEnds)
    /\ \A l \in Listers : WF_vars(ListReturns(l))
    /\ \A l \in Listers, s \in Servers : WF_vars(DeleteDuplicate(l, s))
    /\ \A n \in Names :
          /\ WF_vars(Step(n))
          /\ WF_vars(UnlinkKeyfile(n)) /\ WF_vars(ExpireKeypair(n))
          /\ WF_vars(LateServer(n)) /\ WF_vars(KeyAges(n))
    /\ \A s \in Servers : WF_vars(DeletionCompletes(s))

Spec == Init /\ [][Next]_vars
FairSpec == Spec /\ Fairness

-----------------------------------------------------------------------------
(* Type invariant of the cloud client, the servers and the keys.           *)
TypeOK ==
    /\ status \in [Servers -> {"none", "up", "going", "gone"}]
    /\ nameOf \in [Servers -> Names \cup {NoName}]
    /\ limbo \subseteq Names
    /\ keypair \subseteq Names
    /\ fresh \subseteq keyfile /\ keyfile \subseteq Names
    /\ faults \in Nat
    /\ call \in {"none", "launch", "delete", "list", "keyfiles", "keypairs"}
    /\ stage \in [Names -> {"new", "idle", "keypair", "keyfile", "server",
                      "metadata", "dropServer", "dropKeypair", "dropKeyfile"}]
    /\ view \in [Listers -> SUBSET Servers]
    /\ todo \in [Listers -> SUBSET Servers]
    /\ exclude \subseteq Names /\ doomed \subseteq Names
    /\ launched \subseteq Names
    /\ result \in [Names -> {"none", "OpenStackError", "OpenstackInstance",
                             "TypeError"}]

(* The metrics of a runner are pulled through SSH when its server goes: as *)
(* long as a server that was launched is up and nobody asked to delete it, *)
(* its key pair and its key file are there, whatever expires, fails or     *)
(* crashes in the meantime.                                                *)
KeyKept ==
    \A s \in OnCloud :
        nameOf[s] \in launched => nameOf[s] \in keypair \cap keyfile

(* Two listings may delete duplicates of one name at the same time, each   *)
(* from its own view.  Together they never delete the last server of a     *)
(* runner that nobody asked to delete.                                     *)
LastServerStays ==
    [][\A s \in Servers :
          /\ status[s] = "up" /\ status'[s] = "going"
          /\ nameOf[s] \in launched
          => \E t \in Servers : nameOf[t] = nameOf[s] /\ status'[t] = "up"]_vars

(* Duplicates do not stay.                                                 *)
DuplicatesGo ==
    \A n \in Names :
        LET twice == \E s, t \in Named(n) : s # t
        IN  twice ~> ~twice

(* A key that no server needs is reclaimed, on disk and in OpenStack,      *)
(* whatever went wrong when it was made or deleted.                        *)
KeysReclaimed ==
    \A n \in Names :
        LET orphan == /\ n \in keypair \cup keyfile
                      /\ stage[n] = "idle" /\ Named(n) = {}
        IN  orphan ~> ~orphan

-----------------------------------------------------------------------------
(* What the documentation says of this component and the code does not do. *)

(* launch_instance: "Returns: The OpenStack instance created", and raises  *)
(* OpenStackError only.                                                    *)
LaunchReturns ==
    \A n \in Names : result[n] \in {"none", "OpenstackInstance", "OpenStackError"}
=============================================================================
