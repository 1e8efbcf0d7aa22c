------------------------ MODULE GithubRunnerPlatform ------------------------
(***************************************************************************)
(* Several units that share one GitHub path and one OpenStack project:     *)
(* platform/github_provider.py and github_client.py.  GitHub lists the     *)
(* runners of everybody, page by page, while all of them come and go; a    *)
(* unit tells its own by their names.                                      *)
(*                                                                         *)
(* A unit has two sessions: one for the calls that exclude each other, by  *)
(* the lock of module PressureReconciler, and one for the check of the     *)
(* HTTP API, which takes no lock.                                          *)
(***************************************************************************)
EXTENDS InstanceID, FiniteSets, SequencesExt

CONSTANTS
    Units,          \* the units, by their Juju names
    Calls,          \* the calls that each unit makes
    Earlier,        \* the instances each unit already has
    Legacy,         \* those whose server carries no runner_id metadata
    AtStart,        \* the runners of the path, of the units and of others
    Organization,   \* whether the path is an organization, with groups
    PageSize,       \* runners that GitHub returns at once
    MaxFaults       \* bound: faults of GitHub, OpenStack, the processes

(* The calls that delete; the hard ones do so to runners with a job, too.  *)
HardCalls == {"flushBusy", "delete"}
DeletingCalls == HardCalls \cup {"cleanup", "flush", "softDelete"}
AllCalls == DeletingCalls \cup {"create", "check"}

ASSUME UnitsAssumption ==
    /\ Units \subseteq UnitNames
    /\ Calls \in [Units -> SUBSET AllCalls]

(* The instances of a unit have its name, perhaps an infix of an old       *)
(* release, and a suffix; nobody else uses the name of a unit.             *)
Begin(u) == u.app \o <<u.number>>
InstancesOf(u) ==
    UNION {{(Begin(u) \o infix) \o <<token>> : token \in Tokens} :
              infix \in Infixes}

ASSUME EarlierAssumption ==
    /\ Earlier \in [Units -> SUBSET Names]
    /\ \A u \in Units : Earlier[u] \subseteq InstancesOf(u)
    /\ Legacy \subseteq UNION {Earlier[u] : u \in Units}
    /\ AtStart \in Seq(Names)
    /\ \A i, j \in 1..Len(AtStart) : AtStart[i] = AtStart[j] => i = j
    /\ \A u \in Units : \A i \in 1..Len(AtStart) :
          NameHasPrefix(Begin(u), AtStart[i]) => AtStart[i] \in Earlier[u]

ASSUME PlatformAssumption ==
    /\ Organization \in BOOLEAN
    /\ PageSize \in Nat \ {0}
    /\ MaxFaults \in Nat

VARIABLES
    (* GitHub and OpenStack *)
    runners,        \* the names of the registered runners, in order
    online,         \* runners whose agent is connected
    busy,           \* runners that have a job
    group,          \* whether the runner group is on the first page
    servers,        \* names of the servers
    (* the units *)
    made,           \* history: the instances each unit made
    new,            \* the instance each unit creates
    (* the sessions *)
    call,           \* the call in progress, or "none"
    step,           \* how far it is
    listed,         \* InstanceIDs of the servers it listed
    page,           \* pages of runners it has read
    found,          \* what it read of the runners of its unit
    targets,        \* runners it chose to delete on GitHub
    wanted,         \* those still to delete
    deleted,        \* runners GitHub deleted
    raised,         \* whether a deletion raised
    shifted,        \* history: a runner on a page already read has left
    faults          \* faults left

github == <<runners, online, busy, group>>
locals == <<listed, page, found, targets, wanted, deleted, raised>>
vars == <<github, servers, made, new, call, step, locals, shifted,
          faults>>

Loop(u) == <<u, "loop">>
Check(u) == <<u, "check">>
Sessions == {Loop(u) : u \in Units}
               \cup {Check(u) : u \in {v \in Units : "check" \in Calls[v]}}

Registered == ToSet(runners)
Fault == faults > 0 /\ faults' = faults - 1

NoName == <<>>

(* The session s goes back to rest.                                        *)
Return(s) ==
    /\ call' = [call EXCEPT ![s] = "none"]
    /\ step' = [step EXCEPT ![s] = "idle"]
    /\ listed' = [listed EXCEPT ![s] = {}]
    /\ page' = [page EXCEPT ![s] = 0]
    /\ found' = [found EXCEPT ![s] = {}]
    /\ targets' = [targets EXCEPT ![s] = {}]
    /\ wanted' = [wanted EXCEPT ![s] = {}]
    /\ deleted' = [deleted EXCEPT ![s] = {}]
    /\ raised' = [raised EXCEPT ![s] = FALSE]
    /\ shifted' = [shifted EXCEPT ![s] = FALSE]

Init ==
    /\ runners = AtStart
    /\ online = {} /\ busy = {}
    /\ group \in (IF Organization THEN BOOLEAN ELSE {FALSE})
    /\ servers = UNION {Earlier[u] : u \in Units}
    /\ made = Earlier
    /\ new = [u \in Units |-> NoName]
    /\ call = [s \in Sessions |-> "none"]
    /\ step = [s \in Sessions |-> "idle"]
    /\ listed = [s \in Sessions |-> {}]
    /\ page = [s \in Sessions |-> 0]
    /\ found = [s \in Sessions |-> {}]
    /\ targets = [s \in Sessions |-> {}]
    /\ wanted = [s \in Sessions |-> {}]
    /\ deleted = [s \in Sessions |-> {}]
    /\ raised = [s \in Sessions |-> FALSE]
    /\ shifted = [s \in Sessions |-> FALSE]
    /\ faults = MaxFaults

-----------------------------------------------------------------------------
(* GitHub.                                                                 *)

(* The runner at position i leaves; those after it move up.                *)
Leave(i) ==
    /\ runners' = RemoveAt(runners, i)
    /\ online' = online \ {runners[i]}
    /\ busy' = busy \ {runners[i]}
    /\ shifted' = [s \in Sessions |->
                      \/ shifted[s]
                      \/ step[s] = "list" /\ i <= page[s] * PageSize]

NobodyLeaves == UNCHANGED <<runners, online, busy, shifted>>

(* delete_runner: a runner that is not there is deleted already, a busy    *)
(* one is refused (DeleteRunnerBusyError).                                 *)
Deletable(n) == n \notin busy

Delete(n) ==
    IF n \in Registered
      THEN \E i \in 1..Len(runners) : runners[i] = n /\ Leave(i)
      ELSE NobodyLeaves

-----------------------------------------------------------------------------
(* create_runners, for one runner; several are module RunnerManager's.     *)

GroupFound == Organization => group

(* A fresh InstanceID and its registration, for a JIT token; an error may  *)
(* hide a registration that was made.                                      *)
Register(u) ==
    /\ step[Loop(u)] = "idle" /\ "create" \in Calls[u]
    /\ \E token \in Tokens :
          LET n == Name(Build(Prefix(u), token))
          IN  /\ \A v \in Units : n \notin made[v]
              /\ made' = [made EXCEPT ![u] = @ \cup {n}]
              /\ \/ /\ GroupFound
                    /\ runners' = Append(runners, n)
                    /\ new' = [new EXCEPT ![u] = n]
                    /\ call' = [call EXCEPT ![Loop(u)] = "create"]
                    /\ step' = [step EXCEPT ![Loop(u)] = "launch"]
                    /\ UNCHANGED faults
                 \/ /\ GroupFound /\ Fault
                    /\ runners' = Append(runners, n)
                    /\ UNCHANGED <<new, call, step>>
                 \/ /\ GroupFound => Fault
                    /\ ~GroupFound => UNCHANGED faults
                    /\ UNCHANGED <<runners, new, call, step>>
    /\ UNCHANGED <<online, busy, group, servers, locals, shifted>>

(* The server; after an error one may come up all the same.                *)
Launch(u) ==
    /\ step[Loop(u)] = "launch"
    /\ \/ /\ servers' = servers \cup {new[u]}
          /\ call' = [call EXCEPT ![Loop(u)] = "none"]
          /\ step' = [step EXCEPT ![Loop(u)] = "idle"]
          /\ new' = [new EXCEPT ![u] = NoName]
          /\ UNCHANGED faults
       \/ /\ Fault
          /\ servers' \in {servers, servers \cup {new[u]}}
          /\ step' = [step EXCEPT ![Loop(u)] = "undo"]
          /\ UNCHANGED <<call, new>>
    /\ UNCHANGED <<github, made, locals, shifted>>

(* The registration of a failed creation is deleted, or stays.             *)
Undo(u) ==
    /\ step[Loop(u)] = "undo"
    /\ \/ /\ IF Deletable(new[u]) THEN Delete(new[u]) ELSE NobodyLeaves
          /\ UNCHANGED faults
       \/ Fault /\ NobodyLeaves
    /\ call' = [call EXCEPT ![Loop(u)] = "none"]
    /\ step' = [step EXCEPT ![Loop(u)] = "idle"]
    /\ new' = [new EXCEPT ![u] = NoName]
    /\ UNCHANGED <<group, servers, made, locals>>

-----------------------------------------------------------------------------
(* cleanup, flush_runners, the scale-downs and get_runner_info.            *)

Listings(s) ==
    Calls[s[1]] \cap (IF s[2] = "check" THEN {"check"} ELSE DeletingCalls)
PrefixOf(s) == Prefix(s[1])

(* _get_openstack_instances: the servers of this unit.                     *)
ListServers(s, c) ==
    /\ step[s] = "idle"
    /\ call' = [call EXCEPT ![s] = c]
    /\ step' = [step EXCEPT ![s] = "list"]
    /\ listed' = [listed EXCEPT ![s] =
                     {BuildFromName(PrefixOf(s), n) :
                         n \in {m \in servers : NameHasPrefix(PrefixOf(s), m)}}]
    /\ UNCHANGED <<github, servers, made, new, page, found, targets, wanted,
                   deleted, raised, shifted, faults>>

(* The runners that GitHub puts on the next page.                          *)
Page(s) ==
    LET last == (page[s] + 1) * PageSize
    IN  {runners[i] : i \in {j \in 1..Len(runners) :
                                page[s] * PageSize < j /\ j <= last}}

(* Mutant: one page is taken for all there is.                             *)
HasNextNever(s) == FALSE

HasNext(s) == Len(runners) > (page[s] + 1) * PageSize

(* list_runners: the pages are fetched one after the other, until one has  *)
(* no successor; only runners with the unit's prefix are kept.             *)
ListPage(s) ==
    /\ step[s] = "list"
    /\ found' = [found EXCEPT ![s] = @ \cup
                    {[id |-> BuildFromName(PrefixOf(s), n),
                      online |-> n \in online, busy |-> n \in busy] :
                         n \in {m \in Page(s) : NameHasPrefix(PrefixOf(s), m)}}]
    /\ page' = [page EXCEPT ![s] = @ + 1]
    /\ step' = [step EXCEPT ![s] =
                   IF HasNext(s) THEN "list" ELSE "choose"]
    /\ UNCHANGED <<github, servers, made, new, call, listed, targets, wanted,
                   deleted, raised, shifted, faults>>

(* get_runners_health: the listed servers, by what was read of their       *)
(* runners; one that was not read counts as gone from GitHub.              *)
Known(s) == {r.id : r \in found[s]}
Busy(s) == {r.id : r \in {q \in found[s] : q.busy}} \cap listed[s]
Idle(s) == {r.id : r \in {q \in found[s] : q.online /\ ~q.busy}} \cap listed[s]
Missing(s) == listed[s] \ Known(s)
Dangling(s) == Known(s) \ listed[s]

(* What a call picks among the listed servers besides those to clean up:   *)
(* _get_platform_runners_to_flush and _get_platform_runners_to_scale_down, *)
(* for any number to scale down by; busy runners come last.                *)
Picks(s) ==
    {picked \in SUBSET listed[s] :
        /\ call[s] = "cleanup" => picked = {}
        /\ call[s] = "flush" => picked = Idle(s)
        /\ call[s] = "flushBusy" => picked = listed[s]
        /\ call[s] = "softDelete" => picked \cap Busy(s) = {}
        /\ call[s] = "delete" =>
              picked \cap Busy(s) = {} \/ listed[s] \ Busy(s) \subseteq picked}

(* _get_platform_runners_to_cleanup; servers in ERROR are left to module   *)
(* RunnerManager, and any that is not connected may be old enough to have  *)
(* timed out.  A server without a runner_id names no runner to delete.     *)
(* What is not read again is reset.                                        *)
Choose(s) ==
    /\ step[s] = "choose" /\ call[s] # "check"
    /\ \E timedOut \in SUBSET (listed[s] \ (Missing(s) \cup Busy(s) \cup Idle(s))),
          picked \in Picks(s) :
          LET ofServers == {Name(id) : id \in Missing(s) \cup timedOut \cup picked}
              chosen == {Name(id) : id \in Dangling(s)} \cup (ofServers \ Legacy)
          IN  /\ targets' = [targets EXCEPT ![s] = chosen]
              /\ wanted' = [wanted EXCEPT ![s] = chosen]
    /\ step' = [step EXCEPT ![s] = "delete"]
    /\ page' = [page EXCEPT ![s] = 0]
    /\ found' = [found EXCEPT ![s] = {}]
    /\ shifted' = [shifted EXCEPT ![s] = FALSE]
    /\ UNCHANGED <<github, servers, made, new, call, listed, deleted, raised,
                   faults>>

(* Mutant: a runner that GitHub refuses to delete counts as deleted.       *)
ConfirmedAlways(n) == {n}

(* The refusals, DeleteRunnerBusyError, are left out of the answer.        *)
Confirmed(n) == IF Deletable(n) THEN {n} ELSE {}

(* One of the parallel deletions on GitHub: done, refused or failed.       *)
DeleteRunner(s, n) ==
    /\ step[s] = "delete" /\ n \in wanted[s]
    /\ wanted' = [wanted EXCEPT ![s] = @ \ {n}]
    /\ \/ /\ IF Deletable(n) THEN Delete(n) ELSE NobodyLeaves
          /\ deleted' = [deleted EXCEPT ![s] = @ \cup Confirmed(n)]
          /\ UNCHANGED <<raised, faults>>
       \/ /\ Fault /\ NobodyLeaves
          /\ raised' = [raised EXCEPT ![s] = TRUE]
          /\ UNCHANGED deleted
    /\ UNCHANGED <<group, servers, made, new, call, step, listed, page, found,
                   targets>>

(* _get_vms_to_cleanup: the listed servers without a runner_id, whatever   *)
(* GitHub knows of their runners, and those of runners that were deleted,  *)
(* for a hard call of all that it meant to delete.                         *)
Doomed(s) ==
    {Name(id) : id \in listed[s]}
        \cap (Legacy \cup IF call[s] \in HardCalls THEN targets[s] ELSE deleted[s])

DestroyServers(s) ==
    /\ step[s] = "delete" /\ wanted[s] = {} /\ ~raised[s]
    /\ servers' = servers \ Doomed(s)
    /\ Return(s)
    /\ UNCHANGED <<github, made, new, faults>>

(* get_runner_info: what the answer says of the runners of the unit.       *)
Answer(s) ==
    [online |-> Busy(s) \cup Idle(s),
     busy |-> Busy(s),
     offline |-> listed[s] \ (Busy(s) \cup Idle(s))]

AnswerCheck(s) ==
    /\ step[s] = "choose" /\ call[s] = "check"
    /\ Return(s)
    /\ UNCHANGED <<github, servers, made, new, faults>>

(* A listing that fails ends the call, a failed deletion does so once all  *)
(* deletions are through.                                                  *)
CallRaises(s) ==
    /\ \/ step[s] = "list" /\ Fault
       \/ step[s] = "delete" /\ wanted[s] = {} /\ raised[s] /\ UNCHANGED faults
    /\ Return(s)
    /\ UNCHANGED <<github, servers, made, new>>

(* The process of a unit dies, and starts again.                           *)
Crash(u) ==
    /\ call[Loop(u)] # "none" /\ Fault
    /\ LET mine == {s \in Sessions : s[1] = u}
           Reset(f, value) == [s \in Sessions |-> IF s \in mine THEN value ELSE f[s]]
       IN  /\ call' = Reset(call, "none") /\ step' = Reset(step, "idle")
           /\ listed' = Reset(listed, {}) /\ page' = Reset(page, 0)
           /\ found' = Reset(found, {}) /\ targets' = Reset(targets, {})
           /\ wanted' = Reset(wanted, {})
           /\ deleted' = Reset(deleted, {}) /\ raised' = Reset(raised, FALSE)
           /\ shifted' = Reset(shifted, FALSE)
    /\ new' = [new EXCEPT ![u] = NoName]
    /\ UNCHANGED <<github, servers, made>>

Unit(u) == Register(u) \/ Launch(u) \/ Undo(u) \/ Crash(u)

Session(s) ==
    \/ \E c \in Listings(s) : ListServers(s, c)
    \/ ListPage(s) \/ Choose(s) \/ DestroyServers(s) \/ AnswerCheck(s) \/ CallRaises(s)
    \/ \E n \in wanted[s] : DeleteRunner(s, n)

-----------------------------------------------------------------------------
(* The agents, and other users of the path.                                *)

Ours == <<servers, made, new, call, step, locals>>

Connect(n) ==
    /\ n \in (Registered \cap servers) \ online
    /\ online' = online \cup {n}
    /\ UNCHANGED <<runners, busy, group, Ours, shifted, faults>>

TakeJob(n) ==
    /\ n \in online \ busy
    /\ busy' = busy \cup {n}
    /\ UNCHANGED <<runners, online, group, Ours, shifted, faults>>

(* A runner leaves with its job done, or because somebody removes it.      *)
RunnerLeaves(i) ==
    /\ Leave(i)
    /\ IF runners[i] \in busy THEN UNCHANGED faults ELSE Fault
    /\ UNCHANGED <<group, Ours>>

Environment ==
    \/ \E n \in Registered : Connect(n) \/ TakeJob(n)
    \/ \E i \in 1..Len(runners) : RunnerLeaves(i)

Next ==
    \/ \E u \in Units : Unit(u)
    \/ \E s \in Sessions : Session(s)
    \/ Environment

Spec == Init /\ [][Next]_vars

-----------------------------------------------------------------------------
Steps == {"idle", "launch", "undo", "list", "choose", "delete"}

(* RunnerInstance, of which the OpenStack side is in listed.               *)
Readings == [id : InstanceIDs, online : BOOLEAN, busy : BOOLEAN]

(* Type invariant of GitHub, the servers and the sessions.                 *)
TypeOK ==
    /\ runners \in Seq(Names)
    /\ busy \subseteq Registered /\ online \subseteq Registered
    /\ group \in BOOLEAN
    /\ servers \subseteq Names
    /\ made \in [Units -> SUBSET Names]
    /\ new \in [Units -> Names]
    /\ call \in [Sessions -> AllCalls \cup {"none"}]
    /\ step \in [Sessions -> Steps]
    /\ listed \in [Sessions -> SUBSET InstanceIDs]
    /\ page \in [Sessions -> Nat]
    /\ found \in [Sessions -> SUBSET Readings]
    /\ targets \in [Sessions -> SUBSET Names]
    /\ wanted \in [Sessions -> SUBSET Names]
    /\ deleted \in [Sessions -> SUBSET Names]
    /\ raised \in [Sessions -> BOOLEAN]
    /\ shifted \in [Sessions -> BOOLEAN]
    /\ faults \in Nat

(* Whatever a unit lists, deletes on GitHub or destroys is of its own      *)
(* making, however alike the names of the units that share the path.       *)
ClaimsOwn ==
    \A s \in Sessions :
        {Name(id) : id \in listed[s] \cup Known(s)} \cup targets[s] \cup deleted[s]
            \subseteq made[s[1]]

(* A runner counts as gone from GitHub although it is there only if a      *)
(* runner on a page already read left in the meantime.                     *)
HealthIsTrue ==
    \A s \in Sessions :
        step[s] = "choose" /\ ~shifted[s] =>
            {Name(id) : id \in Missing(s)} \cap Registered = {}

(* Even then, no server goes whose runner GitHub still knows, with a job   *)
(* or without one, but for two sorts of servers.  One without a runner_id  *)
(* goes at every deleting call of its unit.  And a call that is meant for  *)
(* busy runners, too, takes the servers of those it chose, refused or not. *)
ServersOutliveRunners ==
    [][\A n \in (servers \ servers') \cap Registered :
          \/ n \in Legacy
          \/ \E s \in Sessions : /\ call[s] \in HardCalls /\ call'[s] = "none"
                                /\ n \in targets[s]]_vars
=============================================================================
