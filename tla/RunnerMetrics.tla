---------------------------- MODULE RunnerMetrics ----------------------------
(***************************************************************************)
(* The metrics of runners: files that a runner leaves on its server, which *)
(* are pulled before the server is deleted and issued as events after it   *)
(* (metrics/runner.py, metrics/events.py, metrics/github.py, and the calls *)
(* of manager/runner_manager.py that use them).                            *)
(*                                                                         *)
(* Runners go on writing while a call reads; a server whose deletion       *)
(* failed, or is not finished, is listed again by the next call.           *)
(***************************************************************************)
EXTENDS Integers, FiniteSets

CONSTANTS
    Runners,        \* the runners; each names its server too
    Stamps,         \* timestamps a file may hold
    Created,        \* when the servers were created
    Now,            \* when events are issued
    Waits,          \* queue durations GitHub's answer may amount to
    Bad,            \* content that is too large or cannot be parsed
    Nothing,        \* None: no file, no job information
    NoRunner,       \* None: no runner
    MaxRequests,    \* bound: deletion requests per server
    MaxFaults       \* bound: failures

ASSUME MetricsAssumption ==
    /\ IsFiniteSet(Runners) /\ NoRunner \notin Runners
    /\ Stamps \subseteq Nat \ {0}
    /\ Created \in Nat \ {0} /\ Now \in Nat
    /\ Waits \subseteq Int
    /\ Bad \notin Int /\ Nothing \notin Int /\ Bad # Nothing
    /\ MaxRequests \in Nat /\ MaxFaults \in Nat

VARIABLES
    server,         \* "up", "going" (deletion accepted) or "gone"
    file,           \* the metric files on each server
    call,           \* what the call in progress does, or "none"
    at,             \* next file to pull of each runner; 0 for no target
    got,            \* parsed files of each runner
    doomed,         \* servers still to delete
    todo,           \* runners whose pulled metrics are still to issue
    cur,            \* the runner whose events are being issued
    due,            \* number of events to issue for it
    done,           \* number of events issued for it
    requests, issued,   \* see EventLog
    faults,         \* failures left
    (* history, read by properties only *)
    owed,           \* events the pulled metrics hold that are not in the log
    excused         \* runners of the call that lost events for a known reason

locals == <<at, got, doomed, todo, cur, due, done>>
log == <<requests, issued>>
history == <<owed, excused>>
vars == <<server, file, call, locals, log, faults, history>>

Log == INSTANCE EventLog WITH
    Runners <- Runners, requests <- requests, issued <- issued
Kinds == Log!Kinds

(* The three files, in the order in which they are written and pulled.     *)
Files == 1..3
Installed == 1
PreJob == 2
PostJob == 3

Contents == Stamps \cup {Bad}
NoFiles == [f \in Files |-> Nothing]

Larger(a, b) == IF a >= b THEN a ELSE b

Fault == faults > 0 /\ faults' = faults - 1

(* The call is over.                                                       *)
NoCall ==
    /\ call' = "none"
    /\ at' = [r \in Runners |-> 0]
    /\ got' = [r \in Runners |-> NoFiles]
    /\ doomed' = {} /\ todo' = {}
    /\ cur' = NoRunner /\ due' = 0 /\ done' = 0

Init ==
    /\ server = [r \in Runners |-> "up"]
    /\ file = [r \in Runners |-> NoFiles]
    /\ call = "none"
    /\ at = [r \in Runners |-> 0]
    /\ got = [r \in Runners |-> NoFiles]
    /\ doomed = {} /\ todo = {}
    /\ cur = NoRunner /\ due = 0 /\ done = 0
    /\ Log!Init
    /\ faults = MaxFaults
    /\ owed = {} /\ excused = {}

-----------------------------------------------------------------------------
(* The server writes its files one after the other, not always as they     *)
(* should be, and may vanish.                                              *)

WriteFile(r) ==
    /\ server[r] = "up"
    /\ \E f \in Files, c \in Contents :
          /\ file[r][f] = Nothing
          /\ \A g \in Files : g < f => file[r][g] # Nothing
          /\ file' = [file EXCEPT ![r][f] = c]
          /\ IF c = Bad THEN Fault ELSE UNCHANGED faults
    /\ UNCHANGED <<server, call, locals, log, history>>

Vanish(r) ==
    /\ \/ server[r] = "going" /\ UNCHANGED faults
       \/ server[r] = "up" /\ Fault
    /\ server' = [server EXCEPT ![r] = "gone"]
    /\ file' = [file EXCEPT ![r] = NoFiles]
    /\ UNCHANGED <<call, locals, log, history>>

-----------------------------------------------------------------------------
(* pull_runner_metrics: every server of the call, side by side.            *)

(* A call lists servers and decides to delete some of them, or none; those *)
(* whose deletion was accepted before are still listed.                    *)
StartCall(S) ==
    /\ call = "none"
    /\ \A r \in S : server[r] # "gone" /\ requests[r] < MaxRequests
    /\ call' = "pull"
    /\ at' = [r \in Runners |-> IF r \in S THEN 1 ELSE 0]
    /\ owed' = {} /\ excused' = {}
    /\ UNCHANGED <<server, file, got, doomed, todo, cur, due, done, log, faults>>

(* Mutant: what cannot be parsed is kept as it is.                         *)
ParsedRaw(c) == c

(* _ssh_pull_file refuses a file that is missing or too large, and the     *)
(* parser one that is not what it should be: either way it counts as none. *)
Parsed(c) == IF c = Bad THEN Nothing ELSE c

PullFile(r) ==
    /\ call = "pull" /\ at[r] \in Files
    /\ server[r] # "gone"
    /\ got' = [got EXCEPT ![r][at[r]] = Parsed(file[r][at[r]])]
    /\ at' = [at EXCEPT ![r] = @ + 1]
    /\ UNCHANGED <<server, file, call, doomed, todo, cur, due, done, log, faults,
                   history>>

(* A connection that fails, at once or half-way, ends the pull of this     *)
(* server with the files it has; so does a server that is not there.       *)
Pulled == 4

PullBreaks(r) ==
    /\ call = "pull" /\ at[r] \in Files
    /\ \/ server[r] # "up" /\ UNCHANGED faults
       \/ server[r] = "up" /\ Fault
    /\ at' = [at EXCEPT ![r] = Pulled]
    /\ UNCHANGED <<server, file, call, got, doomed, todo, cur, due, done, log,
                   history>>

(* An error of OpenStack in one of the pulls, or of the connection that    *)
(* nothing expects, ends the call.                                         *)
PullRaises ==
    /\ call = "pull" /\ Fault
    /\ NoCall
    /\ UNCHANGED <<server, file, log, history>>

-----------------------------------------------------------------------------
(* The metrics that hold anything are kept, and the servers are deleted;   *)
(* errors are logged.                                                      *)

Targets == {r \in Runners : at[r] = Pulled}

HasMetrics(m) == \E f \in Files : m[f] # Nothing

(* Which events the metrics of a runner allow.                             *)
Present(m, k) ==
    /\ k >= 2 => m[PreJob] # Nothing
    /\ k = 3 => m[PostJob] # Nothing

StartDelete ==
    /\ call = "pull" /\ \A r \in Runners : at[r] \notin Files
    /\ call' = "delete"
    /\ doomed' = Targets
    /\ todo' = {r \in Targets : HasMetrics(got[r])}
    /\ owed' = {e \in todo' \X Kinds : Present(got[e[1]], e[2])}
    /\ UNCHANGED <<server, file, at, got, cur, due, done, log, faults, excused>>

DeleteServer(r) ==
    /\ call = "delete" /\ r \in doomed
    /\ doomed' = doomed \ {r}
    /\ requests' = [requests EXCEPT ![r] = @ + 1]
    /\ \/ /\ server' = [server EXCEPT ![r] = IF @ = "up" THEN "going" ELSE @]
          /\ UNCHANGED faults
       \/ Fault /\ UNCHANGED server
    /\ UNCHANGED <<file, call, at, got, todo, cur, due, done, issued, history>>

-----------------------------------------------------------------------------
(* _issue_runner_metrics: the runners of the call one after the other.     *)

(* A server without an installed file counts as installed now.             *)
InstallTime(m) ==
    (IF m[Installed] = Nothing THEN Now ELSE m[Installed]) - Created

(* The time from installation to job is cut at zero, since the job may be  *)
(* picked up before the file is there.                                     *)
IdleTime(m) ==
    Larger(m[PreJob] - (IF m[Installed] = Nothing THEN 0 ELSE m[Installed]), 0)

(* Mutant: GitHub may say that a job started before it was created.        *)
QueueTimeSigned(q) == IF q = Nothing THEN 0 ELSE q

QueueTime(q) == IF q = Nothing THEN 0 ELSE Larger(q, 0)

(* A job may end before its pre-job script does.                           *)
JobTime(m) == Larger(m[PostJob] - m[PreJob], 0)

(* The fields of an event are non-negative, or there is no event.          *)
Accepted(m, q, k) ==
    /\ Present(m, k)
    /\ k = 1 => InstallTime(m) >= 0
    /\ k = 2 => IdleTime(m) >= 0 /\ QueueTime(q) >= 0
    /\ k = 3 => JobTime(m) >= 0

(* issue_events goes through the kinds and stops at the first one that is  *)
(* missing or not accepted.                                                *)
Due(m, q) == Cardinality({k \in Kinds : \A j \in 1..k : Accepted(m, q, j)})

(* Mutant: the events are issued while the servers are being deleted.      *)
StartIssueAtOnce ==
    /\ call = "delete"
    /\ call' = "issue"
    /\ doomed' = {}
    /\ UNCHANGED <<server, file, at, got, todo, cur, due, done, log, faults,
                   history>>

StartIssue ==
    /\ call = "delete" /\ doomed = {}
    /\ call' = "issue"
    /\ UNCHANGED <<server, file, locals, log, faults, history>>

(* How GitHub may answer when it is asked for the job of a runner.         *)
Answers == {"job", "noJob", "rateLimit", "failed", "denied", "unreachable"}

(* get_job_info_by_runner_name, and which of its errors github_metrics.job *)
(* takes for a lack of information: TokenError and what is no              *)
(* GithubException go through.                                             *)
LookupRaises(answer) == answer \in {"denied", "unreachable"}

(* GitHub is asked only for runners with pre-job metrics.                  *)
LookUpJob(r, answer) ==
    /\ call = "issue" /\ cur = NoRunner /\ r \in todo
    /\ answer # "noJob" => got[r][PreJob] # Nothing
    /\ IF answer \in {"job", "noJob"} THEN UNCHANGED faults ELSE Fault

(* _to_job_info reads when the job was created and started, from which its *)
(* queue duration follows; without a job there is none.                    *)
Durations(answer) == IF answer = "job" THEN Waits ELSE {Nothing}

(* The due events are created with the queue duration, if there is one.    *)
(* None are when the server was installed before it was created: that      *)
(* duration is not cut at zero, and its event is the first one.            *)
IssueRunner(r) ==
    /\ \E answer \in Answers :
          /\ LookUpJob(r, answer) /\ ~LookupRaises(answer)
          /\ \E q \in Durations(answer) : due' = Due(got[r], q)
    /\ cur' = IF due' = 0 THEN NoRunner ELSE r
    /\ todo' = todo \ {r}
    /\ excused' = IF InstallTime(got[r]) < 0 THEN excused \cup {r} ELSE excused
    /\ UNCHANGED <<server, file, call, at, got, doomed, done, log, owed>>

(* The metrics of this runner and of those after it are lost.              *)
IssueRaises ==
    /\ \E r \in todo, answer \in Answers :
          LookUpJob(r, answer) /\ LookupRaises(answer)
    /\ NoCall
    /\ excused' = excused \cup todo
    /\ UNCHANGED <<server, file, log, owed>>

(* One line is appended to the event log.                                  *)
IssueEvent ==
    /\ cur # NoRunner
    /\ issued' = [issued EXCEPT ![cur][done + 1] = @ + 1]
    /\ owed' = owed \ {<<cur, done + 1>>}
    /\ IF done + 1 = due
         THEN cur' = NoRunner /\ due' = 0 /\ done' = 0
         ELSE done' = done + 1 /\ UNCHANGED <<cur, due>>
    /\ UNCHANGED <<server, file, call, at, got, doomed, todo, requests, faults,
                   excused>>

(* Mutant: after an event that could not be written the next one is tried. *)
IssueFailsOnce ==
    /\ cur # NoRunner /\ Fault
    /\ excused' = excused \cup {cur}
    /\ IF done + 1 = due
         THEN cur' = NoRunner /\ due' = 0 /\ done' = 0
         ELSE done' = done + 1 /\ UNCHANGED <<cur, due>>
    /\ UNCHANGED <<server, file, call, at, got, doomed, todo, log, owed>>

(* The log cannot be written: the runner gets no further events.           *)
IssueFails ==
    /\ cur # NoRunner /\ Fault
    /\ cur' = NoRunner /\ due' = 0 /\ done' = 0
    /\ excused' = excused \cup {cur}
    /\ UNCHANGED <<server, file, call, at, got, doomed, todo, log, owed>>

CallReturns ==
    /\ call = "issue" /\ todo = {} /\ cur = NoRunner
    /\ NoCall
    /\ UNCHANGED <<server, file, log, faults, history>>

(* The process dies: what was pulled and not issued is lost.               *)
Crash ==
    /\ call # "none" /\ Fault
    /\ NoCall
    /\ excused' = excused \cup todo \cup ({cur} \ {NoRunner})
    /\ UNCHANGED <<server, file, log, owed>>

-----------------------------------------------------------------------------
Next ==
    \/ \E r \in Runners :
          \/ WriteFile(r) \/ Vanish(r)
          \/ PullFile(r) \/ PullBreaks(r) \/ DeleteServer(r) \/ IssueRunner(r)
    \/ \E S \in SUBSET Runners : StartCall(S)
    \/ PullRaises \/ StartDelete \/ StartIssue
    \/ IssueRaises \/ IssueEvent \/ IssueFails \/ CallReturns
    \/ Crash

Spec == Init /\ [][Next]_vars

-----------------------------------------------------------------------------
(* Type invariant: files, the call in progress, the log and what is owed.  *)
TypeOK ==
    /\ server \in [Runners -> {"up", "going", "gone"}]
    /\ file \in [Runners -> [Files -> Contents \cup {Nothing}]]
    /\ call \in {"none", "pull", "delete", "issue"}
    /\ at \in [Runners -> 0..Pulled]
    /\ got \in [Runners -> [Files -> Stamps \cup {Nothing}]]
    /\ doomed \subseteq Runners /\ todo \subseteq Runners
    /\ cur \in Runners \cup {NoRunner}
    /\ due \in 0..3 /\ done \in 0..3
    /\ cur # NoRunner => done < due
    /\ requests \in [Runners -> Nat]
    /\ issued \in [Runners -> [Kinds -> Nat]]
    /\ faults \in Nat
    /\ owed \subseteq Runners \X Kinds
    /\ excused \subseteq Runners

(* When a call is over, every event that the metrics it pulled hold is in  *)
(* the log, unless its runner is one of those that lose events:            *)
(*   - by clocks that disagree its server was installed before it was      *)
(*     created: it gets no event at all;                                   *)
(*   - the log could not be written while its events were issued;          *)
(*   - the lookup of a job, its own or one of a runner before it, failed   *)
(*     with an error that is not taken for a lack of information, or the   *)
(*     process died, before its events were issued.                        *)
(* No other clock, answer of GitHub, repeated listing or failed deletion   *)
(* loses an event.  A file written after the pull was never read and is    *)
(* not spoken of here.                                                     *)
NothingForgotten == call = "none" => \A e \in owed : e[1] \in excused

(* The log keeps its promise: events follow a deletion request of their    *)
(* server, in order and each at most once per request, whatever fails,     *)
(* whoever is listed again.                                                *)
LogKeepsPromise == Log!Spec
=============================================================================
