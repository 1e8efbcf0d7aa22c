------------------------- MODULE RunnerMetricsProofs -------------------------
(***************************************************************************)
(* RunnerMetrics implements EventLog, and forgets nothing that it pulled,  *)
(* for any number of runners, any clocks and any answers of GitHub.        *)
(***************************************************************************)
EXTENDS RunnerMetrics, FiniteSetTheorems, TLAPS

(* The server of r was asked to go since its last installed event.         *)
Fresh(r) == issued[r][1] < requests[r]

(* What each phase of a call still works on.                               *)
PhaseInv ==
    /\ todo # {} => call \in {"delete", "issue"}
    /\ todo \subseteq Targets
    /\ cur # NoRunner => call = "issue" /\ cur \notin todo
    /\ cur = NoRunner => due = 0 /\ done = 0

(* Whose next event the log may take.                                      *)
FreshInv ==
    /\ call = "delete" => \A r \in Targets \ doomed : Fresh(r)
    /\ call = "issue" => \A r \in todo : Fresh(r)
    /\ cur # NoRunner => issued[cur][done + 1] < Log!Before(cur, done + 1)

(* What is owed is excused, or due: to the runners to come, and to the     *)
(* present one.                                                            *)
OwedInv ==
    \A r \in Runners, k \in Kinds : <<r, k>> \in owed =>
        \/ r \in excused
        \/ r \in todo /\ Present(got[r], k)
        \/ r = cur /\ done < k /\ k <= due

(* The inductive invariant: the types, what each phase of a call has left  *)
(* to do, the order of the log, and where each event that is owed waits.   *)
IInv == TypeOK /\ PhaseInv /\ Log!Ordered /\ FreshInv /\ OwedInv

-----------------------------------------------------------------------------
LEMMA KindsAreThree == Kinds = 1..3
BY DEF Kinds, Log!Kinds

LEMMA FirstKinds == \A n \in Nat : IsFiniteSet(1..n) /\ Cardinality(1..n) = n
<1> TAKE n \in Nat
<1> QED BY FS_Interval

(* What the proofs use of the constants.                                   *)
LEMMA Stamped ==
    /\ NoRunner \notin Runners
    /\ \A s \in Stamps : s \in Nat /\ s # Nothing
    /\ Created \in Nat /\ Now \in Nat
    /\ \A w \in Waits : w \in Int /\ w # Nothing
    /\ Bad # Nothing /\ MaxFaults \in Nat
<1>1. \A i \in Int : i # Nothing
  BY MetricsAssumption
<1>2. \A s \in Stamps : s \in Nat
  BY MetricsAssumption
<1>3. \A w \in Waits : w \in Int
  BY MetricsAssumption
<1>4. QED BY <1>1, <1>2, <1>3, MetricsAssumption

(* The number of events due is one of 0..3.                                *)
LEMMA DueType == ASSUME NEW m, NEW q PROVE Due(m, q) \in 0..3
<1> DEFINE S == {k \in 1..3 : \A j \in 1..k : Accepted(m, q, j)}
<1>1. IsFiniteSet(1..3) /\ Cardinality(1..3) = 3
  <2>1. 3 \in Nat
    OBVIOUS
  <2>2. QED BY <2>1, FirstKinds
<1>2. S \subseteq 1..3
  OBVIOUS
<1>3. Cardinality(S) \in Nat /\ Cardinality(S) <= 3
  BY <1>1, <1>2, FS_Subset, FS_CardinalityType
<1>4. Due(m, q) = Cardinality(S)
  BY KindsAreThree DEF Due
<1>5. QED BY <1>3, <1>4

(* Every event that metrics hold is due, unless the installation ends      *)
(* before it began: the cuts at zero make all the others acceptable.       *)
LEMMA PresentIsDue ==
    ASSUME NEW m \in [Files -> Stamps \cup {Nothing}],
           NEW q \in Waits \cup {Nothing},
           NEW k \in Kinds, Present(m, k), InstallTime(m) >= 0
    PROVE  k <= Due(m, q)
<1> USE Stamped
<1> DEFINE S == {i \in 1..3 : \A j \in 1..i : Accepted(m, q, j)}
<1>1. k \in 1..3
  BY KindsAreThree
<1>2. ASSUME NEW j \in 1..k PROVE Accepted(m, q, j)
  <2>1. j \in 1..3 /\ j <= k
    BY <1>1, <1>2
  <2>2. Present(m, j)
    BY <1>1, <2>1 DEF Present
  <2>3. CASE j = 1
    BY <1>1, <2>2, <2>3 DEF Accepted
  <2>4. CASE j = 2
    <3>1. m[PreJob] \in Stamps
      BY <2>2, <2>4 DEF Present, PreJob, Files
    <3>2. IdleTime(m) >= 0
      BY <3>1 DEF IdleTime, Larger, Installed, Files
    <3>3. QueueTime(q) >= 0
      BY DEF QueueTime, Larger
    <3>4. QED BY <2>2, <2>4, <3>2, <3>3 DEF Accepted
  <2>5. CASE j = 3
    <3>1. m[PreJob] \in Stamps /\ m[PostJob] \in Stamps
      BY <2>2, <2>5 DEF Present, PreJob, PostJob, Files
    <3>2. JobTime(m) >= 0
      BY <3>1 DEF JobTime, Larger
    <3>3. QED BY <2>2, <2>5, <3>2 DEF Accepted
  <2>6. QED BY <2>1, <2>3, <2>4, <2>5
<1>3. 1..k \subseteq S
  BY <1>1, <1>2
<1>4. IsFiniteSet(S)
  <2>1. IsFiniteSet(1..3)
    <3>1. 3 \in Nat
      OBVIOUS
    <3>2. QED BY <3>1, FirstKinds
  <2>2. QED BY <2>1, FS_Subset
<1>5. Cardinality(1..k) = k
  <2>1. k \in Nat
    BY <1>1
  <2>2. QED BY <2>1, FirstKinds
<1>6. Cardinality(1..k) <= Cardinality(S)
  BY <1>3, <1>4, FS_Subset
<1>7. Due(m, q) = Cardinality(S)
  BY KindsAreThree DEF Due
<1>8. QED BY <1>1, <1>5, <1>6, <1>7

USE Stamped

-----------------------------------------------------------------------------
(* The inductive invariant of the log and of the call in progress.         *)
THEOREM Invariance == Spec => []IInv
<1>1. Init => IInv
  BY KindsAreThree DEF Init, IInv, TypeOK, PhaseInv, FreshInv, OwedInv, Fresh,
     Log!Init, Log!Ordered, Log!Before, Log!Kinds, Kinds, NoFiles, Files,
     Targets, Pulled
<1>2. IInv /\ [Next]_vars => IInv'
  <2> SUFFICES ASSUME IInv, [Next]_vars PROVE IInv'
    OBVIOUS
  <2> USE KindsAreThree DEF IInv, TypeOK, PhaseInv, FreshInv, OwedInv, Fresh,
          Log!Ordered, Log!Before, Log!Kinds, Kinds, Fault, history
  <2>1. ASSUME NEW r \in Runners, WriteFile(r) PROVE IInv'
    BY <2>1 DEF WriteFile, locals, log, Targets, Contents
  <2>2. ASSUME NEW r \in Runners, Vanish(r) PROVE IInv'
    BY <2>2 DEF Vanish, locals, log, Targets, NoFiles
  <2>3. ASSUME NEW r \in Runners, PullFile(r) PROVE IInv'
    <3>1. got' \in [Runners -> [Files -> Stamps \cup {Nothing}]]
      BY <2>3 DEF PullFile, Parsed, Contents
    <3>2. at' \in [Runners -> 0..Pulled]
      BY <2>3 DEF PullFile, Files, Pulled
    <3>3. todo = {} /\ cur = NoRunner
      BY <2>3 DEF PullFile
    <3>4. QED BY <2>3, <3>1, <3>2, <3>3 DEF PullFile, log
  <2>4. ASSUME NEW r \in Runners, PullBreaks(r) PROVE IInv'
    BY <2>4 DEF PullBreaks, log, Pulled, Files
  <2>5. ASSUME NEW r \in Runners, DeleteServer(r) PROVE IInv'
    <3>1. requests[r] \in Nat /\ requests' \in [Runners -> Nat]
      BY <2>5 DEF DeleteServer
    <3>2. \A x \in Runners : requests[x] <= requests'[x]
      BY <2>5 DEF DeleteServer
    <3>3. issued[r][1] <= requests[r]
      OBVIOUS
    <3>4. Fresh(r)' /\ \A x \in Runners : Fresh(x) => Fresh(x)'
      BY <2>5, <3>1, <3>2, <3>3 DEF DeleteServer
    <3>5. Log!Ordered'
      BY <2>5, <3>1, <3>2 DEF DeleteServer
    <3>6. server' \in [Runners -> {"up", "going", "gone"}] /\ faults' \in Nat
      <4>1. CASE Fault /\ UNCHANGED server
        <5>1. faults' \in Nat
          BY <4>1
        <5>2. QED BY <4>1, <5>1
      <4>2. CASE /\ UNCHANGED faults
                 /\ server' = [server EXCEPT
                        ![r] = IF @ = "up" THEN "going" ELSE @]
        BY <4>2
      <4>3. QED BY <2>5, <4>1, <4>2 DEF DeleteServer
    <3>7. TypeOK' /\ PhaseInv' /\ OwedInv'
      BY <2>5, <3>1, <3>6 DEF DeleteServer, Targets
    <3>8. FreshInv'
      BY <2>5, <3>4 DEF DeleteServer, Targets
    <3>9. QED BY <3>5, <3>7, <3>8
  <2>6. ASSUME NEW r \in Runners, IssueRunner(r) PROVE IInv'
    <3>1. PICK q \in Waits \cup {Nothing} : due' = Due(got[r], q)
      BY <2>6 DEF IssueRunner, Durations
    <3>2. due' \in 0..3
      BY <3>1, DueType
    <3>3. InstallTime(got[r]) \in Int
      BY DEF InstallTime, Installed, Files
    <3>4. r \in excused' \/ \A k \in Kinds : Present(got[r], k) => k <= due'
      <4>1. CASE InstallTime(got[r]) < 0
        BY <2>6, <4>1 DEF IssueRunner
      <4>2. CASE InstallTime(got[r]) >= 0
        BY <3>1, <4>2, PresentIsDue
      <4>3. QED BY <3>3, <4>1, <4>2
    <3>5. /\ call = "issue" /\ cur = NoRunner /\ r \in todo
          /\ faults' \in Nat
      BY <2>6 DEF IssueRunner, LookUpJob
    <3>6. QED BY <2>6, <3>2, <3>4, <3>5 DEF IssueRunner, Targets, log
  <2>7. ASSUME NEW S \in SUBSET Runners, StartCall(S) PROVE IInv'
    BY <2>7 DEF StartCall, log, Pulled
  <2>8. CASE PullRaises
    BY <2>8 DEF PullRaises, NoCall, log, NoFiles, Pulled, Targets
  <2>9. CASE StartDelete
    BY <2>9 DEF StartDelete, log, Targets
  <2>10. CASE StartIssue
    BY <2>10 DEF StartIssue, locals, log, Targets
  <2>11. CASE IssueRaises
    BY <2>11 DEF IssueRaises, LookUpJob, NoCall, log, NoFiles, Pulled, Targets
  <2>12. CASE IssueEvent
    BY <2>12 DEF IssueEvent, Targets
  <2>13. CASE IssueFails
    BY <2>13 DEF IssueFails, log, Targets
  <2>14. CASE CallReturns
    BY <2>14 DEF CallReturns, NoCall, log, NoFiles, Pulled, Targets
  <2>15. CASE Crash
    BY <2>15 DEF Crash, NoCall, log, NoFiles, Pulled, Targets
  <2>16. CASE UNCHANGED vars
    BY <2>16 DEF vars, locals, log, Targets
  <2>17. QED
    BY <2>1, <2>2, <2>3, <2>4, <2>5, <2>6, <2>7, <2>8, <2>9, <2>10, <2>11,
       <2>12, <2>13, <2>14, <2>15, <2>16 DEF Next
<1>3. QED BY <1>1, <1>2, PTL DEF Spec

(* Type invariant of the files, of the calls and of the log.               *)
THEOREM TypeCorrect == Spec => []TypeOK
BY Invariance, PTL DEF IInv

(* Nothing that was pulled is forgotten, whatever the timestamps and the   *)
(* answers, but for the runners that met one of the named losses.          *)
THEOREM NothingIsForgotten == Spec => []NothingForgotten
<1>1. IInv => NothingForgotten
  <2> SUFFICES ASSUME IInv, call = "none", NEW e \in owed
               PROVE  e[1] \in excused
    BY DEF NothingForgotten
  <2>1. PICK r \in Runners, k \in Kinds : e = <<r, k>>
    BY DEF IInv, TypeOK
  <2>2. todo = {} /\ cur = NoRunner
    BY DEF IInv, PhaseInv
  <2>3. QED BY <2>1, <2>2 DEF IInv, OwedInv
<1>2. QED BY <1>1, Invariance, PTL

(* The log is an event log: no step of the program adds an event that its  *)
(* readers could not expect.                                               *)
THEOREM ImplementsEventLog == Spec => LogKeepsPromise
<1>1. Init => Log!Init
  BY DEF Init
<1>2. IInv /\ [Next]_vars => [Log!Next]_(Log!logged)
  <2> SUFFICES ASSUME IInv, [Next]_vars PROVE [Log!Next]_(Log!logged)
    OBVIOUS
  <2> USE DEF log, Log!logged
  <2>1. ASSUME NEW r \in Runners, DeleteServer(r)
        PROVE  Log!Next
    BY <2>1 DEF DeleteServer, Log!Next, Log!Request
  <2>2. CASE IssueEvent
    <3>1. cur \in Runners /\ done + 1 \in Log!Kinds
      BY <2>2 DEF IssueEvent, IInv, TypeOK, Log!Kinds
    <3>2. Log!Issue(cur, done + 1)
      BY <2>2 DEF IssueEvent, Log!Issue, IInv, FreshInv
    <3>3. QED BY <3>1, <3>2 DEF Log!Next
  <2>3. CASE UNCHANGED log
    BY <2>3
  <2>4. ASSUME NEW r \in Runners,
               \/ WriteFile(r) \/ Vanish(r) \/ PullFile(r) \/ PullBreaks(r)
               \/ IssueRunner(r)
        PROVE  UNCHANGED log
    BY <2>4 DEF WriteFile, Vanish, PullFile, PullBreaks, IssueRunner
  <2>5. ASSUME NEW S \in SUBSET Runners, StartCall(S)
        PROVE  UNCHANGED log
    BY <2>5 DEF StartCall
  <2>6. ASSUME \/ PullRaises \/ StartDelete \/ StartIssue \/ IssueRaises
               \/ IssueFails \/ CallReturns \/ Crash \/ UNCHANGED vars
        PROVE  UNCHANGED log
    BY <2>6 DEF PullRaises, StartDelete, StartIssue, IssueRaises, IssueFails,
       CallReturns, Crash, vars
  <2>7. QED BY <2>1, <2>2, <2>3, <2>4, <2>5, <2>6 DEF Next
<1>3. QED BY <1>1, <1>2, Invariance, PTL DEF Spec, LogKeepsPromise, Log!Spec
=============================================================================
