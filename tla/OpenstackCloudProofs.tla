------------------------ MODULE OpenstackCloudProofs ------------------------
(***************************************************************************)
(* Proofs about OpenstackCloud: its types, that a server keeps its keys,   *)
(* and that listings do not delete the last server of a name, for any set  *)
(* of names and any number of faults.                                      *)
(***************************************************************************)
EXTENDS OpenstackCloud, FiniteSetTheorems, TLAPS

Expiring == call \in {"keyfiles", "keypairs"}

(* A server in any state has a name.                                       *)
ServersNamed == \A s \in Servers : status[s] # "none" => nameOf[s] \in Names

(* A name is launched once; while its server is wanted nothing deletes it. *)
LaunchedOnce ==
    \A n \in Names :
        /\ n \in launched => stage[n] \in {"idle", "metadata"} /\ n \notin limbo
        /\ n \in limbo => stage[n] \notin {"new", "keypair", "keyfile", "server"}

(* The keys are made before the server is asked for.                       *)
KeysFirst ==
    \A n \in Names :
        /\ stage[n] \in {"keyfile", "server"} => n \in keypair
        /\ stage[n] = "server" => n \in keyfile

(* Names are worked on in a launch or a delete only.                       *)
WorkInCalls ==
    call \notin {"launch", "delete"} =>
        \A n \in Names : stage[n] \in {"new", "idle"}

(* What an expiry spares stays enough: while it runs only servers come up  *)
(* that nobody waits for.                                                  *)
ExpirySpares ==
    /\ Expiring =>
        \A s \in OnCloud : nameOf[s] \in launched => nameOf[s] \in exclude
    /\ doomed \cap exclude = {}
    /\ call # "keypairs" => doomed = {}

(* A listing under the lock is a call of its own.                          *)
ListsUnderLock == view["call"] # {} => call = "list"

(* What keeps the keys of a server: inductive by itself.                   *)
KeysInv ==
    /\ TypeOK /\ ServersNamed /\ LaunchedOnce /\ KeysFirst /\ WorkInCalls
    /\ ExpirySpares /\ ListsUnderLock /\ KeyKept

(* Servers get their ranks as they come.                                   *)
Used == {s \in Servers : status[s] # "none"}
RanksInOrder == Used = 1..Cardinality(Used)

(* A name has no server before it asks for one.                            *)
Early == {"new", "keypair", "keyfile", "server"}
NoServerYet ==
    \A n \in Names : stage[n] \in Early => \A s \in Used : nameOf[s] # n

(* There is a rank for each server that is still to come.                  *)
Pending == {n \in Names : stage[n] \in Early} \cup limbo
RanksLeft ==
    Cardinality(Used) + Cardinality(Pending) + faults
        <= Cardinality(Names) + MaxFaults

(* The first server of a launched name is up.                              *)
FirstIsUp ==
    \A n \in launched :
        \E f \in Used :
            /\ nameOf[f] = n /\ status[f] = "up"
            /\ \A s \in Used : nameOf[s] = n => f <= s

(* Every listing, whenever it looked, deletes later servers of a name only.*)
LaterOnly ==
    \A l \in Listers : \A s \in todo[l] :
        s \in Used /\ \E t \in Used : t < s /\ nameOf[t] = nameOf[s]

ServersInv ==
    RanksInOrder /\ NoServerYet /\ RanksLeft /\ FirstIsUp /\ LaterOnly

(* The inductive invariant: the keys, and the servers.                     *)
IInv == KeysInv /\ ServersInv

-----------------------------------------------------------------------------
LEMMA InitInvariant == Init => KeysInv
<1> SUFFICES ASSUME Init PROVE KeysInv
    OBVIOUS
<1> USE NamesAssumption DEF Init
<1>1. nameOf \in [Servers -> Names \cup {NoName}]
  <2>1. PICK rank \in [Existing -> Servers] :
          nameOf = [s \in Servers |->
                IF \E n \in Existing : rank[n] = s
                  THEN CHOOSE n \in Existing : rank[n] = s ELSE NoName]
    OBVIOUS
  <2>2. ASSUME NEW s \in Servers, \E n \in Existing : rank[n] = s
        PROVE  (CHOOSE n \in Existing : rank[n] = s) \in Names
    BY <2>2
  <2> QED BY <2>1, <2>2
<1>2. TypeOK
    BY <1>1 DEF TypeOK, Listers, Nothing
<1>3. ServersNamed
    BY <1>1 DEF ServersNamed
<1>4. LaunchedOnce /\ KeysFirst /\ WorkInCalls
    BY DEF LaunchedOnce, KeysFirst, WorkInCalls
<1>5. ExpirySpares /\ ListsUnderLock /\ KeyKept
    BY DEF ExpirySpares, Expiring, ListsUnderLock, Nothing, Listers, KeyKept
<1> QED BY <1>2, <1>3, <1>4, <1>5 DEF KeysInv

-----------------------------------------------------------------------------
(* What OpenStack accepts is named, and takes no other server its name.    *)
LEMMA AcceptNames ==
    ASSUME TypeOK, ServersNamed, NEW n \in Names, NEW k, Accept(n, k)
    PROVE  /\ status' \in [Servers -> {"none", "up", "going", "gone"}]
           /\ nameOf' \in [Servers -> Names \cup {NoName}]
           /\ ServersNamed'
           /\ \A s \in OnCloud' :
                 nameOf'[s] = n \/ (s \in OnCloud /\ nameOf'[s] = nameOf[s])
<1> DEFINE taken == Cardinality({s \in Servers : status[s] # "none"})
           new == taken + 1 .. taken + k
<1>1. /\ status' = [s \in Servers |-> IF s \in new THEN "up" ELSE status[s]]
      /\ nameOf' = [s \in Servers |-> IF s \in new THEN n ELSE nameOf[s]]
    BY DEF Accept
<1> HIDE DEF new
<1>2. /\ status' \in [Servers -> {"none", "up", "going", "gone"}]
      /\ nameOf' \in [Servers -> Names \cup {NoName}]
    BY <1>1 DEF TypeOK
<1>3. \A s \in Servers :
        \/ status'[s] = "up" /\ nameOf'[s] = n
        \/ status'[s] = status[s] /\ nameOf'[s] = nameOf[s]
    BY <1>1
<1>4. ServersNamed'
    BY <1>3 DEF ServersNamed
<1>5. \A s \in OnCloud' :
        nameOf'[s] = n \/ (s \in OnCloud /\ nameOf'[s] = nameOf[s])
    BY <1>3 DEF OnCloud
<1> QED BY <1>2, <1>4, <1>5

(* Every step keeps the types.                                             *)
LEMMA TypeStep == KeysInv /\ [Next]_vars => TypeOK' /\ ServersNamed'
<1> SUFFICES ASSUME KeysInv, [Next]_vars PROVE TypeOK' /\ ServersNamed'
    OBVIOUS
<1> USE NamesAssumption DEF KeysInv
<1>1. ASSUME NEW S \in SUBSET Names, CallLaunch(S) \/ CallDelete(S)
      PROVE  TypeOK' /\ ServersNamed'
    BY <1>1 DEF CallLaunch, CallDelete, TypeOK, ServersNamed, cloud, keys,
                lists, expiry, history
<1>2. ASSUME NEW n \in Names, CreateServer(n) \/ CreateFails(n)
      PROVE  TypeOK' /\ ServersNamed'
  <2>1. /\ status' \in [Servers -> {"none", "up", "going", "gone"}]
        /\ nameOf' \in [Servers -> Names \cup {NoName}]
        /\ ServersNamed'
    BY <1>2, AcceptNames
    DEF CreateServer, CreateFails, TypeOK, ServersNamed, cloud
  <2> QED BY <1>2, <2>1 DEF CreateServer, CreateFails, Advance, Fault, TypeOK,
                            cloud, keys, lists, expiry
<1>3. ASSUME NEW n \in Names,
             CreateKeypair(n) \/ WriteKeyfile(n) \/ ReadMetadata(n)
      PROVE  TypeOK' /\ ServersNamed'
    BY <1>3 DEF CreateKeypair, WriteKeyfile, ReadMetadata, GiveUp, Fault,
                Advance, TypeOK, ServersNamed, cloud, keys, lists, expiry,
                history
<1>4. ASSUME NEW n \in Names,
             DropServer(n) \/ DropKeypair(n) \/ DropKeyfile(n)
      PROVE  TypeOK' /\ ServersNamed'
    BY <1>4 DEF DropServer, DropKeypair, DropKeyfile, Named, OnCloud, Fault,
                Advance, TypeOK, ServersNamed, cloud, keys, lists, expiry,
                history
<1>5. ASSUME NEW l \in Listers, StartList(l) \/ ListReturns(l)
      PROVE  TypeOK' /\ ServersNamed'
    BY <1>5 DEF StartList, ListReturns, Outdated, OnCloud, Listers, TypeOK,
                ServersNamed, cloud, keys, expiry, history
<1>6. ASSUME NEW l \in Listers, NEW s \in Servers, DeleteDuplicate(l, s)
      PROVE  TypeOK' /\ ServersNamed'
    BY <1>6 DEF DeleteDuplicate, Fault, TypeOK, ServersNamed, keys, expiry,
                history
<1>7. CASE CallReturns
    BY <1>7 DEF CallReturns, TypeOK, ServersNamed, cloud, keys, lists, expiry,
                history
<1>8. CASE CallExpire
    BY <1>8 DEF CallExpire, Spared, OnCloud, TypeOK, ServersNamed, cloud, keys,
                lists, history
<1>9. ASSUME NEW n \in Names, UnlinkKeyfile(n) \/ ExpireKeypair(n)
      PROVE  TypeOK' /\ ServersNamed'
    BY <1>9 DEF UnlinkKeyfile, ExpireKeypair, Fault, TypeOK, ServersNamed,
                cloud, keys, lists, expiry, history
<1>10. CASE ListKeypairs \/ ExpireEnds
    BY <1>10 DEF ListKeypairs, ExpireEnds, Expired, Fault, TypeOK, ServersNamed,
                 cloud, keys, lists, history
<1>11. CASE Crash
    BY <1>11 DEF Crash, Fault, Nothing, Listers, TypeOK, ServersNamed, history
<1>12. ASSUME NEW n \in Names, LateServer(n) PROVE TypeOK' /\ ServersNamed'
  <2>1. /\ status' \in [Servers -> {"none", "up", "going", "gone"}]
        /\ nameOf' \in [Servers -> Names \cup {NoName}]
        /\ ServersNamed'
    BY <1>12, AcceptNames DEF LateServer, TypeOK, ServersNamed
  <2> QED BY <1>12, <2>1 DEF LateServer, TypeOK, keys, lists, expiry, history
<1>13. ASSUME NEW s \in Servers, DeletionCompletes(s)
       PROVE  TypeOK' /\ ServersNamed'
    BY <1>13 DEF DeletionCompletes, TypeOK, ServersNamed, keys, lists, expiry,
                 history
<1>14. ASSUME NEW n \in Names, KeyAges(n) PROVE TypeOK' /\ ServersNamed'
    BY <1>14 DEF KeyAges, TypeOK, ServersNamed, cloud, lists, expiry, history
<1>15. CASE UNCHANGED vars
    BY <1>15 DEF vars, TypeOK, ServersNamed, cloud, keys, lists, expiry, history
<1> QED
    BY <1>1, <1>2, <1>3, <1>4, <1>5, <1>6, <1>7, <1>8, <1>9, <1>10, <1>11,
       <1>12, <1>13, <1>14, <1>15
    DEF Next, Step

-----------------------------------------------------------------------------
(* Only a listing is in progress while the listing under the lock is.      *)
LEMMA ListStep == KeysInv /\ [Next]_vars => ListsUnderLock'
<1> SUFFICES ASSUME KeysInv, [Next]_vars PROVE ListsUnderLock'
    OBVIOUS
<1> USE DEF KeysInv, ListsUnderLock
<1>1. ASSUME NEW n \in Names,
             Step(n) \/ UnlinkKeyfile(n) \/ ExpireKeypair(n)
      PROVE  ListsUnderLock'
    BY <1>1 DEF Step, CreateKeypair, WriteKeyfile, CreateServer, CreateFails,
                ReadMetadata, DropServer, DropKeypair, DropKeyfile,
                UnlinkKeyfile, ExpireKeypair, lists
<1>2. ASSUME NEW l \in Listers,
             \/ StartList(l) \/ ListReturns(l)
             \/ \E s \in Servers : DeleteDuplicate(l, s)
      PROVE  ListsUnderLock'
    BY <1>2 DEF StartList, ListReturns, DeleteDuplicate, TypeOK, Listers
<1>3. ASSUME NEW S \in SUBSET Names, CallLaunch(S) \/ CallDelete(S)
      PROVE  ListsUnderLock'
    BY <1>3 DEF CallLaunch, CallDelete, lists
<1>4. CASE CallReturns \/ CallExpire \/ ListKeypairs \/ ExpireEnds
    BY <1>4 DEF CallReturns, CallExpire, ListKeypairs, ExpireEnds, lists
<1>5. CASE Crash
    BY <1>5 DEF Crash, Nothing, Listers
<1>6. CASE \/ \E n \in Names : LateServer(n) \/ KeyAges(n)
           \/ \E s \in Servers : DeletionCompletes(s)
    BY <1>6 DEF LateServer, KeyAges, DeletionCompletes, lists
<1>7. CASE UNCHANGED vars
    BY <1>7 DEF vars, lists
<1> QED BY <1>1, <1>2, <1>3, <1>4, <1>5, <1>6, <1>7 DEF Next

(* What the rest of the invariant speaks of, the servers aside.            *)
books == <<keypair, keyfile, limbo, launched, stage, call, exclude, doomed>>

(* A step that only lets servers go, or the names of none, changes nothing.*)
LEMMA FewerServers ==
    ASSUME KeysInv, TypeOK', ServersNamed', ListsUnderLock', UNCHANGED books,
           \A s \in OnCloud' : s \in OnCloud /\ nameOf'[s] = nameOf[s]
    PROVE  KeysInv'
<1> QED BY DEF KeysInv, LaunchedOnce, KeysFirst, WorkInCalls, ExpirySpares,
               Expiring, KeyKept, books

(* A server that nobody waits for needs no key.                            *)
LEMMA LateServerIsNobodys ==
    ASSUME KeysInv, TypeOK', ServersNamed', ListsUnderLock',
           NEW n \in Names, LateServer(n)
    PROVE  KeysInv'
<1>1. \A s \in OnCloud' :
        nameOf'[s] = n \/ (s \in OnCloud /\ nameOf'[s] = nameOf[s])
    BY AcceptNames DEF LateServer, KeysInv, OnCloud
<1>2. n \notin launched /\ limbo' = limbo \ {n} /\ UNCHANGED <<keys, call,
        stage, expiry, history>>
    BY DEF LateServer, KeysInv, LaunchedOnce
<1> QED BY <1>1, <1>2
        DEF KeysInv, LaunchedOnce, KeysFirst, WorkInCalls, ExpirySpares, Expiring,
            KeyKept, keys, expiry, history

(* The server that was asked for, or may come late, has its keys.          *)
LEMMA ServerHasKeys ==
    ASSUME KeysInv, TypeOK', ServersNamed', ListsUnderLock', NEW n \in Names,
           CreateServer(n) \/ CreateFails(n)
    PROVE  KeysInv'
<1> USE DEF KeysInv
<1>1. \A s \in OnCloud' :
        nameOf'[s] = n \/ (s \in OnCloud /\ nameOf'[s] = nameOf[s])
    BY AcceptNames DEF CreateServer, CreateFails, OnCloud, cloud
<1>2. /\ stage[n] = "server" /\ UNCHANGED <<keys, call, expiry>>
      /\ n \in keypair /\ n \in keyfile /\ n \notin launched
      /\ n \notin limbo /\ call \in {"launch", "delete"}
    BY DEF CreateServer, CreateFails, KeysFirst, LaunchedOnce, WorkInCalls
<1>3. /\ \A m \in Names \ {n} : stage'[m] = stage[m]
      /\ \/ /\ stage'[n] = "metadata" /\ launched' = launched \cup {n}
            /\ limbo' = limbo
         \/ /\ stage'[n] \in {"dropServer", "dropKeypair", "idle"}
            /\ launched' = launched /\ limbo' \subseteq limbo \cup {n}
    BY DEF CreateServer, CreateFails, Advance, TypeOK, history, cloud
<1>4. LaunchedOnce' /\ KeysFirst' /\ WorkInCalls'
    BY <1>2, <1>3 DEF LaunchedOnce, KeysFirst, WorkInCalls, keys
<1>5. ExpirySpares'
    BY <1>2 DEF ExpirySpares, Expiring, expiry
<1>6. KeyKept'
    BY <1>1, <1>2, <1>3 DEF KeyKept, keys
<1> QED BY <1>4, <1>5, <1>6

LEMMA StepInvariant == KeysInv /\ [Next]_vars => KeysInv'
<1> SUFFICES ASSUME KeysInv, [Next]_vars PROVE KeysInv'
    OBVIOUS
<1>0. TypeOK' /\ ServersNamed' /\ ListsUnderLock'
    BY TypeStep, ListStep
<1> USE DEF KeysInv
<1>1. ASSUME NEW S \in SUBSET Names, CallLaunch(S) PROVE KeysInv'
  <2>1. LaunchedOnce' /\ KeysFirst' /\ WorkInCalls'
    BY <1>1 DEF CallLaunch, TypeOK, LaunchedOnce, KeysFirst, WorkInCalls, cloud,
                keys, history
  <2>2. ExpirySpares' /\ KeyKept'
    BY <1>1 DEF CallLaunch, ExpirySpares, Expiring, KeyKept, OnCloud, cloud,
                keys, expiry, history
  <2> QED BY <1>0, <2>1, <2>2
<1>2. ASSUME NEW S \in SUBSET Names, CallDelete(S) PROVE KeysInv'
  <2>1. LaunchedOnce' /\ KeysFirst' /\ WorkInCalls'
    BY <1>2 DEF CallDelete, TypeOK, LaunchedOnce, KeysFirst, WorkInCalls, cloud,
                keys
  <2>2. ExpirySpares' /\ KeyKept'
    BY <1>2 DEF CallDelete, ExpirySpares, Expiring, KeyKept, OnCloud, cloud,
                keys, expiry
  <2> QED BY <1>0, <2>1, <2>2
<1>3. ASSUME NEW n \in Names,
             CreateKeypair(n) \/ WriteKeyfile(n) \/ ReadMetadata(n)
      PROVE  KeysInv'
  <2> USE <1>3 DEF CreateKeypair, WriteKeyfile, ReadMetadata, GiveUp, Advance,
                   cloud, keys, expiry
  <2>1. n \in launched => UNCHANGED keys
    BY DEF LaunchedOnce
  <2>2. LaunchedOnce' /\ KeysFirst' /\ WorkInCalls'
    BY DEF TypeOK, LaunchedOnce, KeysFirst, WorkInCalls, history
  <2>3. ExpirySpares' /\ KeyKept'
    BY <2>1 DEF WorkInCalls, ExpirySpares, Expiring, KeyKept, OnCloud, history
  <2> QED BY <1>0, <2>2, <2>3
<1>4. ASSUME NEW n \in Names, CreateServer(n) \/ CreateFails(n) PROVE KeysInv'
    BY <1>0, <1>4, ServerHasKeys
<1>5. ASSUME NEW n \in Names,
             DropServer(n) \/ DropKeypair(n) \/ DropKeyfile(n)
      PROVE  KeysInv'
  <2> USE <1>5 DEF DropServer, DropKeypair, DropKeyfile, Advance, keys, expiry,
                   history
  <2>1. n \notin launched
    BY DEF LaunchedOnce
  <2>2. /\ \A s \in OnCloud' : s \in OnCloud /\ nameOf'[s] = nameOf[s]
        /\ limbo' = limbo
    BY DEF Named, OnCloud, TypeOK, cloud
  <2>3. LaunchedOnce' /\ KeysFirst' /\ WorkInCalls'
    BY <2>1, <2>2 DEF TypeOK, LaunchedOnce, KeysFirst, WorkInCalls
  <2>4. ExpirySpares' /\ KeyKept'
    BY <2>1, <2>2 DEF ExpirySpares, Expiring, KeyKept
  <2> QED BY <1>0, <2>3, <2>4
<1>6. ASSUME NEW l \in Listers, StartList(l) \/ ListReturns(l) PROVE KeysInv'
  <2>1. /\ UNCHANGED <<cloud, keys, stage, expiry, history>>
        /\ call' = call \/ {call, call'} \subseteq {"none", "list"}
    BY <1>6 DEF StartList, ListReturns, ListsUnderLock
  <2> QED BY <1>0, <2>1
          DEF LaunchedOnce, KeysFirst, WorkInCalls, ExpirySpares, Expiring,
              KeyKept, OnCloud, cloud, keys, expiry, history
<1>7. ASSUME NEW l \in Listers, NEW s \in Servers, DeleteDuplicate(l, s)
      PROVE  KeysInv'
    BY <1>0, <1>7, FewerServers
    DEF DeleteDuplicate, OnCloud, TypeOK, keys, expiry, history, books
<1>8. CASE CallReturns
  <2>1. \A n \in Names : stage[n] \in {"new", "idle"}
    BY <1>8 DEF CallReturns, InProgress
  <2> QED BY <1>0, <1>8, <2>1
          DEF CallReturns, LaunchedOnce, KeysFirst, WorkInCalls, ExpirySpares,
              Expiring, KeyKept, OnCloud, cloud, keys, expiry, history
<1>9. CASE CallExpire
    BY <1>0, <1>9
    DEF CallExpire, Spared, LaunchedOnce, KeysFirst, WorkInCalls, ExpirySpares,
        Expiring, KeyKept, OnCloud, cloud, keys, history
<1>10. ASSUME NEW n \in Names, UnlinkKeyfile(n) \/ ExpireKeypair(n) PROVE KeysInv'
  <2> USE <1>10 DEF UnlinkKeyfile, ExpireKeypair, cloud, expiry, history
  <2>1. Expiring /\ n \notin exclude' /\ UNCHANGED <<cloud, stage, launched>>
        /\ keypair \ {n} \subseteq keypair' /\ keyfile \ {n} \subseteq keyfile'
        /\ call' = call /\ exclude' = exclude /\ doomed' \subseteq doomed
    BY DEF Expiring, ExpirySpares, keys
  <2>2. LaunchedOnce' /\ KeysFirst' /\ WorkInCalls' /\ ExpirySpares'
    BY <2>1 DEF LaunchedOnce, KeysFirst, WorkInCalls, ExpirySpares, Expiring,
                OnCloud
  <2>3. KeyKept'
    BY <2>1 DEF KeyKept, ExpirySpares, OnCloud
  <2> QED BY <1>0, <2>2, <2>3
<1>11. CASE ListKeypairs \/ ExpireEnds
    BY <1>0, <1>11
    DEF ListKeypairs, ExpireEnds, Expired, LaunchedOnce, KeysFirst, WorkInCalls,
        ExpirySpares, Expiring, KeyKept, OnCloud, cloud, keys, history
<1>12. CASE Crash
  <2> USE <1>12 DEF Crash, history
  <2>1. \A n \in Names :
          /\ n \in limbo' => n \in limbo \/ stage[n] = "server"
          /\ stage'[n] = IF stage[n] = "new" THEN "new" ELSE "idle"
    OBVIOUS
  <2>2. LaunchedOnce' /\ KeysFirst' /\ WorkInCalls'
    BY <2>1 DEF LaunchedOnce, KeysFirst, WorkInCalls
  <2>3. ExpirySpares' /\ KeyKept'
    BY DEF ExpirySpares, Expiring, KeyKept, OnCloud
  <2> QED BY <1>0, <2>2, <2>3
<1>13. ASSUME NEW n \in Names, LateServer(n) PROVE KeysInv'
    BY <1>0, <1>13, LateServerIsNobodys
<1>14. ASSUME NEW s \in Servers, DeletionCompletes(s) PROVE KeysInv'
    BY <1>0, <1>14, FewerServers
    DEF DeletionCompletes, OnCloud, TypeOK, keys, expiry, history, books
<1>15. CASE UNCHANGED vars \/ \E n \in Names : KeyAges(n)
    BY <1>0, <1>15, FewerServers
    DEF vars, KeyAges, OnCloud, cloud, keys, lists, expiry, history, books
<1> QED
    BY <1>1, <1>2, <1>3, <1>4, <1>5, <1>6, <1>7, <1>8, <1>9, <1>10, <1>11,
       <1>12, <1>13, <1>14, <1>15
    DEF Next, Step

-----------------------------------------------------------------------------
(* The servers by their ranks.                                             *)

(* There are finitely many servers and names, so they can be counted.      *)
LEMMA Countable ==
    ASSUME TypeOK
    PROVE  /\ IsFiniteSet(Used) /\ Cardinality(Used) \in Nat
           /\ IsFiniteSet(Pending) /\ Cardinality(Pending) \in Nat
           /\ Cardinality(Names) \in Nat
<1>1. Cardinality(Names) \in Nat
    BY NamesAssumption, FS_CardinalityType
<1>2. IsFiniteSet(Servers)
    BY <1>1, NamesAssumption, FS_Interval DEF Servers
<1>3. IsFiniteSet(Used) /\ IsFiniteSet(Pending)
    BY <1>2, NamesAssumption, FS_Subset DEF Used, Pending, TypeOK
<1> QED BY <1>1, <1>3, FS_CardinalityType

(* At the start the servers of an earlier release have the first ranks, one*)
(* each.                                                                   *)
LEMMA InitServers == Init => ServersInv
<1> SUFFICES ASSUME Init PROVE ServersInv
    OBVIOUS
<1> DEFINE k == Cardinality(Existing)
<1>1. IsFiniteSet(Existing) /\ IsFiniteSet(Names) /\ k \in Nat /\ MaxFaults \in Nat
      /\ k <= Cardinality(Names) /\ Cardinality(Names) \in Nat
    BY NamesAssumption, FS_Subset, FS_CardinalityType
<1>2. PICK rank \in [Existing -> Servers] :
        /\ \A n, m \in Existing : n # m => rank[n] # rank[m]
        /\ \A n \in Existing : rank[n] <= k
        /\ nameOf = [s \in Servers |->
              IF \E n \in Existing : rank[n] = s
                THEN CHOOSE n \in Existing : rank[n] = s ELSE NoName]
    BY DEF Init
<1>3. \A n \in Existing : rank[n] \in Servers /\ nameOf[rank[n]] = n
    BY <1>2
<1>4. \A s \in Servers :
        \/ \E n \in Existing : s = rank[n]
        \/ nameOf[s] = NoName
    BY <1>2
<1>5. \A s \in Servers : status[s] = IF nameOf[s] = NoName THEN "none" ELSE "up"
    BY DEF Init
<1>6. Used = {rank[n] : n \in Existing}
  <2>1. \A n \in Existing : nameOf[rank[n]] # NoName
    BY <1>3, NamesAssumption
  <2> QED BY <1>3, <1>4, <1>5, <2>1 DEF Used
<1>7. Used = 1..k
  <2>1. rank \in Injection(Existing, 1..k)
    BY <1>1, <1>2 DEF Injection, IsInjective, Servers
  <2>2. IsFiniteSet(1..k) /\ Cardinality(1..k) = k
    BY <1>1, FS_Interval
  <2>3. rank \in Surjection(Existing, 1..k)
    BY <2>1, <2>2, FS_Injection
  <2> QED BY <1>6, <2>1, <2>3 DEF Surjection, Injection
<1>8. Cardinality(Used) = k
    BY <1>1, <1>7, FS_Interval
<1>9. Pending = Names \ Existing
    BY NamesAssumption DEF Init, Pending, Early
<1>10. Cardinality(Pending) = Cardinality(Names) - k
  <2>1. Names \cap Existing = Existing
    BY NamesAssumption
  <2> QED BY <1>1, <1>9, <2>1, FS_Difference
<1>11. RanksInOrder /\ RanksLeft
    BY <1>1, <1>7, <1>8, <1>10 DEF RanksInOrder, RanksLeft, Init
<1>12. NoServerYet
    BY <1>3, <1>6, NamesAssumption DEF NoServerYet, Init, Early
<1>13. FirstIsUp
  <2> SUFFICES ASSUME NEW n \in Existing
               PROVE  \E f \in Used :
                        /\ nameOf[f] = n /\ status[f] = "up"
                        /\ \A s \in Used : nameOf[s] = n => f <= s
    BY DEF FirstIsUp, Init
  <2>1. rank[n] \in Used /\ nameOf[rank[n]] = n /\ status[rank[n]] = "up"
    BY <1>3, <1>5, <1>6, NamesAssumption
  <2>2. \A s \in Used : nameOf[s] = n => s = rank[n]
    BY <1>3, <1>6
  <2>3. rank[n] \in Int
    BY <1>1, <1>3 DEF Servers
  <2> QED BY <2>1, <2>2, <2>3
<1>14. LaterOnly
    BY DEF LaterOnly, Init, Nothing, Listers
<1> QED BY <1>11, <1>12, <1>13, <1>14 DEF ServersInv

(* A step that brings no server, leaves the first server of a launched name*)
(* up and lists no other than later servers keeps the invariant.           *)
LEMMA NoNewServer ==
    ASSUME IInv, TypeOK', nameOf' = nameOf, Used' = Used,
           faults' <= faults, launched' \subseteq launched,
           \A n \in Names : stage'[n] \in Early => stage[n] \in Early,
           limbo' \subseteq Pending,
           \A s \in Servers :
               /\ status[s] = "up" /\ status'[s] # "up"
               /\ nameOf[s] \in launched'
               => \E t \in Used : t < s /\ nameOf[t] = nameOf[s],
           LaterOnly'
    PROVE  ServersInv'
<1> USE DEF IInv, ServersInv
<1>1. RanksInOrder'
    BY DEF RanksInOrder
<1>2. NoServerYet'
    BY DEF NoServerYet
<1>3. RanksLeft'
  <2>1. Pending' \subseteq Pending
    BY DEF Pending
  <2>2. Cardinality(Pending') <= Cardinality(Pending)
    BY <2>1, Countable, FS_Subset DEF KeysInv
  <2>3. Cardinality(Pending') \in Nat /\ faults \in Nat /\ faults' \in Nat
    BY <2>1, Countable, FS_Subset, FS_CardinalityType DEF KeysInv, TypeOK
  <2> QED BY <2>2, <2>3, Countable, NamesAssumption DEF RanksLeft, KeysInv
<1>4. FirstIsUp'
  <2> SUFFICES ASSUME NEW n \in launched'
               PROVE  \E f \in Used' :
                        /\ nameOf'[f] = n /\ status'[f] = "up"
                        /\ \A s \in Used' : nameOf'[s] = n => f <= s
    BY DEF FirstIsUp
  <2>1. PICK f \in Used : /\ nameOf[f] = n /\ status[f] = "up"
                          /\ \A s \in Used : nameOf[s] = n => f <= s
    BY DEF FirstIsUp
  <2>2. Used \subseteq Int
    BY Countable DEF RanksInOrder, KeysInv
  <2>3. status'[f] = "up"
    BY <2>1, <2>2 DEF Used
  <2> QED BY <2>1, <2>3
<1> QED BY <1>1, <1>2, <1>3, <1>4

(* OpenStack accepts k requests of a pending name: there are ranks left for*)
(* the servers, which come after all others.                               *)
LEMMA NewServers ==
    ASSUME IInv, NEW n \in Pending, NEW k \in 1..2, Accept(n, k),
           k <= faults + 1, NEW u \in Nat, u = Cardinality(Used)
    PROVE  /\ u + 1 .. u + k \subseteq Servers
           /\ Used' = 1 .. u + k /\ Cardinality(Used') = u + k
           /\ \A s \in Used : /\ s \notin u + 1 .. u + k
                              /\ status'[s] = status[s]
                              /\ nameOf'[s] = nameOf[s]
           /\ \A s \in u + 1 .. u + k : status'[s] = "up" /\ nameOf'[s] = n
<1> DEFINE total == Cardinality(Names) + MaxFaults
<1>1. total \in Nat /\ faults \in Nat /\ Used = 1..u
    BY Countable, NamesAssumption
    DEF IInv, KeysInv, TypeOK, ServersInv, RanksInOrder
<1>2. Cardinality(Pending) >= 1
  <2>1. IsFiniteSet(Pending) /\ Cardinality(Pending) \in Nat
    BY Countable DEF IInv, KeysInv
  <2>2. Cardinality(Pending) # 0
    BY <2>1, FS_EmptySet
  <2> QED BY <2>1, <2>2
<1>3. u + k <= total
  <2>1. u + Cardinality(Pending) + faults <= total
    BY DEF IInv, ServersInv, RanksLeft
  <2>2. Cardinality(Pending) \in Nat
    BY Countable DEF IInv, KeysInv
  <2> QED BY <1>1, <1>2, <2>1, <2>2
<1>4. u + 1 .. u + k \subseteq Servers
    BY <1>1, <1>3 DEF Servers
<1>5. /\ \A s \in Servers : status'[s] =
              IF s \in u + 1 .. u + k THEN "up" ELSE status[s]
      /\ \A s \in Servers : nameOf'[s] =
              IF s \in u + 1 .. u + k THEN n ELSE nameOf[s]
    BY DEF Accept, Used
<1>6. \A s \in Used : s \in Servers /\ s \notin u + 1 .. u + k
    BY <1>1 DEF Used
<1>7. Used' = Used \cup u + 1 .. u + k
    BY <1>4, <1>5, <1>6 DEF Used
<1>8. PICK v \in Nat : v = u + k
    OBVIOUS
<1>9. Used' = 1..v
  <2>1. 1..v = 1..u \cup u + 1 .. v
    BY <1>8
  <2> QED BY <1>1, <1>7, <1>8, <2>1
<1>10. Cardinality(1..v) = v
    BY <1>8, FS_Interval
<1> QED BY <1>4, <1>5, <1>6, <1>8, <1>9, <1>10

(* A pending name gets its servers: it is launched, or a late one comes    *)
(* that nobody waits for.                                                  *)
LEMMA ServersAccepted ==
    ASSUME IInv, TypeOK', NEW n \in Names, n \in Pending, NEW k \in 1..2,
           Accept(n, k), faults' + k <= faults + 1, todo' = todo,
           n \notin Pending',
           Pending' \subseteq Pending,
           \A m \in Names \ {n} : stage'[m] = stage[m],
           \/ launched' = launched /\ n \notin launched
           \/ launched' = launched \cup {n} /\ stage[n] \in Early
    PROVE  ServersInv'
<1>0. PICK u \in Nat : u = Cardinality(Used)
    BY Countable DEF IInv, KeysInv
<1>1. faults \in Nat /\ faults' \in Nat /\ Used = 1..u
    BY <1>0 DEF IInv, KeysInv, TypeOK, ServersInv, RanksInOrder
<1> DEFINE before == faults
           after == faults'
<1>2. before \in Nat /\ after \in Nat /\ after + k <= before + 1
    BY <1>1
<1>3a. k <= faults + 1
  <2> HIDE DEF before, after
  <2>1. k <= before + 1
    BY <1>2
  <2> QED BY <2>1 DEF before
<1>3. /\ u + 1 .. u + k \subseteq Servers
      /\ Used' = 1 .. u + k /\ Cardinality(Used') = u + k
      /\ \A s \in Used : /\ s \notin u + 1 .. u + k
                         /\ status'[s] = status[s] /\ nameOf'[s] = nameOf[s]
      /\ \A s \in u + 1 .. u + k : status'[s] = "up" /\ nameOf'[s] = n
    BY <1>0, <1>3a, NewServers
<1>4. \A s \in Used' : s \in Used \/ s \in u + 1 .. u + k
    BY <1>1, <1>3
<1>5. RanksInOrder'
    BY <1>3 DEF RanksInOrder
<1>6. NoServerYet'
  <2> SUFFICES ASSUME NEW m \in Names, stage'[m] \in Early, NEW s \in Used'
               PROVE  nameOf'[s] # m
    BY DEF NoServerYet
  <2>1. m # n
    BY DEF Pending
  <2> QED BY <1>3, <1>4, <2>1 DEF NoServerYet, IInv, ServersInv
<1>7. RanksLeft'
  <2>1. IsFiniteSet(Pending) /\ Cardinality(Pending) \in Nat
    BY Countable DEF IInv, KeysInv
  <2>2. IsFiniteSet(Pending \ {n})
        /\ Cardinality(Pending \ {n}) = Cardinality(Pending) - 1
    BY <2>1, FS_RemoveElement
  <2>3. Pending' \in SUBSET (Pending \ {n})
    BY DEF Pending
  <2>4. IsFiniteSet(Pending') /\ Cardinality(Pending') <= Cardinality(Pending) - 1
    BY <2>2, <2>3, FS_Subset
  <2>5. Cardinality(Pending') \in Nat
    BY <2>4, FS_CardinalityType
  <2> DEFINE p == Cardinality(Pending)
             q == Cardinality(Pending')
             total == Cardinality(Names) + MaxFaults
  <2>6. u + p + before <= total
    BY <1>0 DEF RanksLeft, IInv, ServersInv
  <2>7. total \in Nat /\ p \in Nat /\ q \in Nat /\ q <= p - 1
    BY <2>1, <2>4, <2>5, Countable, NamesAssumption DEF IInv, KeysInv
  <2>8. u + k + q + after <= total
    <3> HIDE DEF before, after, p, q, total
    <3> QED BY <1>2, <2>6, <2>7
  <2> QED BY <1>3, <2>8 DEF RanksLeft
<1>8. FirstIsUp'
  <2> SUFFICES ASSUME NEW m \in launched'
               PROVE  \E f \in Used' :
                        /\ nameOf'[f] = m /\ status'[f] = "up"
                        /\ \A s \in Used' : nameOf'[s] = m => f <= s
    BY DEF FirstIsUp
  <2>1. CASE m # n
    <3>1. PICK f \in Used : /\ nameOf[f] = m /\ status[f] = "up"
                            /\ \A s \in Used : nameOf[s] = m => f <= s
      BY <2>1 DEF FirstIsUp, IInv, ServersInv
    <3> QED BY <1>1, <1>3, <1>4, <2>1, <3>1
  <2>2. CASE m = n
    <3>1. \A s \in Used : nameOf[s] # n
      BY <2>2 DEF NoServerYet, IInv, ServersInv
    <3>2. \A s \in Used' : nameOf'[s] = n => s \in u + 1 .. u + k
      BY <1>3, <1>4, <3>1
    <3>3. u + 1 \in Used' /\ u + 1 \in u + 1 .. u + k
      BY <1>3
    <3>4. status'[u + 1] = "up" /\ nameOf'[u + 1] = n
      BY <1>3, <3>3
    <3>5. \A s \in Used' : nameOf'[s] = n => u + 1 <= s
      BY <3>2
    <3> QED BY <2>2, <3>3, <3>4, <3>5
  <2> QED BY <2>1, <2>2
<1>9. LaterOnly'
  <2>1. \A s \in Used : s \in Used' /\ nameOf'[s] = nameOf[s]
    BY <1>1, <1>3
  <2> QED BY <2>1 DEF LaterOnly, IInv, ServersInv
<1> QED BY <1>5, <1>6, <1>7, <1>8, <1>9 DEF ServersInv

(* Every step keeps the invariant of the servers.                          *)
LEMMA StepServers == IInv /\ [Next]_vars => ServersInv'
<1> SUFFICES ASSUME IInv, [Next]_vars PROVE ServersInv'
    OBVIOUS
<1>0. TypeOK /\ TypeOK' /\ faults \in Nat /\ faults' \in Nat
    BY TypeStep DEF IInv, KeysInv, TypeOK
<1>1. \A s \in Used : s \in Servers /\ s \in Int
    BY Countable DEF IInv, KeysInv, ServersInv, RanksInOrder, Used
<1>2. LaterOnly
    BY DEF IInv, ServersInv
<1>3. ASSUME NEW S \in SUBSET Names, CallLaunch(S) PROVE ServersInv'
  <2>1. \A n \in Names : stage'[n] \in Early => stage[n] \in Early
    BY <1>0, <1>3 DEF CallLaunch, TypeOK, Early
  <2>2. UNCHANGED <<status, nameOf, limbo, faults, launched, todo>>
    BY <1>3 DEF CallLaunch, cloud, history, lists
  <2> QED BY <1>0, <1>2, <2>1, <2>2, NoNewServer DEF Used, LaterOnly, Pending
<1>4. ASSUME NEW S \in SUBSET Names, CallDelete(S) PROVE ServersInv'
  <2>1. \A n \in Names : stage'[n] \in Early => stage[n] \in Early
    BY <1>0, <1>4 DEF CallDelete, TypeOK, Early
  <2>2. UNCHANGED <<status, nameOf, limbo, faults, todo>>
        /\ launched' \subseteq launched
    BY <1>4 DEF CallDelete, cloud, lists
  <2> QED BY <1>0, <1>2, <2>1, <2>2, NoNewServer DEF Used, LaterOnly, Pending
<1>5. ASSUME NEW n \in Names,
             \/ CreateKeypair(n) \/ WriteKeyfile(n) \/ ReadMetadata(n)
             \/ DropKeypair(n) \/ DropKeyfile(n)
      PROVE  ServersInv'
  <2>1. \A m \in Names : stage'[m] \in Early => stage[m] \in Early
    BY <1>0, <1>5 DEF CreateKeypair, WriteKeyfile, ReadMetadata, DropKeypair,
                      DropKeyfile, GiveUp, Advance, TypeOK, Early
  <2>2. UNCHANGED <<status, nameOf, limbo, launched, todo>> /\ faults' <= faults
    BY <1>0, <1>5 DEF CreateKeypair, WriteKeyfile, ReadMetadata, DropKeypair,
                      DropKeyfile, GiveUp, Fault, cloud, lists, history
  <2> QED BY <1>0, <1>2, <2>1, <2>2, NoNewServer DEF Used, LaterOnly, Pending
<1>6. ASSUME NEW n \in Names, DropServer(n) PROVE ServersInv'
  <2>1. \A m \in Names : stage'[m] \in Early => stage[m] \in Early
    BY <1>0, <1>6 DEF DropServer, Advance, TypeOK, Early
  <2>2. UNCHANGED <<nameOf, limbo, launched, todo>> /\ faults' <= faults
    BY <1>0, <1>6 DEF DropServer, Fault, lists, history
  <2>3. /\ n \notin launched
        /\ \A s \in Servers :
              \/ status'[s] = status[s]
              \/ s \in Named(n) /\ status'[s] = "going"
    BY <1>0, <1>6 DEF DropServer, IInv, KeysInv, LaunchedOnce, TypeOK
  <2>4. \A s \in Named(n) : s \in Used /\ nameOf[s] = n
    BY DEF Named, OnCloud, Used
  <2>5. Used' = Used
    BY <2>3, <2>4 DEF Used
  <2> QED BY <1>0, <1>2, <2>1, <2>2, <2>3, <2>4, <2>5, NoNewServer
          DEF LaterOnly, Pending
<1>7. ASSUME NEW n \in Names, CreateServer(n) PROVE ServersInv'
  <2>1. PICK k \in 1..2 : Accept(n, k) /\ faults' + k <= faults + 1
    <3>1. CASE Accept(n, 1) /\ UNCHANGED faults
      BY <1>0, <3>1
    <3>2. CASE Accept(n, 2) /\ Fault
      BY <1>0, <3>2 DEF Fault
    <3> QED BY <1>7, <3>1, <3>2 DEF CreateServer
  <2>2. /\ stage[n] = "server" /\ stage'[n] = "metadata"
        /\ launched' = launched \cup {n} /\ UNCHANGED <<limbo, todo>>
        /\ \A m \in Names \ {n} : stage'[m] = stage[m]
    BY <1>0, <1>7 DEF CreateServer, Advance, TypeOK, lists
  <2>3. n \notin limbo
    BY <2>2 DEF IInv, KeysInv, LaunchedOnce
  <2>4. n \in Pending /\ n \notin Pending' /\ Pending' \subseteq Pending
    BY <2>2, <2>3 DEF Pending, Early
  <2>5. stage[n] \in Early
    BY <2>2 DEF Early
  <2> QED BY <1>0, <2>1, <2>2, <2>4, <2>5, ServersAccepted
<1>8. ASSUME NEW n \in Names, CreateFails(n) PROVE ServersInv'
  <2>1. /\ stage[n] = "server" /\ stage'[n] \notin Early
        /\ UNCHANGED <<launched, todo>> /\ faults' = faults - 1 /\ faults > 0
        /\ \A m \in Names \ {n} : stage'[m] = stage[m]
    BY <1>0, <1>8 DEF CreateFails, Fault, Advance, TypeOK, Early, lists
  <2>2. n \notin limbo /\ n \notin launched /\ n \in Pending
    BY <2>1 DEF IInv, KeysInv, LaunchedOnce, Pending, Early
  <2>3. CASE Accept(n, 1) /\ UNCHANGED limbo
    <3>1. n \notin Pending' /\ Pending' \subseteq Pending
      BY <2>1, <2>2, <2>3 DEF Pending
    <3>2. faults' + 1 <= faults + 1
      BY <1>0, <2>1
    <3> QED BY <1>0, <2>1, <2>2, <2>3, <3>1, <3>2, ServersAccepted
  <2>4. CASE UNCHANGED <<status, nameOf>> /\ limbo' \subseteq limbo \cup {n}
    <3>1. limbo' \subseteq Pending
      BY <2>2, <2>4 DEF Pending
    <3>2. faults' <= faults
      BY <1>0, <2>1
    <3> QED BY <1>0, <1>2, <2>1, <2>4, <3>1, <3>2, NoNewServer
            DEF Used, LaterOnly
  <2> QED BY <1>8, <2>3, <2>4 DEF CreateFails, cloud
<1>9. ASSUME NEW l \in Listers, StartList(l) \/ ListReturns(l)
      PROVE  ServersInv'
  <2>1. UNCHANGED <<status, nameOf, limbo, faults, stage, launched>>
    BY <1>9 DEF StartList, ListReturns, cloud, history
  <2>2. LaterOnly'
    <3>1. CASE StartList(l)
      <4>1. \A k \in Listers : todo'[k] = todo[k] \/ todo'[k] = Outdated(OnCloud)
        BY <1>0, <3>1 DEF StartList, TypeOK
      <4>2. \A s \in Outdated(OnCloud) :
              s \in Used /\ \E t \in Used : t < s /\ nameOf[t] = nameOf[s]
        BY DEF Outdated, OnCloud, Used
      <4> QED BY <1>2, <2>1, <4>1, <4>2 DEF LaterOnly, Used
    <3>2. CASE ListReturns(l)
      BY <1>2, <2>1, <3>2 DEF ListReturns, LaterOnly, Used
    <3> QED BY <1>9, <3>1, <3>2
  <2> QED BY <1>0, <2>1, <2>2, NoNewServer DEF Used, Pending
<1>10. ASSUME NEW l \in Listers, NEW s \in Servers, DeleteDuplicate(l, s)
       PROVE  ServersInv'
  <2>1. UNCHANGED <<nameOf, limbo, stage, launched>> /\ faults' <= faults
    BY <1>0, <1>10 DEF DeleteDuplicate, Fault, history
  <2>2. s \in Used /\ \E t \in Used : t < s /\ nameOf[t] = nameOf[s]
    BY <1>2, <1>10 DEF DeleteDuplicate, LaterOnly
  <2>3. \A t \in Servers :
          \/ status'[t] = status[t]
          \/ t = s /\ status[t] = "up" /\ status'[t] = "going"
    BY <1>0, <1>10 DEF DeleteDuplicate, TypeOK
  <2>4. Used' = Used
    BY <2>3 DEF Used
  <2>5. LaterOnly'
    BY <1>0, <1>2, <1>10, <2>1, <2>4 DEF DeleteDuplicate, LaterOnly, TypeOK
  <2> QED BY <1>0, <2>1, <2>2, <2>3, <2>4, <2>5, NoNewServer DEF Pending
<1>11. CASE \/ CallReturns \/ CallExpire \/ ListKeypairs \/ ExpireEnds
            \/ \E n \in Names : UnlinkKeyfile(n) \/ ExpireKeypair(n) \/ KeyAges(n)
            \/ UNCHANGED vars
  <2>1. UNCHANGED <<status, nameOf, limbo, stage, launched, todo>>
        /\ faults' <= faults
    BY <1>0, <1>11
    DEF CallReturns, CallExpire, ListKeypairs, ExpireEnds, UnlinkKeyfile,
        ExpireKeypair, KeyAges, Fault, vars, cloud, history, lists
  <2> QED BY <1>0, <1>2, <2>1, NoNewServer DEF Used, LaterOnly, Pending
<1>12. CASE Crash
  <2>1. UNCHANGED <<status, nameOf, launched>> /\ faults' <= faults
    BY <1>0, <1>12 DEF Crash, Fault, history
  <2>2. /\ \A n \in Names : stage'[n] \in Early => stage[n] \in Early
        /\ limbo' \subseteq Pending
    BY <1>12 DEF Crash, Early, Pending
  <2>3. LaterOnly'
    BY <1>12 DEF Crash, LaterOnly, Nothing
  <2> QED BY <1>0, <2>1, <2>2, <2>3, NoNewServer DEF Used
<1>13. ASSUME NEW n \in Names, LateServer(n) PROVE ServersInv'
  <2>1. /\ n \in limbo /\ limbo' = limbo \ {n}
        /\ UNCHANGED <<faults, stage, launched, todo>>
    BY <1>13 DEF LateServer, lists, history
  <2>2. stage[n] \notin Early /\ n \notin launched
    BY <2>1 DEF IInv, KeysInv, LaunchedOnce, Early
  <2>3. n \in Pending /\ n \notin Pending' /\ Pending' \subseteq Pending
    BY <2>1, <2>2 DEF Pending
  <2>4. CASE Accept(n, 1)
    BY <1>0, <2>1, <2>2, <2>3, <2>4, ServersAccepted
  <2>5. CASE UNCHANGED <<status, nameOf>>
    BY <1>0, <1>2, <2>1, <2>5, NoNewServer DEF Used, LaterOnly, Pending
  <2> QED BY <1>13, <2>4, <2>5 DEF LateServer
<1>14. ASSUME NEW s \in Servers, DeletionCompletes(s) PROVE ServersInv'
  <2>1. UNCHANGED <<nameOf, limbo, faults, stage, launched, todo>>
    BY <1>14 DEF DeletionCompletes, lists, history
  <2>2. \A t \in Servers :
          \/ status'[t] = status[t]
          \/ status[t] = "going" /\ status'[t] = "gone"
    BY <1>0, <1>14 DEF DeletionCompletes, TypeOK
  <2>3. Used' = Used
    BY <2>2 DEF Used
  <2> QED BY <1>0, <1>2, <2>1, <2>2, <2>3, NoNewServer DEF LaterOnly, Pending
<1> QED
    BY <1>3, <1>4, <1>5, <1>6, <1>7, <1>8, <1>9, <1>10, <1>11, <1>12, <1>13,
       <1>14
    DEF Next, Step

-----------------------------------------------------------------------------
(* The inductive invariant holds in every reachable state.                 *)
THEOREM Invariance == Spec => []IInv
<1>1. Init => IInv
    BY InitInvariant, InitServers DEF IInv
<1>2. IInv /\ [Next]_vars => IInv'
    BY StepInvariant, StepServers DEF IInv
<1> QED BY <1>1, <1>2, PTL DEF Spec

(* The types of servers, keys and calls.                                   *)
THEOREM TypeCorrect == Spec => []TypeOK
<1>1. IInv => TypeOK
    BY DEF IInv, KeysInv
<1> QED BY <1>1, Invariance, PTL

(* The key pair and the key file of a server are there as long as it is    *)
(* up and nobody asked to delete it, so that its metrics can be pulled.    *)
THEOREM KeysAreKept == Spec => []KeyKept
<1>1. IInv => KeyKept
    BY DEF IInv, KeysInv
<1> QED BY <1>1, Invariance, PTL

(* A launched server is made to go as a duplicate only.                    *)
LEMMA OnlyDuplicatesGo ==
    ASSUME KeysInv, [Next]_vars, NEW s \in Servers,
           status[s] = "up", status'[s] = "going", nameOf[s] \in launched
    PROVE  \E l \in Listers : DeleteDuplicate(l, s)
<1>0. TypeOK
    BY DEF KeysInv
<1>1. ASSUME NEW n \in Names, Step(n) PROVE FALSE
  <2>1. ASSUME DropServer(n) PROVE FALSE
    BY <2>1 DEF DropServer, Named, KeysInv, LaunchedOnce
  <2>2. ASSUME CreateServer(n) \/ CreateFails(n) PROVE FALSE
    BY <2>2 DEF CreateServer, CreateFails, Accept, cloud
  <2> QED BY <1>1, <2>1, <2>2
          DEF Step, CreateKeypair, WriteKeyfile, ReadMetadata, DropKeypair,
              DropKeyfile, cloud
<1>2. ASSUME NEW n \in Names, LateServer(n) PROVE FALSE
    BY <1>2 DEF LateServer, Accept
<1>3. ASSUME NEW t \in Servers, DeletionCompletes(t) PROVE FALSE
    BY <1>0, <1>3 DEF DeletionCompletes, TypeOK
<1>4. ASSUME NEW l \in Listers, NEW t \in Servers, DeleteDuplicate(l, t)
      PROVE  DeleteDuplicate(l, s)
  <2>1. t = s
    BY <1>0, <1>4 DEF DeleteDuplicate, TypeOK
  <2> QED BY <1>4, <2>1
<1>5. CASE \/ \E S \in SUBSET Names : CallLaunch(S) \/ CallDelete(S)
           \/ \E n \in Names : \/ UnlinkKeyfile(n) \/ ExpireKeypair(n)
                              \/ KeyAges(n)
           \/ \E l \in Listers : StartList(l) \/ ListReturns(l)
           \/ CallReturns \/ CallExpire \/ ListKeypairs \/ ExpireEnds
           \/ Crash \/ UNCHANGED vars
  <2>1. status' = status
    BY <1>5
    DEF CallLaunch, CallDelete, UnlinkKeyfile, ExpireKeypair, KeyAges,
        StartList, ListReturns, CallReturns, CallExpire, ListKeypairs,
        ExpireEnds, Crash, vars, cloud
  <2> QED BY <2>1
<1> QED BY <1>1, <1>2, <1>3, <1>4, <1>5 DEF Next

(* However the two listings interleave with launches, late servers, faults *)
(* and each other, they leave a launched runner a server.                  *)
THEOREM LastServerIsKept == Spec => LastServerStays
<1>1. IInv /\ IInv' /\ [Next]_vars =>
        [\A s \in Servers :
           /\ status[s] = "up" /\ status'[s] = "going"
           /\ nameOf[s] \in launched
           => \E t \in Servers : nameOf[t] = nameOf[s] /\ status'[t] = "up"]_vars
  <2> SUFFICES ASSUME IInv, [Next]_vars, NEW s \in Servers,
                      status[s] = "up", status'[s] = "going",
                      nameOf[s] \in launched
               PROVE  \E t \in Servers :
                          nameOf[t] = nameOf[s] /\ status'[t] = "up"
    OBVIOUS
  <2>1. PICK l \in Listers : DeleteDuplicate(l, s)
    BY OnlyDuplicatesGo DEF IInv
  <2>2. PICK t \in Used : t < s /\ nameOf[t] = nameOf[s]
    BY <2>1 DEF DeleteDuplicate, IInv, ServersInv, LaterOnly
  <2>3. PICK f \in Used : /\ nameOf[f] = nameOf[s] /\ status[f] = "up"
                          /\ f <= t
    BY <2>2 DEF IInv, ServersInv, FirstIsUp
  <2>4. s \in Int /\ t \in Int /\ f \in Int /\ f \in Servers
    BY NamesAssumption, Countable
    DEF IInv, KeysInv, ServersInv, RanksInOrder, Used, Servers
  <2>5. f # s
    BY <2>2, <2>3, <2>4
  <2>6. status'[f] = status[f]
    BY <2>1, <2>4, <2>5 DEF DeleteDuplicate, IInv, KeysInv, TypeOK
  <2> QED BY <2>3, <2>4, <2>6
<1> QED BY <1>1, Invariance, PTL DEF Spec, LastServerStays
=============================================================================
