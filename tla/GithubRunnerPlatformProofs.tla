--------------------- MODULE GithubRunnerPlatformProofs ---------------------
(***************************************************************************)
(* However many units share a path and whatever they are called, each      *)
(* claims only what is its own; a call that spares busy runners takes the  *)
(* server of a registered one only if the server names no runner.          *)
(***************************************************************************)
EXTENDS GithubRunnerPlatform, SequenceTheorems, TLAPS

(* Every instance has a name of the unit that made it.                     *)
MadeInv == \A u \in Units : made[u] \subseteq InstancesOf(u)

(* GitHub and OpenStack know nothing with a unit's prefix that the unit    *)
(* did not make, and GitHub knows a name once.                             *)
WorldInv ==
    /\ \A n \in servers : \E u \in Units : n \in made[u]
    /\ \A u \in Units : \A i \in 1..Len(runners) :
          NameHasPrefix(Prefix(u), runners[i]) => runners[i] \in made[u]
    /\ \A i, j \in 1..Len(runners) : runners[i] = runners[j] => i = j

(* A unit in the middle of a creation creates an instance of its own.      *)
NewInv ==
    \A u \in Units :
        step[Loop(u)] \in {"launch", "undo"} => new[u] \in made[u]

(* The InstanceIDs of what a unit made.                                    *)
IDsOf(u) == {BuildFromName(Prefix(u), n) : n \in made[u]}

(* What a session holds is of its unit's making, and a runner it has seen  *)
(* deleted is not registered again.                                        *)
Claims(s) ==
    /\ listed[s] \subseteq IDsOf(s[1])
    /\ Known(s) \subseteq IDsOf(s[1])
    /\ targets[s] \subseteq made[s[1]]
    /\ wanted[s] \subseteq made[s[1]]
    /\ deleted[s] \subseteq made[s[1]]
    /\ deleted[s] \cap Registered = {}
ClaimInv == \A s \in Sessions : Claims(s)

(* A session at rest has read nothing; while nobody moved up, a session    *)
(* that reads pages knows the runners of its unit on the pages it read,    *)
(* and there is more to read.                                              *)
Pages(s) ==
    /\ step[s] \in {"idle", "launch", "undo"} => page[s] = 0
    /\ step[s] = "list" /\ ~shifted[s] =>
          /\ page[s] * PageSize <= Len(runners)
          /\ \A i \in 1..Len(runners) :
                /\ i <= page[s] * PageSize
                /\ NameHasPrefix(PrefixOf(s), runners[i])
                => BuildFromName(PrefixOf(s), runners[i]) \in Known(s)
PageInv == \A s \in Sessions : Pages(s)

(* The inductive invariant: types, names and claims of the units, and for  *)
(* each listing what its pages have shown and can still show.              *)
IInv ==
    /\ TypeOK /\ MadeInv /\ WorldInv /\ NewInv /\ ClaimInv /\ PageInv
    /\ HealthIsTrue

-----------------------------------------------------------------------------
(* Names.                                                                  *)

LEMMA PrefixFact ==
    ASSUME NEW u \in Units
    PROVE  Prefix(u) = Begin(u) /\ Prefix(u) \in Names /\ Prefix(u) # <<>>
           /\ Len(Prefix(u)) = Len(u.app) + 1
<1>1. u.app \in Seq(Words) /\ u.number \in Numbers
  BY UnitsAssumption DEF UnitNames
<1>2. u.app \in Seq(Parts) /\ u.number \in Parts
  BY <1>1 DEF Parts
<1> QED
  BY <1>2 DEF Prefix, Begin, Names

(* A name made of a prefix and more has that prefix.                       *)
LEMMA Rest ==
    ASSUME NEW p \in Names, NEW t \in Names, t # <<>>
    PROVE  /\ p \o t \in Names
           /\ NameHasPrefix(p, p \o t)
           /\ SubSeq(p \o t, Len(p) + 1, Len(p \o t)) = t
BY DEF Names, NameHasPrefix

(* The tail of the name of an instance.                                    *)
LEMMA PlainTail ==
    ASSUME NEW token \in Tokens
    PROVE  <<>> \o <<token>> = <<token>> /\ <<token>> \in Names
<1>1. <<token>> \in Seq(Parts)
  BY DEF Parts
<1> QED
  BY <1>1, ConcatEmptySeq DEF Names

LEMMA OldTail ==
    ASSUME NEW token \in Tokens, NEW x \in {"r", "n"}
    PROVE  <<x>> \o <<token>> = <<x, token>> /\ <<x, token>> \in Names
<1>1. x \in Parts /\ token \in Parts
  BY DEF Parts
<1>2. <<x>> \in Seq(Parts) /\ <<x, token>> \in Seq(Parts)
  BY <1>1
<1>3. Append(<<x>>, token) = <<x>> \o <<token>>
  BY <1>1, <1>2, AppendIsConcat
<1>4. Append(<<x>>, token) = <<x, token>>
  <2>1. /\ Append(<<x>>, token) \in Seq(Parts)
        /\ Len(Append(<<x>>, token)) = 2
        /\ Append(<<x>>, token)[1] = x /\ Append(<<x>>, token)[2] = token
    BY <1>1, <1>2, AppendProperties
  <2>2. Len(<<x, token>>) = 2 /\ <<x, token>>[1] = x /\ <<x, token>>[2] = token
    OBVIOUS
  <2>3. \A i \in 1..2 : Append(<<x>>, token)[i] = <<x, token>>[i]
    BY <2>1, <2>2
  <2> QED
    BY <1>2, <2>1, <2>2, <2>3, SeqEqual
<1> QED
  BY <1>2, <1>3, <1>4 DEF Names

(* What is left of the name of an instance without its prefix.             *)
LEMMA WithoutPrefix ==
    ASSUME NEW p \in Names, NEW i \in Names, NEW t \in Names, t # <<>>
    PROVE  LET n == (p \o i) \o t
           IN  /\ n \in Names /\ NameHasPrefix(p, n)
               /\ SubSeq(n, Len(p) + 1, Len(n)) = i \o t
<1>1. (p \o i) \o t = p \o (i \o t)
  BY ConcatAssociative DEF Names
<1>2. i \o t \in Names /\ i \o t # <<>>
  <2>1. i \in Seq(Parts) /\ t \in Seq(Parts)
    BY DEF Names
  <2>2. i \o t \in Seq(Parts) /\ Len(i \o t) = Len(i) + Len(t)
    BY <2>1, ConcatProperties
  <2>3. Len(t) \in Nat \ {0}
    BY <2>1, EmptySeq
  <2>4. Len(i) \in Nat
    BY <2>1, LenProperties
  <2>5. Len(i \o t) # 0
    BY <2>2, <2>3, <2>4
  <2>6. i \o t # <<>>
    BY <2>5, EmptySeq
  <2> QED
    BY <2>2, <2>6 DEF Names
<1> QED
  BY <1>1, <1>2, Rest

(* A name yields the InstanceID it was made of, old infix included.        *)
LEMMA Rebuilt ==
    ASSUME NEW p \in Names, NEW infix \in Infixes, NEW token \in Tokens
    PROVE  LET n == (p \o infix) \o <<token>>
           IN  /\ n \in Names /\ NameHasPrefix(p, n)
               /\ BuildFromName(p, n) =
                     [prefix |-> p, infix |-> infix, suffix |-> <<token>>]
<1> DEFINE n == (p \o infix) \o <<token>>
           rest == SubSeq(n, Len(p) + 1, Len(n))
<1>1. infix \in Names /\ <<token>> \in Names /\ <<token>> # <<>>
  <2>1. {"r", "n"} \subseteq Parts /\ token \in Parts
    BY DEF Parts
  <2>2. \A x \in Parts : <<x>> \in Seq(Parts) /\ <<x>> # <<>>
    OBVIOUS
  <2>3. <<>> \in Seq(Parts)
    BY EmptySeq
  <2> QED
    BY <2>1, <2>2, <2>3 DEF Infixes, Names
<1>2. n \in Names /\ NameHasPrefix(p, n) /\ rest = infix \o <<token>>
  BY <1>1, WithoutPrefix
<1>3. BuildFromName(p, n) =
        [prefix |-> p,
         infix |-> IF Len(rest) > 1 /\ rest[1] \in {"r", "n"}
                     THEN <<rest[1]>> ELSE <<>>,
         suffix |-> IF Len(rest) > 1 /\ rest[1] \in {"r", "n"}
                      THEN Tail(rest) ELSE rest]
  BY DEF BuildFromName
<1> HIDE DEF n, rest
<1>4. CASE infix = <<>>
  <2>1. rest = <<token>>
    BY <1>2, <1>4, PlainTail
  <2>2. ~(Len(rest) > 1)
    BY <2>1
  <2> QED
    BY <1>2, <1>3, <1>4, <2>1, <2>2 DEF n
<1>5. ASSUME NEW x \in {"r", "n"}, infix = <<x>>
      PROVE  BuildFromName(p, n) =
               [prefix |-> p, infix |-> infix, suffix |-> <<token>>]
  <2>1. rest = <<x, token>>
    BY <1>2, <1>5, OldTail
  <2>2. Len(rest) > 1 /\ rest[1] = x
    BY <2>1
  <2>3. Tail(rest) = <<token>>
    <3>0. Len(<<x, token>>) = 2 /\ <<x, token>>[2] = token
      OBVIOUS
    <3>1. rest \in Seq(Parts) /\ Len(rest) = 2 /\ rest[2] = token
      BY <2>1, <3>0, OldTail DEF Names
    <3>2. rest # <<>>
      BY <3>1, EmptySeq
    <3>3. Tail(rest) \in Seq(Parts) /\ Len(Tail(rest)) = 1
          /\ Tail(rest)[1] = token
      <4>1. /\ Tail(rest) \in Seq(Parts)
            /\ Len(Tail(rest)) = Len(rest) - 1
            /\ \A i \in 1..Len(Tail(rest)) : Tail(rest)[i] = rest[i + 1]
        BY ONLY <3>1, <3>2, HeadTailProperties
      <4> QED
        BY <3>1, <4>1
    <3>4. Len(<<token>>) = 1 /\ <<token>>[1] = token
      OBVIOUS
    <3>5. \A i \in 1..1 : Tail(rest)[i] = <<token>>[i]
      BY <3>3, <3>4
    <3> QED
      BY <1>1, <3>3, <3>4, <3>5, SeqEqual DEF Names
  <2> QED
    BY <1>3, <1>5, <2>2, <2>3
<1> QED
  BY <1>2, <1>4, <1>5 DEF Infixes, n

(* The names of two units never mix, though one name may continue another: *)
(* where the shorter prefix ends in a number, the longer one has a word.   *)
LEMMA UnitsApart ==
    ASSUME NEW u \in Units, NEW v \in Units, NEW n \in Names,
           NameHasPrefix(Prefix(u), n), NameHasPrefix(Prefix(v), n)
    PROVE  u = v
<1>1. /\ u.app \in Seq(Words) /\ u.number \in Numbers
      /\ v.app \in Seq(Words) /\ v.number \in Numbers
      /\ u = [app |-> u.app, number |-> u.number]
      /\ v = [app |-> v.app, number |-> v.number]
  BY UnitsAssumption DEF UnitNames
<1> DEFINE a == Len(u.app)
           b == Len(v.app)
<1>2. a \in Nat /\ b \in Nat
  BY <1>1
<1>3. /\ \A i \in 1..a : n[i] = u.app[i]
      /\ n[a + 1] = u.number
  <2>1. /\ Len(Prefix(u)) = a + 1
        /\ \A i \in 1..a : Prefix(u)[i] = u.app[i]
        /\ Prefix(u)[a + 1] = u.number
    BY <1>1 DEF Prefix
  <2>2. \A i \in 1..(a + 1) : SubSeq(n, 1, a + 1)[i] = n[i]
    BY <1>2, <2>1 DEF Names, NameHasPrefix
  <2> QED
    BY <1>2, <2>1, <2>2 DEF NameHasPrefix
<1>4. /\ \A i \in 1..b : n[i] = v.app[i]
      /\ n[b + 1] = v.number
  <2>1. /\ Len(Prefix(v)) = b + 1
        /\ \A i \in 1..b : Prefix(v)[i] = v.app[i]
        /\ Prefix(v)[b + 1] = v.number
    BY <1>1 DEF Prefix
  <2>2. \A i \in 1..(b + 1) : SubSeq(n, 1, b + 1)[i] = n[i]
    BY <1>2, <2>1 DEF Names, NameHasPrefix
  <2> QED
    BY <1>2, <2>1, <2>2 DEF NameHasPrefix
<1>5. CASE a < b
  <2>1. a + 1 \in 1..b
    BY <1>2, <1>5
  <2>2. v.app[a + 1] \in Words
    BY <1>1, <2>1
  <2>3. u.number = v.app[a + 1]
    BY <1>3, <1>4, <2>1
  <2> QED
    BY <1>1, <2>2, <2>3, PartsAssumption
<1>6. CASE b < a
  <2>1. b + 1 \in 1..a
    BY <1>2, <1>6
  <2>2. u.app[b + 1] \in Words
    BY <1>1, <2>1
  <2>3. v.number = u.app[b + 1]
    BY <1>3, <1>4, <2>1
  <2> QED
    BY <1>1, <2>2, <2>3, PartsAssumption
<1>7. CASE a = b
  <2>1. u.app = v.app
    BY <1>1, <1>3, <1>4, <1>7, SeqEqual
  <2> QED
    BY <1>1, <1>3, <1>4, <1>7, <2>1
<1> QED
  BY <1>2, <1>5, <1>6, <1>7

(* The name of an instance, as the units read it.                          *)
LEMMA InstanceFact ==
    ASSUME NEW u \in Units, NEW n \in InstancesOf(u)
    PROVE  /\ n \in Names /\ NameHasPrefix(Prefix(u), n)
           /\ BuildFromName(Prefix(u), n) \in InstanceIDs
           /\ Name(BuildFromName(Prefix(u), n)) = n
<1>0. PICK infix \in Infixes, token \in Tokens :
         n = (Begin(u) \o infix) \o <<token>>
  BY DEF InstancesOf
<1>1. n = (Prefix(u) \o infix) \o <<token>>
  BY <1>0, PrefixFact, Zenon
<1>2. /\ n \in Names /\ NameHasPrefix(Prefix(u), n)
      /\ BuildFromName(Prefix(u), n) =
            [prefix |-> Prefix(u), infix |-> infix, suffix |-> <<token>>]
  BY <1>1, PrefixFact, Rebuilt
<1>3. <<token>> \in Seq(Tokens) /\ Prefix(u) \in Names
  BY PrefixFact
<1>4. BuildFromName(Prefix(u), n) \in InstanceIDs
  BY <1>2, <1>3 DEF InstanceIDs
<1>5. Name(BuildFromName(Prefix(u), n)) = n
  <2> SUFFICES ASSUME NEW id, id = BuildFromName(Prefix(u), n)
               PROVE  Name(id) = n
    OBVIOUS
  <2>1. id.prefix = Prefix(u) /\ id.infix = infix /\ id.suffix = <<token>>
    BY <1>2
  <2> QED
    BY <1>1, <2>1, Zenon DEF Name
<1> QED
  BY <1>2, <1>4, <1>5

LEMMA IDFact ==
    ASSUME MadeInv, NEW u \in Units, NEW id \in IDsOf(u)
    PROVE  /\ Name(id) \in made[u] /\ id \in InstanceIDs
           /\ NameHasPrefix(Prefix(u), Name(id))
           /\ BuildFromName(Prefix(u), Name(id)) = id
<1>1. PICK n \in made[u] : id = BuildFromName(Prefix(u), n)
  BY DEF IDsOf
<1>2. n \in InstancesOf(u)
  BY DEF MadeInv
<1> QED
  BY <1>1, <1>2, InstanceFact

(* A name with the prefix of a unit, made by any unit, was made by it.     *)
LEMMA OwnName ==
    ASSUME MadeInv, NEW u \in Units, NEW v \in Units, NEW n \in made[v],
           NameHasPrefix(Prefix(u), n)
    PROVE  n \in made[u]
<1>1. n \in InstancesOf(v)
  BY DEF MadeInv
<1> QED
  BY <1>1, InstanceFact, UnitsApart

LEMMA BuiltFact ==
    ASSUME NEW u \in Units, NEW token \in Tokens
    PROVE  Name(Build(Prefix(u), token)) \in InstancesOf(u)
<1>1. <<>> \in Infixes
  BY DEF Infixes
<1> QED
  BY <1>1, PrefixFact DEF Name, Build, InstancesOf

-----------------------------------------------------------------------------
(* Sessions and the list of runners.                                       *)

LEMMA SessionFact ==
    /\ \A s \in Sessions : s[1] \in Units
    /\ \A u \in Units : Loop(u) \in Sessions /\ Loop(u)[1] = u
    /\ \A u, v \in Units : Loop(u) = Loop(v) => u = v
BY DEF Sessions, Loop, Check

(* Who leaves the list, leaves it for good, and the rest keeps its order.  *)
LEMMA LeaveFact ==
    ASSUME runners \in Seq(Names), NEW i \in 1..Len(runners), Leave(i)
    PROVE  /\ runners' \in Seq(Names)
           /\ Len(runners') = Len(runners) - 1
           /\ \A j \in 1..Len(runners') :
                 runners'[j] = IF j < i THEN runners[j] ELSE runners[j + 1]
<1> DEFINE a == SubSeq(runners, 1, i - 1)
           b == SubSeq(runners, i + 1, Len(runners))
<1>1. runners' = a \o b
  BY DEF Leave, RemoveAt
<1>2. /\ a \in Seq(Names) /\ Len(a) = i - 1
      /\ \A j \in 1..(i - 1) : a[j] = runners[j]
  BY SubSeqProperties
<1>3. /\ b \in Seq(Names) /\ Len(b) = Len(runners) - i
      /\ \A j \in 1..(Len(runners) - i) : b[j] = runners[j + i]
  BY SubSeqProperties
<1> HIDE DEF a, b
<1>4. /\ a \o b \in Seq(Names) /\ Len(a \o b) = Len(a) + Len(b)
      /\ \A j \in 1..Len(a) + Len(b) :
            (a \o b)[j] = IF j <= Len(a) THEN a[j] ELSE b[j - Len(a)]
  BY <1>2, <1>3, ConcatProperties
<1>5. Len(a \o b) = Len(runners) - 1
  BY <1>2, <1>3, <1>4
<1>6. ASSUME NEW j \in 1..(Len(runners) - 1)
      PROVE  (a \o b)[j] = IF j < i THEN runners[j] ELSE runners[j + 1]
  <2>1. CASE j < i
    BY <1>2, <1>3, <1>4, <2>1
  <2>2. CASE ~(j < i)
    <3>1. j - (i - 1) \in 1..(Len(runners) - i)
      BY <2>2
    <3>2. (a \o b)[j] = b[j - (i - 1)]
      BY <1>2, <1>3, <1>4, <2>2
    <3> QED
      BY <1>3, <2>2, <3>1, <3>2
  <2> QED
    BY <2>1, <2>2
<1> QED
  BY <1>1, <1>4, <1>5, <1>6

LEMMA LeaverGone ==
    ASSUME runners \in Seq(Names), NEW i \in 1..Len(runners), Leave(i),
           \A j, k \in 1..Len(runners) : runners[j] = runners[k] => j = k
    PROVE  /\ Registered' = Registered \ {runners[i]}
           /\ \A j, k \in 1..Len(runners') : runners'[j] = runners'[k] => j = k
           /\ \A j \in 1..Len(runners') : \E k \in 1..Len(runners) :
                 runners'[j] = runners[k] /\ k # i /\ (j < i => k = j)
                 /\ (j >= i => k = j + 1)
<1>1. /\ runners' \in Seq(Names) /\ Len(runners') = Len(runners) - 1
      /\ \A j \in 1..Len(runners') :
            runners'[j] = IF j < i THEN runners[j] ELSE runners[j + 1]
  BY LeaveFact
<1>2. Registered = {runners[j] : j \in 1..Len(runners)}
  BY DEF Registered, ToSet
<1>3. Registered' = {runners'[j] : j \in 1..Len(runners')}
  BY <1>1 DEF Registered, ToSet
<1>4. ASSUME NEW j \in 1..Len(runners), j # i PROVE runners[j] \in Registered'
  <2>1. CASE j < i
    BY <1>1, <1>3, <2>1
  <2>2. CASE j > i
    <3>1. j - 1 \in 1..Len(runners') /\ runners'[j - 1] = runners[j]
      BY <1>1, <2>2
    <3> QED
      BY <1>3, <3>1
  <2> QED
    BY <1>4, <2>1, <2>2
<1>5. \A j \in 1..Len(runners') : \E k \in 1..Len(runners) :
         /\ runners'[j] = runners[k] /\ k # i
         /\ (j < i => k = j) /\ (j >= i => k = j + 1)
  <2> TAKE j \in 1..Len(runners')
  <2>1. CASE j < i
    BY <1>1, <2>1
  <2>2. CASE j >= i
    BY <1>1, <2>2
  <2> QED
    BY <1>1, <2>1, <2>2
<1>6. Registered' = Registered \ {runners[i]}
  BY <1>2, <1>3, <1>4, <1>5
<1>7. \A j, k \in 1..Len(runners') : runners'[j] = runners'[k] => j = k
  <2> DEFINE at(j) == IF j < i THEN j ELSE j + 1
  <2>1. \A j \in 1..Len(runners') :
           at(j) \in 1..Len(runners) /\ runners'[j] = runners[at(j)]
    BY <1>1
  <2>2. \A j, k \in 1..Len(runners') : at(j) = at(k) => j = k
    BY <1>1
  <2> HIDE DEF at
  <2> QED
    BY <2>1, <2>2
<1> QED
  BY <1>5, <1>6, <1>7

LEMMA AppendFact ==
    ASSUME runners \in Seq(Names), NEW n \in Names, runners' = Append(runners, n)
    PROVE  /\ runners' \in Seq(Names) /\ Len(runners') = Len(runners) + 1
           /\ \A i \in 1..Len(runners) : runners'[i] = runners[i]
           /\ runners'[Len(runners) + 1] = n
           /\ Registered' = Registered \cup {n}
<1>1. /\ runners' \in Seq(Names) /\ Len(runners') = Len(runners) + 1
      /\ \A i \in 1..Len(runners) : runners'[i] = runners[i]
      /\ runners'[Len(runners) + 1] = n
  BY AppendProperties
<1>2. /\ Registered = {runners[i] : i \in 1..Len(runners)}
      /\ Registered' = {runners'[i] : i \in 1..Len(runners')}
  BY <1>1 DEF Registered, ToSet
<1> QED
  BY <1>1, <1>2

(* A session knows the runners of its unit on the pages it read, though    *)
(* the list changes.                                                       *)
PageKept ==
    \A s \in Sessions :
        step[s] = "list" /\ ~shifted'[s] =>
            /\ page[s] * PageSize <= Len(runners')
            /\ \A i \in 1..Len(runners') :
                  /\ i <= page[s] * PageSize
                  /\ NameHasPrefix(PrefixOf(s), runners'[i])
                  => BuildFromName(PrefixOf(s), runners'[i]) \in Known(s)

SomebodyLeaves == \E i \in 1..Len(runners) : Leave(i)

(* What GitHub keeps when one runner leaves at most.                       *)
LEMMA ShrinkFact ==
    ASSUME IInv, made' = made, SomebodyLeaves \/ NobodyLeaves
    PROVE  /\ runners' \in Seq(Names)
           /\ Registered' \subseteq Registered
           /\ online' \subseteq Registered' /\ busy' \subseteq Registered'
           /\ shifted' \in [Sessions -> BOOLEAN]
           /\ \A s \in Sessions : shifted[s] => shifted'[s]
           /\ \A u \in Units : \A i \in 1..Len(runners') :
                 NameHasPrefix(Prefix(u), runners'[i]) => runners'[i] \in made'[u]
           /\ \A i, j \in 1..Len(runners') : runners'[i] = runners'[j] => i = j
           /\ PageKept
<1>1. /\ runners \in Seq(Names)
      /\ busy \subseteq Registered /\ online \subseteq Registered
      /\ shifted \in [Sessions -> BOOLEAN] /\ page \in [Sessions -> Nat]
  BY DEF IInv, TypeOK
<1>2. /\ \A i, j \in 1..Len(runners) : runners[i] = runners[j] => i = j
      /\ \A u \in Units : \A i \in 1..Len(runners) :
            NameHasPrefix(Prefix(u), runners[i]) => runners[i] \in made[u]
  BY DEF IInv, WorldInv
<1>3. \A s \in Sessions :
         step[s] = "list" /\ ~shifted[s] =>
              /\ page[s] * PageSize <= Len(runners)
              /\ \A i \in 1..Len(runners) :
                    /\ i <= page[s] * PageSize
                    /\ NameHasPrefix(PrefixOf(s), runners[i])
                    => BuildFromName(PrefixOf(s), runners[i]) \in Known(s)
  BY DEF IInv, PageInv, Pages
<1>4. \A s \in Sessions : page[s] * PageSize \in Nat
  BY <1>1, PlatformAssumption
<1>5. CASE NobodyLeaves
  <2>1. /\ runners' = runners /\ online' = online /\ busy' = busy
        /\ shifted' = shifted
    BY <1>5 DEF NobodyLeaves
  <2>2. Registered' = Registered
    BY <2>1 DEF Registered
  <2>3. PageKept
    BY <1>3, <2>1 DEF PageKept
  <2> QED
    BY <1>1, <1>2, <2>1, <2>2, <2>3
<1>6. ASSUME NEW i \in 1..Len(runners), Leave(i)
      PROVE  /\ runners' \in Seq(Names)
             /\ Registered' \subseteq Registered
             /\ online' \subseteq Registered' /\ busy' \subseteq Registered'
             /\ shifted' \in [Sessions -> BOOLEAN]
             /\ \A s \in Sessions : shifted[s] => shifted'[s]
             /\ \A u \in Units : \A j \in 1..Len(runners') :
                   NameHasPrefix(Prefix(u), runners'[j])
                   => runners'[j] \in made'[u]
             /\ \A j, k \in 1..Len(runners') :
                   runners'[j] = runners'[k] => j = k
             /\ PageKept
  <2>1. /\ runners' \in Seq(Names) /\ Len(runners') = Len(runners) - 1
        /\ \A j \in 1..Len(runners') :
              runners'[j] = IF j < i THEN runners[j] ELSE runners[j + 1]
    BY <1>1, <1>6, LeaveFact
  <2>2. /\ Registered' = Registered \ {runners[i]}
        /\ \A j, k \in 1..Len(runners') : runners'[j] = runners'[k] => j = k
        /\ \A j \in 1..Len(runners') : \E k \in 1..Len(runners) :
              runners'[j] = runners[k]
    BY <1>1, <1>2, <1>6, LeaverGone
  <2>3. /\ online' = online \ {runners[i]} /\ busy' = busy \ {runners[i]}
        /\ shifted' = [s \in Sessions |->
                          \/ shifted[s]
                          \/ step[s] = "list" /\ i <= page[s] * PageSize]
    BY <1>6 DEF Leave
  <2>4. /\ shifted' \in [Sessions -> BOOLEAN]
        /\ \A s \in Sessions : shifted[s] => shifted'[s]
        /\ \A s \in Sessions : step[s] = "list" /\ ~shifted'[s] =>
              ~shifted[s] /\ page[s] * PageSize < i
    BY <1>1, <1>4, <2>3
  <2>5. \A u \in Units : \A j \in 1..Len(runners') :
           NameHasPrefix(Prefix(u), runners'[j]) => runners'[j] \in made'[u]
    BY <1>2, <2>2
  <2>6. PageKept
    <3>1. SUFFICES ASSUME NEW s \in Sessions, step[s] = "list", ~shifted'[s]
                   PROVE  /\ page[s] * PageSize <= Len(runners')
                          /\ \A j \in 1..Len(runners') :
                                /\ j <= page[s] * PageSize
                                /\ NameHasPrefix(PrefixOf(s), runners'[j])
                                => BuildFromName(PrefixOf(s), runners'[j])
                                      \in Known(s)
      BY DEF PageKept
    <3>2. ~shifted[s] /\ page[s] * PageSize < i /\ page[s] * PageSize \in Nat
      BY <1>4, <2>4, <3>1
    <3>3. page[s] * PageSize <= Len(runners')
      BY <1>1, <2>1, <3>2
    <3>4. \A j \in 1..Len(runners') : j <= page[s] * PageSize =>
             j \in 1..Len(runners) /\ runners'[j] = runners[j]
      BY <1>1, <2>1, <3>2
    <3> QED
      BY <1>3, <3>1, <3>2, <3>3, <3>4
  <2> QED
    BY <1>1, <2>1, <2>2, <2>3, <2>4, <2>5, <2>6
<1> QED
  BY <1>5, <1>6 DEF SomebodyLeaves

(* A session that is left alone, but for its deletions, or put to rest.    *)
Rests(s) ==
    /\ listed'[s] = {} /\ found'[s] = {} /\ page'[s] = 0
    /\ targets'[s] = {} /\ wanted'[s] = {} /\ deleted'[s] = {} /\ step'[s] = "idle"
Stays(s) ==
    /\ listed'[s] = listed[s] /\ found'[s] = found[s] /\ page'[s] = page[s]
    /\ targets'[s] = targets[s] /\ wanted'[s] \subseteq wanted[s]
    /\ deleted'[s] \subseteq made[s[1]] /\ deleted'[s] \cap Registered' = {}
    /\ \/ step'[s] = step[s]
       \/ /\ step[s] \in {"idle", "launch", "undo"}
          /\ step'[s] \in {"idle", "launch", "undo"}

LEMMA CarriedFact ==
    ASSUME IInv, made' = made, SomebodyLeaves \/ NobodyLeaves,
           \A s \in Sessions : Rests(s) \/ Stays(s)
    PROVE  ClaimInv' /\ PageInv' /\ HealthIsTrue'
<1>1. /\ Registered' \subseteq Registered /\ PageKept
      /\ \A s \in Sessions : shifted[s] => shifted'[s]
  BY ShrinkFact
<1>2. ClaimInv'
  <2>1. SUFFICES ASSUME NEW s \in Sessions
                 PROVE  /\ listed'[s] \subseteq IDsOf(s[1])'
                        /\ Known(s)' \subseteq IDsOf(s[1])'
                        /\ targets'[s] \subseteq made'[s[1]]
                        /\ wanted'[s] \subseteq made'[s[1]]
                        /\ deleted'[s] \subseteq made'[s[1]]
                        /\ deleted'[s] \cap Registered' = {}
    BY DEF ClaimInv, Claims
  <2>2. /\ listed[s] \subseteq IDsOf(s[1]) /\ Known(s) \subseteq IDsOf(s[1])
        /\ targets[s] \subseteq made[s[1]] /\ wanted[s] \subseteq made[s[1]]
    BY DEF IInv, ClaimInv, Claims
  <2>3. IDsOf(s[1])' = IDsOf(s[1])
    BY DEF IDsOf
  <2>4. CASE Rests(s)
    BY <2>4 DEF Rests, Known
  <2>5. CASE Stays(s)
    <3>1. Known(s)' = Known(s)
      BY <2>5 DEF Stays, Known
    <3> QED
      BY <2>2, <2>3, <2>5, <3>1 DEF Stays
  <2> QED
    BY <2>4, <2>5
<1>3. PageInv'
  <2>1. SUFFICES ASSUME NEW s \in Sessions
                 PROVE  /\ step'[s] \in {"idle", "launch", "undo"} =>
                              page'[s] = 0
                        /\ step'[s] = "list" /\ ~shifted'[s] =>
                              /\ page'[s] * PageSize <= Len(runners')
                              /\ \A i \in 1..Len(runners') :
                                    /\ i <= page'[s] * PageSize
                                    /\ NameHasPrefix(PrefixOf(s), runners'[i])
                                    => BuildFromName(PrefixOf(s), runners'[i])
                                          \in Known(s)'
    BY DEF PageInv, Pages, PrefixOf, Prefix
  <2>2. step[s] \in {"idle", "launch", "undo"} => page[s] = 0
    BY DEF IInv, PageInv, Pages
  <2>3. CASE Rests(s)
    BY <2>3 DEF Rests
  <2>4. CASE Stays(s)
    <3>1. Known(s)' = Known(s)
      BY <2>4 DEF Stays, Known
    <3>2. step'[s] \in {"idle", "launch", "undo"} => page'[s] = 0
      BY <2>2, <2>4 DEF Stays
    <3>3. step'[s] = "list" => step[s] = "list" /\ page'[s] = page[s]
      BY <2>4 DEF Stays
    <3> QED
      BY <1>1, <3>1, <3>2, <3>3 DEF PageKept
  <2> QED
    BY <2>3, <2>4
<1>4. HealthIsTrue'
  <2>1. SUFFICES ASSUME NEW s \in Sessions, step'[s] = "choose", ~shifted'[s]
                 PROVE  {Name(id) : id \in Missing(s)'} \cap Registered' = {}
    BY DEF HealthIsTrue
  <2>2. Stays(s) /\ step[s] = "choose" /\ ~shifted[s]
    BY <1>1, <2>1 DEF Rests, Stays
  <2>3. Missing(s)' = Missing(s)
    BY <2>2 DEF Stays, Missing, Known
  <2>4. {Name(id) : id \in Missing(s)} \cap Registered = {}
    BY <2>2 DEF IInv, HealthIsTrue
  <2> QED
    BY <1>1, <2>3, <2>4
<1> QED
  BY <1>2, <1>3, <1>4

(* A creation that is left alone, or ends.                                 *)
Creates(u) ==
    step'[Loop(u)] \in {"launch", "undo"} =>
        step[Loop(u)] \in {"launch", "undo"} /\ new'[u] = new[u]

(* All that a step keeps that makes no instance and reads nothing.         *)
LEMMA QuietFact ==
    ASSUME IInv, made' = made, SomebodyLeaves \/ NobodyLeaves,
           \A s \in Sessions : Rests(s) \/ Stays(s),
           \A u \in Units : Creates(u),
           \A n \in servers' : n \in servers \/ \E u \in Units : n \in made[u]
    PROVE  MadeInv' /\ WorldInv' /\ NewInv' /\ ClaimInv' /\ PageInv'
           /\ HealthIsTrue'
<1>1. ClaimInv' /\ PageInv' /\ HealthIsTrue'
  BY CarriedFact
<1>2. MadeInv'
  BY DEF IInv, MadeInv, InstancesOf, Begin
<1>3. NewInv'
  <2>1. \A u \in Units : step[Loop(u)] \in {"launch", "undo"} => new[u] \in made[u]
    BY DEF IInv, NewInv
  <2> QED
    BY <2>1 DEF NewInv, Creates, Loop
<1>4. WorldInv'
  <2>1. \A n \in servers' : \E u \in Units : n \in made'[u]
    BY DEF IInv, WorldInv
  <2>2. /\ \A u \in Units : \A i \in 1..Len(runners') :
              NameHasPrefix(Prefix(u), runners'[i]) => runners'[i] \in made'[u]
        /\ \A i, j \in 1..Len(runners') : runners'[i] = runners'[j] => i = j
    BY ShrinkFact
  <2> QED
    BY <2>1, <2>2 DEF WorldInv
<1> QED
  BY <1>1, <1>2, <1>3, <1>4

(* A deletion leaves the runner gone.                                      *)
LEMMA DeleteFact ==
    ASSUME IInv, NEW n, Delete(n)
    PROVE  (SomebodyLeaves \/ NobodyLeaves) /\ n \notin Registered'
<1>1. CASE n \notin Registered
  BY <1>1 DEF Delete, NobodyLeaves, Registered
<1>2. CASE n \in Registered
  <2>1. PICK i \in 1..Len(runners) : runners[i] = n /\ Leave(i)
    BY <1>2 DEF Delete
  <2>2. Registered' = Registered \ {n}
    BY <2>1, LeaverGone DEF IInv, TypeOK, WorldInv
  <2> QED
    BY <2>1, <2>2 DEF SomebodyLeaves
<1> QED
  BY <1>1, <1>2

LEMMA NoNameFact == NoName \in Names
BY EmptySeq DEF NoName, Names

LEMMA LaunchStep ==
    ASSUME IInv, NEW u \in Units, Launch(u)
    PROVE  IInv'
<1>1. /\ step[Loop(u)] = "launch" /\ new[u] \in made[u]
      /\ new[u] \in Names /\ Loop(u) \in Sessions
  BY SessionFact DEF IInv, TypeOK, NewInv, Launch
<1>2. /\ made' = made /\ NobodyLeaves /\ locals' = locals
      /\ servers' \subseteq servers \cup {new[u]}
  BY DEF Launch, NobodyLeaves, github
<1>3. \A s \in Sessions : Stays(s)
  <2>1. \A s \in Sessions :
           step'[s] = step[s] \/ (s = Loop(u) /\ step'[s] \in {"idle", "undo"})
    BY DEF IInv, TypeOK, Launch
  <2>2. /\ Registered' = Registered
        /\ \A s \in Sessions : deleted[s] \subseteq made[s[1]]
                               /\ deleted[s] \cap Registered = {}
    BY <1>2 DEF NobodyLeaves, Registered, IInv, ClaimInv, Claims
  <2> QED
    BY <1>1, <1>2, <2>1, <2>2 DEF Stays, locals
<1>4. \A v \in Units : Creates(v)
  <2> TAKE v \in Units
  <2>1. CASE v = u
    BY <1>1, <2>1 DEF IInv, TypeOK, Launch, Creates
  <2>2. CASE v # u
    BY <1>1, <2>2, SessionFact DEF IInv, TypeOK, Launch, Creates
  <2> QED
    BY <2>1, <2>2
<1>5. TypeOK'
  <2>1. /\ servers' \subseteq Names /\ new' \in [Units -> Names]
        /\ call' \in [Sessions -> AllCalls \cup {"none"}]
        /\ step' \in [Sessions -> Steps]
        /\ faults' \in Nat
    <3>1. /\ servers \subseteq Names /\ new \in [Units -> Names] /\ faults \in Nat
          /\ call \in [Sessions -> AllCalls \cup {"none"}]
          /\ step \in [Sessions -> Steps]
      BY DEF IInv, TypeOK
    <3>2. \/ /\ call' = [call EXCEPT ![Loop(u)] = "none"]
             /\ step' = [step EXCEPT ![Loop(u)] = "idle"]
             /\ new' = [new EXCEPT ![u] = NoName]
             /\ faults' = faults
          \/ /\ faults > 0 /\ faults' = faults - 1
             /\ step' = [step EXCEPT ![Loop(u)] = "undo"]
             /\ call' = call /\ new' = new
      BY DEF Launch, Fault
    <3> QED
      BY <1>1, <1>2, <3>1, <3>2, NoNameFact DEF Steps
  <2> QED
    BY <1>2, <2>1 DEF IInv, TypeOK, NobodyLeaves, locals, Launch, github, Registered
<1>6. MadeInv' /\ WorldInv' /\ NewInv' /\ ClaimInv' /\ PageInv' /\ HealthIsTrue'
  BY <1>1, <1>2, <1>3, <1>4, QuietFact
<1> QED
  BY <1>5, <1>6 DEF IInv

LEMMA UndoStep ==
    ASSUME IInv, NEW u \in Units, Undo(u)
    PROVE  IInv'
<1>1. step[Loop(u)] = "undo" /\ Loop(u) \in Sessions
  BY SessionFact DEF Undo
<1>2. /\ made' = made /\ servers' = servers /\ locals' = locals
      /\ group' = group
      /\ call' = [call EXCEPT ![Loop(u)] = "none"]
      /\ step' = [step EXCEPT ![Loop(u)] = "idle"]
      /\ new' = [new EXCEPT ![u] = NoName]
      /\ faults' = faults \/ (faults > 0 /\ faults' = faults - 1)
  BY DEF Undo, Fault
<1>3. SomebodyLeaves \/ NobodyLeaves
  BY DeleteFact DEF Undo
<1>4. \A s \in Sessions : Stays(s)
  <2>1. \A s \in Sessions : step'[s] = step[s] \/ (s = Loop(u) /\ step'[s] = "idle")
    BY <1>2 DEF IInv, TypeOK
  <2>2. \A s \in Sessions : /\ deleted[s] \subseteq made[s[1]]
                            /\ deleted[s] \cap Registered' = {}
    BY <1>2, <1>3, ShrinkFact DEF IInv, ClaimInv, Claims
  <2> QED
    BY <1>1, <1>2, <2>1, <2>2 DEF Stays, locals
<1>5. \A v \in Units : Creates(v)
  <2> TAKE v \in Units
  <2>1. CASE v = u
    BY <1>1, <1>2, <2>1 DEF IInv, TypeOK, Creates
  <2>2. CASE v # u
    BY <1>1, <1>2, <2>2, SessionFact DEF IInv, TypeOK, Creates
  <2> QED
    BY <2>1, <2>2
<1>6. TypeOK'
  <2>1. /\ new' \in [Units -> Names] /\ faults' \in Nat
        /\ call' \in [Sessions -> AllCalls \cup {"none"}]
        /\ step' \in [Sessions -> Steps]
    <3>1. /\ new \in [Units -> Names] /\ faults \in Nat
          /\ call \in [Sessions -> AllCalls \cup {"none"}]
          /\ step \in [Sessions -> Steps]
      BY DEF IInv, TypeOK
    <3> QED
      BY <1>1, <1>2, <3>1, NoNameFact DEF Steps
  <2>2. /\ runners' \in Seq(Names)
        /\ online' \subseteq Registered' /\ busy' \subseteq Registered'
        /\ shifted' \in [Sessions -> BOOLEAN]
    BY <1>2, <1>3, ShrinkFact
  <2> QED
    BY <1>2, <2>1, <2>2 DEF IInv, TypeOK, locals
<1>7. MadeInv' /\ WorldInv' /\ NewInv' /\ ClaimInv' /\ PageInv' /\ HealthIsTrue'
  BY <1>2, <1>3, <1>4, <1>5, QuietFact
<1> QED
  BY <1>6, <1>7 DEF IInv

(* What TypeOK says of the sessions.                                       *)
SessionTypes ==
    /\ call \in [Sessions -> AllCalls \cup {"none"}]
    /\ step \in [Sessions -> Steps]
    /\ listed \in [Sessions -> SUBSET InstanceIDs]
    /\ page \in [Sessions -> Nat]
    /\ found \in [Sessions -> SUBSET Readings]
    /\ targets \in [Sessions -> SUBSET Names]
    /\ wanted \in [Sessions -> SUBSET Names]
    /\ deleted \in [Sessions -> SUBSET Names]
    /\ raised \in [Sessions -> BOOLEAN]
    /\ shifted \in [Sessions -> BOOLEAN]

Untouched(s) ==
    /\ step'[s] = step[s] /\ listed'[s] = listed[s] /\ page'[s] = page[s]
    /\ found'[s] = found[s] /\ targets'[s] = targets[s] /\ wanted'[s] = wanted[s]
    /\ deleted'[s] = deleted[s] /\ shifted'[s] = shifted[s]

(* Sessions that end, while nobody comes or leaves.                        *)
LEMMA RestStep ==
    ASSUME IInv, SessionTypes', new' \in [Units -> Names], faults' \in Nat,
           \A s \in Sessions : Rests(s) \/ Untouched(s),
           \A u \in Units : Creates(u),
           runners' = runners, group' = group, made' = made,
           online' \subseteq Registered, busy' \subseteq Registered,
           servers' \subseteq servers
    PROVE  IInv'
<1>1. /\ runners' = runners /\ online' \subseteq Registered'
      /\ busy' \subseteq Registered' /\ group' = group
      /\ made' = made /\ Registered' = Registered
  BY DEF Registered
<1>2. MadeInv' /\ WorldInv' /\ ClaimInv'
  <2>1. MadeInv' /\ WorldInv'
    BY <1>1 DEF IInv, MadeInv, WorldInv, Prefix, InstancesOf, Begin, NameHasPrefix
  <2>2. ClaimInv'
    <3>1. SUFFICES ASSUME NEW t \in Sessions
                   PROVE  /\ listed'[t] \subseteq IDsOf(t[1])
                          /\ Known(t)' \subseteq IDsOf(t[1])
                          /\ targets'[t] \subseteq made[t[1]]
                          /\ wanted'[t] \subseteq made[t[1]]
                          /\ deleted'[t] \subseteq made[t[1]]
                          /\ deleted'[t] \cap Registered = {}
      BY <1>1 DEF ClaimInv, Claims, IDsOf
    <3>2. CASE Rests(t)
      BY <3>2 DEF Rests, Known
    <3>3. CASE Untouched(t)
      BY <3>3 DEF Untouched, IInv, ClaimInv, Claims, Known
    <3> QED
      BY <3>2, <3>3
  <2> QED
    BY <2>1, <2>2
<1>3. NewInv'
  BY <1>1 DEF IInv, NewInv, Creates, Loop
<1>4. PageInv'
  <2>1. SUFFICES ASSUME NEW t \in Sessions
                 PROVE  /\ step'[t] \in {"idle", "launch", "undo"} =>
                              page'[t] = 0
                        /\ step'[t] = "list" /\ ~shifted'[t] =>
                              /\ page'[t] * PageSize <= Len(runners)
                              /\ \A i \in 1..Len(runners) :
                                    /\ i <= page'[t] * PageSize
                                    /\ NameHasPrefix(PrefixOf(t), runners[i])
                                    => BuildFromName(PrefixOf(t), runners[i])
                                          \in Known(t)'
    BY <1>1 DEF PageInv, Pages
  <2>2. CASE Rests(t)
    BY <2>2 DEF Rests
  <2>3. CASE Untouched(t)
    BY <2>3 DEF Untouched, IInv, PageInv, Pages, Known
  <2> QED
    BY <2>2, <2>3
<1>5. HealthIsTrue'
  <2>1. SUFFICES ASSUME NEW t \in Sessions, step'[t] = "choose", ~shifted'[t]
                 PROVE  {Name(id) : id \in Missing(t)'} \cap Registered = {}
    BY <1>1 DEF HealthIsTrue
  <2>2. Untouched(t)
    BY <2>1 DEF Rests
  <2> QED
    BY <2>1, <2>2 DEF Untouched, IInv, HealthIsTrue, Missing, Known
<1>6. TypeOK'
  BY <1>1 DEF IInv, TypeOK, SessionTypes
<1> QED
  BY <1>2, <1>3, <1>4, <1>5, <1>6 DEF IInv

(* AnswerCheck, CallRaises and DestroyServers.                             *)
LEMMA ReturnStep ==
    ASSUME IInv, NEW s \in Sessions, Return(s), servers' \subseteq servers,
           UNCHANGED <<github, made, new>>,
           faults' = faults \/ (faults > 0 /\ faults' = faults - 1)
    PROVE  IInv'
<1>1. SessionTypes /\ faults \in Nat /\ new \in [Units -> Names]
  BY DEF IInv, TypeOK, SessionTypes
<1>2. SessionTypes'
  BY <1>1 DEF Return, SessionTypes, Steps
<1>3. \A t \in Sessions : Rests(t) \/ Untouched(t)
  <2> TAKE t \in Sessions
  <2>1. CASE t = s
    BY <1>1, <2>1 DEF SessionTypes, Return, Rests
  <2>2. CASE t # s
    BY <1>1, <2>2 DEF SessionTypes, Return, Untouched
  <2> QED
    BY <2>1, <2>2
<1>4. \A u \in Units : Creates(u)
  BY <1>3, SessionFact DEF Rests, Untouched, Creates
<1>5. /\ runners' = runners /\ group' = group /\ made' = made
      /\ online' \subseteq Registered /\ busy' \subseteq Registered
  BY DEF github, IInv, TypeOK
<1> QED
  BY <1>1, <1>2, <1>3, <1>4, <1>5, RestStep

LEMMA CrashStep ==
    ASSUME IInv, NEW u \in Units, Crash(u)
    PROVE  IInv'
<1>1. SessionTypes /\ faults \in Nat /\ new \in [Units -> Names]
  BY DEF IInv, TypeOK, SessionTypes
<1>2. /\ faults' \in Nat /\ servers' = servers
      /\ new' = [new EXCEPT ![u] = NoName]
      /\ runners' = runners /\ group' = group /\ made' = made
      /\ online' \subseteq Registered /\ busy' \subseteq Registered
  BY <1>1 DEF Crash, Fault, github, IInv, TypeOK
<1>3. SessionTypes'
  BY <1>1 DEF Crash, SessionTypes, Steps
<1>4. \A s \in Sessions : Rests(s) \/ Untouched(s)
  <2> TAKE s \in Sessions
  <2>1. CASE s[1] = u
    BY <2>1 DEF Crash, Rests
  <2>2. CASE s[1] # u
    BY <1>1, <2>2 DEF Crash, Untouched
  <2> QED
    BY <2>1, <2>2
<1>5. \A v \in Units : Creates(v)
  <2> TAKE v \in Units
  <2>1. CASE v = u
    BY <2>1, SessionFact DEF Crash, Creates
  <2>2. CASE v # u
    BY <1>1, <1>2, <1>4, <2>2, SessionFact DEF Creates, Rests, Untouched
  <2> QED
    BY <2>1, <2>2
<1>6. new' \in [Units -> Names]
  BY <1>1, <1>2, NoNameFact
<1> QED
  BY <1>2, <1>3, <1>4, <1>5, <1>6, RestStep

-----------------------------------------------------------------------------
(* The environment and the deletions.                                      *)

LEMMA EnvironmentStep ==
    ASSUME IInv, Environment
    PROVE  IInv'
<1>1. SessionTypes /\ faults \in Nat /\ new \in [Units -> Names]
      /\ online \subseteq Registered /\ busy \subseteq Registered
  BY DEF IInv, TypeOK, SessionTypes
<1>2. UNCHANGED <<group, servers, made, new, call, step, locals>>
  BY DEF Environment, Connect, TakeJob, RunnerLeaves, Ours
<1>3. ASSUME NEW n \in Registered, Connect(n) \/ TakeJob(n)
      PROVE  IInv'
  <2>1. /\ runners' = runners /\ shifted' = shifted /\ faults' = faults
        /\ online' \subseteq Registered /\ busy' \subseteq Registered
    BY <1>1, <1>3 DEF Connect, TakeJob
  <2>2. SessionTypes'
    BY <1>1, <1>2, <2>1 DEF SessionTypes, locals
  <2>3. \A s \in Sessions : Untouched(s)
    BY <1>2, <2>1 DEF Untouched, locals
  <2>4. \A u \in Units : Creates(u)
    BY <1>2 DEF Creates
  <2> QED
    BY <1>1, <1>2, <2>1, <2>2, <2>3, <2>4, RestStep
<1>4. ASSUME NEW i \in 1..Len(runners), RunnerLeaves(i)
      PROVE  IInv'
  <2>1. SomebodyLeaves /\ faults' \in Nat
    BY <1>1, <1>4 DEF RunnerLeaves, SomebodyLeaves, Fault
  <2>2. /\ runners' \in Seq(Names)
        /\ online' \subseteq Registered' /\ busy' \subseteq Registered'
        /\ Registered' \subseteq Registered
        /\ shifted' \in [Sessions -> BOOLEAN]
    BY <1>2, <2>1, ShrinkFact
  <2>3. \A s \in Sessions : Stays(s)
    BY <1>2, <2>2 DEF IInv, ClaimInv, Claims, Stays, locals
  <2>4. \A u \in Units : Creates(u)
    BY <1>2 DEF Creates
  <2>5. MadeInv' /\ WorldInv' /\ NewInv' /\ ClaimInv' /\ PageInv' /\ HealthIsTrue'
    BY <1>2, <2>1, <2>3, <2>4, QuietFact
  <2>6. TypeOK'
    BY <1>2, <2>1, <2>2 DEF IInv, TypeOK, locals
  <2> QED
    BY <2>5, <2>6 DEF IInv
<1> QED
  BY <1>3, <1>4 DEF Environment

LEMMA DeleteStep ==
    ASSUME IInv, NEW s \in Sessions, NEW n \in wanted[s], DeleteRunner(s, n)
    PROVE  IInv'
<1>1. SessionTypes /\ faults \in Nat
  BY DEF IInv, TypeOK, SessionTypes
<1>2. n \in made[s[1]] /\ n \in Names
  BY <1>1 DEF IInv, ClaimInv, Claims, SessionTypes
<1>3. /\ UNCHANGED <<group, servers, made, new, call, step, listed, page, found,
                   targets>>
      /\ wanted' = [wanted EXCEPT ![s] = @ \ {n}]
      /\ raised' = raised \/ raised' = [raised EXCEPT ![s] = TRUE]
      /\ faults' \in Nat
  BY <1>1 DEF DeleteRunner, Fault
<1>4. /\ SomebodyLeaves \/ NobodyLeaves
      /\ \/ deleted' = deleted
         \/ /\ deleted' = [deleted EXCEPT ![s] = @ \cup {n}]
            /\ n \notin Registered'
  <2>1. CASE Deletable(n)
    <3>1. Confirmed(n) = {n}
      BY <2>1 DEF Confirmed
    <3> QED
      BY <2>1, <3>1, DeleteFact DEF DeleteRunner
  <2>2. CASE ~Deletable(n)
    <3>1. Confirmed(n) = {}
      BY <2>2 DEF Confirmed
    <3>2. NobodyLeaves
      BY <2>2 DEF DeleteRunner
    <3>3. deleted' = deleted
      BY <1>1, <3>1 DEF DeleteRunner, SessionTypes
    <3> QED
      BY <3>2, <3>3
  <2> QED
    BY <2>1, <2>2
<1>5. /\ runners' \in Seq(Names)
      /\ online' \subseteq Registered' /\ busy' \subseteq Registered'
      /\ Registered' \subseteq Registered
      /\ shifted' \in [Sessions -> BOOLEAN]
  BY <1>3, <1>4, ShrinkFact
<1>6. \A t \in Sessions : Stays(t)
  <2> TAKE t \in Sessions
  <2>1. wanted'[t] \subseteq wanted[t]
    BY <1>1, <1>3 DEF SessionTypes
  <2>2. deleted[t] \subseteq made[t[1]] /\ deleted[t] \cap Registered = {}
    BY DEF IInv, ClaimInv, Claims
  <2>3. deleted'[t] \subseteq deleted[t]
           \/ (t = s /\ deleted'[t] = deleted[t] \cup {n} /\ n \notin Registered')
    BY <1>1, <1>4 DEF SessionTypes
  <2>4. deleted'[t] \subseteq made[t[1]] /\ deleted'[t] \cap Registered' = {}
    BY <1>2, <1>5, <2>2, <2>3
  <2> QED
    BY <1>3, <2>1, <2>4 DEF Stays
<1>7. \A u \in Units : Creates(u)
  BY <1>3 DEF Creates
<1>8. MadeInv' /\ WorldInv' /\ NewInv' /\ ClaimInv' /\ PageInv' /\ HealthIsTrue'
  BY <1>3, <1>4, <1>6, <1>7, QuietFact
<1>9. TypeOK'
  <2>1. /\ wanted' \in [Sessions -> SUBSET Names]
        /\ deleted' \in [Sessions -> SUBSET Names]
        /\ raised' \in [Sessions -> BOOLEAN]
    <3>1. /\ wanted \in [Sessions -> SUBSET Names]
          /\ deleted \in [Sessions -> SUBSET Names]
          /\ raised \in [Sessions -> BOOLEAN]
      BY <1>1 DEF SessionTypes
    <3>2. wanted' \in [Sessions -> SUBSET Names]
      BY <1>3, <3>1
    <3>3. deleted' \in [Sessions -> SUBSET Names]
      BY <1>2, <1>4, <3>1
    <3>4. raised' \in [Sessions -> BOOLEAN]
      BY <1>3, <3>1
    <3> QED
      BY <3>2, <3>3, <3>4
  <2> QED
    BY <1>3, <1>5, <2>1 DEF IInv, TypeOK
<1> QED
  BY <1>8, <1>9 DEF IInv

-----------------------------------------------------------------------------
(* The steps that read.                                                    *)

(* One session moves while GitHub and the servers stand still.             *)
LEMMA MoveStep ==
    ASSUME IInv, NEW s \in Sessions, SessionTypes', faults' = faults,
           UNCHANGED <<github, servers, made, new>>,
           \A t \in Sessions : t # s => Untouched(t),
           step'[s] \in {"list", "choose", "delete"},
           Claims(s)', Pages(s)',
           step'[s] = "choose" /\ ~shifted'[s] =>
               {Name(id) : id \in Missing(s)'} \cap Registered = {}
    PROVE  IInv'
<1>1. /\ runners' = runners /\ online' = online /\ busy' = busy
      /\ group' = group /\ Registered' = Registered
  BY DEF github, Registered
<1>2. TypeOK'
  BY <1>1 DEF IInv, TypeOK, SessionTypes
<1>3. MadeInv' /\ WorldInv'
  BY <1>1 DEF IInv, MadeInv, WorldInv, Prefix, InstancesOf, Begin, NameHasPrefix
<1>4. NewInv'
  <2>1. \A u \in Units : step'[Loop(u)] \in {"launch", "undo"} =>
           step[Loop(u)] \in {"launch", "undo"}
    BY SessionFact DEF Untouched
  <2> QED
    BY <2>1 DEF IInv, NewInv, Loop
<1>5. ASSUME NEW t \in Sessions, t # s
      PROVE  Claims(t)' /\ Pages(t)' /\ Missing(t)' = Missing(t)
  <2>1. Untouched(t) /\ Known(t)' = Known(t) /\ IDsOf(t[1])' = IDsOf(t[1])
    BY <1>5 DEF Untouched, Known, IDsOf
  <2>2. Claims(t) /\ Pages(t)
    BY DEF IInv, ClaimInv, PageInv
  <2>3. Claims(t)'
    BY <1>1, <2>1, <2>2 DEF Claims, Untouched
  <2>4. Pages(t)'
    BY <1>1, <2>1, <2>2 DEF Pages, Untouched
  <2> QED
    BY <2>1, <2>3, <2>4 DEF Untouched, Missing
<1>6. ClaimInv' /\ PageInv'
  BY <1>5 DEF ClaimInv, PageInv
<1>7. HealthIsTrue'
  <2>1. SUFFICES ASSUME NEW t \in Sessions, step'[t] = "choose", ~shifted'[t]
                 PROVE  {Name(id) : id \in Missing(t)'} \cap Registered = {}
    BY <1>1 DEF HealthIsTrue
  <2>2. CASE t = s
    BY <2>1, <2>2
  <2>3. CASE t # s
    BY <1>5, <2>1, <2>3 DEF Untouched, IInv, HealthIsTrue
  <2> QED
    BY <2>2, <2>3
<1> QED
  BY <1>2, <1>3, <1>4, <1>6, <1>7 DEF IInv

LEMMA ListServersStep ==
    ASSUME IInv, NEW s \in Sessions, NEW c \in Listings(s), ListServers(s, c)
    PROVE  IInv'
<1>1. /\ SessionTypes /\ MadeInv /\ WorldInv /\ Claims(s) /\ Pages(s)
      /\ s[1] \in Units /\ c \in AllCalls
  BY SessionFact, UnitsAssumption
     DEF IInv, TypeOK, SessionTypes, ClaimInv, PageInv, Listings, AllCalls, DeletingCalls,
         HardCalls
<1> DEFINE L == {BuildFromName(PrefixOf(s), n) :
                    n \in {m \in servers : NameHasPrefix(PrefixOf(s), m)}}
<1>2. L \subseteq IDsOf(s[1]) /\ L \subseteq InstanceIDs
  <2>1. ASSUME NEW m \in servers, NameHasPrefix(Prefix(s[1]), m)
        PROVE  m \in made[s[1]]
    BY <1>1, <2>1, OwnName DEF WorldInv
  <2>2. L \subseteq IDsOf(s[1])
    BY <2>1 DEF IDsOf, PrefixOf
  <2> QED
    BY <1>1, <2>2, IDFact
<1> HIDE DEF L
<1>3. /\ call' = [call EXCEPT ![s] = c]
      /\ step' = [step EXCEPT ![s] = "list"]
      /\ listed' = [listed EXCEPT ![s] = L]
      /\ UNCHANGED <<github, servers, made, new, page, found, targets, wanted,
                     deleted, raised, shifted, faults>>
  BY DEF ListServers, L
<1>4. SessionTypes'
  BY <1>1, <1>2, <1>3 DEF SessionTypes, Steps
<1>5. \A t \in Sessions : t # s => Untouched(t)
  BY <1>1, <1>3 DEF SessionTypes, Untouched
<1>6. step'[s] = "list" /\ listed'[s] = L
  BY <1>1, <1>3 DEF SessionTypes
<1>7. Known(s)' = Known(s) /\ IDsOf(s[1])' = IDsOf(s[1])
  BY <1>3 DEF Known, IDsOf
<1>8. Registered' = Registered /\ runners' = runners
  BY <1>3 DEF github, Registered
<1>9. Claims(s)'
  BY <1>1, <1>2, <1>3, <1>6, <1>7, <1>8 DEF Claims
<1>10. Pages(s)'
  <2>1. page[s] = 0 /\ page'[s] = 0
    BY <1>1, <1>3 DEF Pages, ListServers
  <2>2. Len(runners) \in Nat /\ 0 * PageSize = 0
    BY PlatformAssumption DEF IInv, TypeOK
  <2> QED
    BY <1>6, <1>8, <2>1, <2>2 DEF Pages
<1> QED
  BY <1>3, <1>4, <1>5, <1>6, <1>9, <1>10, MoveStep

LEMMA ListPageStep ==
    ASSUME IInv, NEW s \in Sessions, ListPage(s)
    PROVE  IInv'
<1>1. /\ SessionTypes /\ MadeInv /\ WorldInv /\ Claims(s) /\ Pages(s)
      /\ s[1] \in Units /\ runners \in Seq(Names)
  BY SessionFact DEF IInv, TypeOK, SessionTypes, ClaimInv, PageInv
<1> DEFINE P == PrefixOf(s)
           Mine == {m \in Page(s) : NameHasPrefix(P, m)}
           Reading(n) == [id |-> BuildFromName(P, n),
                          online |-> n \in online, busy |-> n \in busy]
           F == {Reading(n) : n \in Mine}
           last == (page[s] + 1) * PageSize
<1>2. /\ found' = [found EXCEPT ![s] = @ \cup F]
      /\ page' = [page EXCEPT ![s] = @ + 1]
      /\ step' = [step EXCEPT ![s] = IF HasNext(s) THEN "list" ELSE "choose"]
      /\ step[s] = "list"
      /\ UNCHANGED <<github, servers, made, new, call, listed, targets, wanted,
                     deleted, raised, shifted, faults>>
  BY DEF ListPage
<1>3. \A n \in Mine : n \in made[s[1]] /\ BuildFromName(P, n) \in IDsOf(s[1])
  <2>1. \A n \in Page(s) : \E i \in 1..Len(runners) : n = runners[i]
    BY DEF Page
  <2>2. \A n \in Mine : n \in made[s[1]]
    BY <1>1, <2>1 DEF WorldInv, PrefixOf
  <2> QED
    BY <2>2 DEF IDsOf, PrefixOf
<1>4. \A n \in Mine : Reading(n) \in Readings /\ Reading(n).id = BuildFromName(P, n)
  <2>1. \A n \in Mine : BuildFromName(P, n) \in InstanceIDs
    BY <1>1, <1>3, IDFact
  <2> QED
    BY <2>1 DEF Readings
<1>5. /\ page[s] * PageSize \in Nat /\ last \in Nat /\ page[s] * PageSize <= last
      /\ page[s] \in Nat
  <2>1. page[s] \in Nat /\ PageSize \in Nat
    BY <1>1, PlatformAssumption DEF SessionTypes
  <2>2. last = page[s] * PageSize + PageSize
    BY <2>1
  <2>3. page[s] * PageSize \in Nat
    BY <2>1
  <2> QED
    BY <2>1, <2>2, <2>3
<1>6. \A i \in 1..Len(runners) :
         page[s] * PageSize < i /\ i <= last => runners[i] \in Page(s)
  BY DEF Page
<1>7. SessionTypes'
  <2>1. F \subseteq Readings
    BY <1>4
  <2> HIDE DEF F
  <2> QED
    BY <1>1, <1>2, <2>1 DEF SessionTypes, Steps
<1>8. \A t \in Sessions : t # s => Untouched(t)
  BY <1>1, <1>2 DEF SessionTypes, Untouched
<1>9. /\ found'[s] = found[s] \cup F /\ page'[s] = page[s] + 1
      /\ step'[s] = IF HasNext(s) THEN "list" ELSE "choose"
  BY <1>1, <1>2 DEF SessionTypes
<1>10. Known(s)' = Known(s) \cup {BuildFromName(P, n) : n \in Mine}
  <2>1. Known(s)' = {r.id : r \in found[s]} \cup {r.id : r \in F}
    BY <1>9 DEF Known
  <2>2. {r.id : r \in F} = {BuildFromName(P, n) : n \in Mine}
    BY <1>4
  <2> QED
    BY <2>1, <2>2 DEF Known
<1>11. ~shifted[s] =>
          \A i \in 1..Len(runners) :
              i <= last /\ NameHasPrefix(P, runners[i])
              => BuildFromName(P, runners[i]) \in Known(s)'
  <2>1. SUFFICES ASSUME ~shifted[s], NEW i \in 1..Len(runners), i <= last,
                        NameHasPrefix(P, runners[i])
                 PROVE  BuildFromName(P, runners[i]) \in Known(s)'
    OBVIOUS
  <2>2. CASE i <= page[s] * PageSize
    <3>1. BuildFromName(P, runners[i]) \in Known(s)
      BY <1>1, <1>2, <2>1, <2>2 DEF Pages
    <3> QED
      BY <1>10, <3>1
  <2>3. CASE page[s] * PageSize < i
    <3>1. runners[i] \in Mine
      BY <1>6, <2>1, <2>3
    <3> QED
      BY <1>10, <3>1
  <2> QED
    BY <1>5, <2>2, <2>3
<1> HIDE DEF Reading, F, Mine
<1>12. Registered' = Registered /\ runners' = runners /\ made' = made
       /\ shifted' = shifted
  BY <1>2 DEF github, Registered
<1>13. Claims(s)'
  <2>1. Known(s)' \subseteq IDsOf(s[1])
    BY <1>1, <1>3, <1>10 DEF Claims
  <2>2. IDsOf(s[1])' = IDsOf(s[1])
    BY <1>2 DEF IDsOf
  <2> QED
    BY <1>1, <1>2, <1>12, <2>1, <2>2 DEF Claims
<1>14. Pages(s)'
  <2>1. step'[s] = "list" => last <= Len(runners)
    BY <1>1, <1>5, <1>9 DEF HasNext
  <2>2. step'[s] \notin {"idle", "launch", "undo"}
    BY <1>9
  <2>3. page'[s] * PageSize = last
    BY <1>9
  <2>4. PrefixOf(s)' = P
    BY DEF PrefixOf, Prefix
  <2> HIDE DEF P, last
  <2>5. step'[s] = "list" /\ ~shifted'[s] =>
           /\ page'[s] * PageSize <= Len(runners')
           /\ \A i \in 1..Len(runners') :
                 /\ i <= page'[s] * PageSize
                 /\ NameHasPrefix(P, runners'[i])
                 => BuildFromName(P, runners'[i]) \in Known(s)'
    BY <1>11, <1>12, <2>1, <2>3
  <2> QED
    BY <2>2, <2>5 DEF Pages, P
<1>15. step'[s] = "choose" /\ ~shifted'[s] =>
          {Name(id) : id \in Missing(s)'} \cap Registered = {}
  <2>1. SUFFICES ASSUME step'[s] = "choose", ~shifted[s],
                        NEW id \in Missing(s)', Name(id) \in Registered
                 PROVE  FALSE
    BY <1>12
  <2>2. id \in listed[s] /\ id \notin Known(s)'
    BY <1>2, <2>1 DEF Missing
  <2>3. NameHasPrefix(P, Name(id)) /\ BuildFromName(P, Name(id)) = id
    BY <1>1, <2>2, IDFact DEF Claims, PrefixOf
  <2>4. PICK i \in 1..Len(runners) : runners[i] = Name(id)
    BY <2>1 DEF Registered, ToSet
  <2>5. i <= last
    BY <1>1, <1>5, <1>9, <2>1 DEF HasNext
  <2> QED
    BY <1>11, <2>1, <2>2, <2>3, <2>4, <2>5
<1> QED
  BY <1>2, <1>7, <1>8, <1>9, <1>13, <1>14, <1>15, MoveStep

LEMMA ChooseStep ==
    ASSUME IInv, NEW s \in Sessions, Choose(s)
    PROVE  IInv'
<1>1. /\ SessionTypes /\ MadeInv /\ Claims(s) /\ s[1] \in Units
  BY SessionFact DEF IInv, TypeOK, SessionTypes, ClaimInv
<1>2. PICK W \in SUBSET made[s[1]] :
         /\ targets' = [targets EXCEPT ![s] = W]
         /\ wanted' = [wanted EXCEPT ![s] = W]
  <2> DEFINE Chosen(ids) ==
                {Name(id) : id \in Dangling(s)} \cup ({Name(id) : id \in ids} \ Legacy)
  <2>1. PICK timedOut \in SUBSET listed[s], picked \in SUBSET listed[s] :
           LET chosen == Chosen(Missing(s) \cup timedOut \cup picked)
           IN  /\ targets' = [targets EXCEPT ![s] = chosen]
               /\ wanted' = [wanted EXCEPT ![s] = chosen]
    <3>1. PICK timedOut \in SUBSET listed[s], picked \in Picks(s) :
             LET chosen == Chosen(Missing(s) \cup timedOut \cup picked)
             IN  /\ targets' = [targets EXCEPT ![s] = chosen]
                 /\ wanted' = [wanted EXCEPT ![s] = chosen]
      BY DEF Choose
    <3>2. picked \in SUBSET listed[s]
      BY DEF Picks
    <3> QED
      BY <3>1, <3>2
  <2>2. /\ Dangling(s) \subseteq IDsOf(s[1])
        /\ Missing(s) \cup timedOut \cup picked \subseteq IDsOf(s[1])
    BY <1>1 DEF Claims, Dangling, Missing
  <2>3. Chosen(Missing(s) \cup timedOut \cup picked) \subseteq made[s[1]]
    BY <1>1, <2>2, IDFact
  <2> QED
    BY <2>1, <2>3
<1>3. /\ step' = [step EXCEPT ![s] = "delete"]
      /\ page' = [page EXCEPT ![s] = 0]
      /\ found' = [found EXCEPT ![s] = {}]
      /\ shifted' = [shifted EXCEPT ![s] = FALSE]
      /\ UNCHANGED <<github, servers, made, new, call, listed, deleted, raised,
                     faults>>
  BY DEF Choose
<1>4. made[s[1]] \subseteq Names
  BY <1>1, InstanceFact DEF MadeInv
<1>5. SessionTypes'
  <2>1. /\ targets' \in [Sessions -> SUBSET Names]
        /\ wanted' \in [Sessions -> SUBSET Names]
    BY <1>1, <1>2, <1>4 DEF SessionTypes
  <2>2. /\ step' \in [Sessions -> Steps] /\ page' \in [Sessions -> Nat]
        /\ found' \in [Sessions -> SUBSET Readings]
        /\ shifted' \in [Sessions -> BOOLEAN]
    BY <1>1, <1>3 DEF SessionTypes, Steps
  <2> QED
    BY <1>1, <1>3, <2>1, <2>2 DEF SessionTypes
<1>6. \A t \in Sessions : t # s => Untouched(t)
  BY <1>1, <1>2, <1>3 DEF SessionTypes, Untouched
<1>7. /\ step'[s] = "delete" /\ targets'[s] = W /\ wanted'[s] = W
      /\ found'[s] = {}
      /\ listed'[s] = listed[s] /\ deleted'[s] = deleted[s]
  BY <1>1, <1>2, <1>3 DEF SessionTypes
<1>8. Claims(s)'
  <2>1. Known(s)' = {} /\ IDsOf(s[1])' = IDsOf(s[1]) /\ Registered' = Registered
    BY <1>3, <1>7 DEF Known, IDsOf, github, Registered
  <2> QED
    BY <1>1, <1>3, <1>7, <2>1 DEF Claims
<1>9. Pages(s)'
  BY <1>7 DEF Pages
<1> QED
  BY <1>3, <1>5, <1>6, <1>7, <1>8, <1>9, MoveStep

LEMMA RegisterStep ==
    ASSUME IInv, NEW u \in Units, Register(u)
    PROVE  IInv'
<1>1. PICK token \in Tokens :
         LET n == Name(Build(Prefix(u), token))
         IN  /\ \A v \in Units : n \notin made[v]
             /\ made' = [made EXCEPT ![u] = @ \cup {n}]
             /\ runners' \in {runners, Append(runners, n)}
             /\ faults' = faults \/ (faults > 0 /\ faults' = faults - 1)
             /\ \/ UNCHANGED <<new, call, step>>
                \/ /\ new' = [new EXCEPT ![u] = n]
                   /\ call' = [call EXCEPT ![Loop(u)] = "create"]
                   /\ step' = [step EXCEPT ![Loop(u)] = "launch"]
  BY DEF Register, Fault
<1> DEFINE n == Name(Build(Prefix(u), token))
<1>2. n \in InstancesOf(u)
  BY BuiltFact
<1> HIDE DEF n
<1>3. /\ \A v \in Units : n \notin made[v]
      /\ made' = [made EXCEPT ![u] = @ \cup {n}]
      /\ runners' = runners \/ runners' = Append(runners, n)
      /\ faults' = faults \/ (faults > 0 /\ faults' = faults - 1)
      /\ \/ UNCHANGED <<new, call, step>>
         \/ /\ new' = [new EXCEPT ![u] = n]
            /\ call' = [call EXCEPT ![Loop(u)] = "create"]
            /\ step' = [step EXCEPT ![Loop(u)] = "launch"]
  BY <1>1 DEF n
<1>4. /\ n \in Names /\ NameHasPrefix(Prefix(u), n)
      /\ \A v \in Units : NameHasPrefix(Prefix(v), n) => v = u
  BY <1>2, InstanceFact, UnitsApart
<1>5. /\ UNCHANGED <<online, busy, group, servers, locals, shifted>>
      /\ step[Loop(u)] = "idle"
  BY DEF Register
<1>6. /\ SessionTypes /\ MadeInv /\ WorldInv /\ NewInv
      /\ runners \in Seq(Names) /\ made \in [Units -> SUBSET Names]
      /\ new \in [Units -> Names] /\ faults \in Nat
      /\ online \subseteq Registered /\ busy \subseteq Registered
      /\ \A s \in Sessions : s[1] \in Units
      /\ \A v \in Units : Loop(v) \in Sessions
      /\ \A v \in Units : Loop(v) = Loop(u) => v = u
  BY SessionFact DEF IInv, TypeOK, SessionTypes
<1>7. /\ made' \in [Units -> SUBSET Names]
      /\ \A v \in Units : made[v] \subseteq made'[v]
      /\ \A v \in Units : v # u => made'[v] = made[v]
      /\ made'[u] = made[u] \cup {n}
  BY <1>3, <1>4, <1>6
<1>8. /\ runners' \in Seq(Names) /\ Len(runners) <= Len(runners')
      /\ \A i \in 1..Len(runners) : runners'[i] = runners[i]
      /\ \A i \in 1..Len(runners') :
            i \in 1..Len(runners) \/ (i = Len(runners) + 1 /\ runners'[i] = n)
      /\ Registered \subseteq Registered'
      /\ Registered' \subseteq Registered \cup {n}
  <2>1. CASE runners' = runners
    BY <1>6, <2>1 DEF Registered
  <2>2. CASE runners' = Append(runners, n)
    <3>1. /\ runners' \in Seq(Names) /\ Len(runners') = Len(runners) + 1
          /\ \A i \in 1..Len(runners) : runners'[i] = runners[i]
          /\ runners'[Len(runners) + 1] = n
          /\ Registered' = Registered \cup {n}
      BY <1>4, <1>6, <2>2, AppendFact
    <3> QED
      BY <1>6, <3>1
  <2> QED
    BY <1>3, <2>1, <2>2
<1>9. \A i \in 1..Len(runners) : runners[i] # n
  BY <1>3, <1>4, <1>6 DEF WorldInv
<1>10. MadeInv'
  <2>1. \A v \in Units : InstancesOf(v)' = InstancesOf(v)
    BY DEF InstancesOf, Begin
  <2> QED
    BY <1>2, <1>6, <1>7, <2>1 DEF MadeInv
<1>11. WorldInv'
  <2>1. \A m \in servers' : \E v \in Units : m \in made'[v]
    BY <1>5, <1>6, <1>7 DEF WorldInv
  <2>2. ASSUME NEW v \in Units, NEW i \in 1..Len(runners'),
               NameHasPrefix(Prefix(v), runners'[i])
        PROVE  runners'[i] \in made'[v]
    <3>1. CASE i \in 1..Len(runners)
      BY <1>6, <1>7, <1>8, <2>2, <3>1 DEF WorldInv
    <3>2. CASE runners'[i] = n
      BY <1>4, <1>7, <2>2, <3>2
    <3> QED
      BY <1>8, <3>1, <3>2
  <2>3. \A i, j \in 1..Len(runners') : runners'[i] = runners'[j] => i = j
    <3>1. \A i, j \in 1..Len(runners) : runners[i] = runners[j] => i = j
      BY <1>6 DEF WorldInv
    <3> QED
      BY <1>8, <1>9, <3>1
  <2> QED
    BY <2>1, <2>2, <2>3 DEF WorldInv
<1>12. NewInv'
  <2>1. SUFFICES ASSUME NEW v \in Units, step'[Loop(v)] \in {"launch", "undo"}
                 PROVE  new'[v] \in made'[v]
    BY DEF NewInv, Loop
  <2>2. CASE UNCHANGED <<new, call, step>>
    BY <1>6, <1>7, <2>1, <2>2 DEF NewInv
  <2>3. CASE /\ new' = [new EXCEPT ![u] = n]
             /\ step' = [step EXCEPT ![Loop(u)] = "launch"]
    <3>1. CASE v = u
      BY <1>6, <1>7, <2>3, <3>1
    <3>2. CASE v # u
      BY <1>6, <1>7, <2>1, <2>3, <3>2 DEF NewInv, SessionTypes
    <3> QED
      BY <3>1, <3>2
  <2> QED
    BY <1>3, <2>2, <2>3
<1>13. ASSUME NEW s \in Sessions
       PROVE  /\ step'[s] = step[s] \/ (step[s] = "idle" /\ step'[s] = "launch")
              /\ Known(s)' = Known(s) /\ Missing(s)' = Missing(s)
              /\ \A id \in listed[s] : Name(id) # n
              /\ Claims(s) /\ Pages(s)
  <2>1. step'[s] = step[s] \/ (step[s] = "idle" /\ step'[s] = "launch")
    BY <1>3, <1>5, <1>6 DEF SessionTypes
  <2>2. Known(s)' = Known(s) /\ Missing(s)' = Missing(s)
    BY <1>5 DEF Known, Missing, locals
  <2>3. Claims(s) /\ Pages(s)
    BY DEF IInv, ClaimInv, PageInv
  <2>4. \A id \in listed[s] : Name(id) # n
    BY <1>3, <1>6, <2>3, IDFact DEF Claims
  <2> QED
    BY <2>1, <2>2, <2>3, <2>4
<1>14. ClaimInv'
  <2>1. SUFFICES ASSUME NEW s \in Sessions PROVE Claims(s)'
    BY DEF ClaimInv
  <2>2. IDsOf(s[1]) \subseteq IDsOf(s[1])'
    BY <1>6, <1>7 DEF IDsOf, Prefix, BuildFromName
  <2>3. Claims(s) /\ n \notin deleted[s]
    BY <1>3, <1>6, <1>13 DEF Claims
  <2> QED
    BY <1>5, <1>6, <1>7, <1>8, <1>13, <2>2, <2>3 DEF Claims, locals
<1>15. PageInv'
  <2>1. SUFFICES ASSUME NEW s \in Sessions PROVE Pages(s)'
    BY DEF PageInv
  <2>2. /\ page'[s] = page[s] /\ shifted'[s] = shifted[s]
        /\ page[s] * PageSize \in Nat /\ PrefixOf(s)' = PrefixOf(s)
    BY <1>5, <1>6, PlatformAssumption DEF locals, SessionTypes, PrefixOf, Prefix
  <2>3. step'[s] \in {"idle", "launch", "undo"} => page'[s] = 0
    BY <1>13, <2>2 DEF Pages
  <2>4. ASSUME step'[s] = "list", ~shifted'[s]
        PROVE  /\ page[s] * PageSize <= Len(runners')
               /\ \A i \in 1..Len(runners') :
                     /\ i <= page[s] * PageSize
                     /\ NameHasPrefix(PrefixOf(s), runners'[i])
                     => BuildFromName(PrefixOf(s), runners'[i]) \in Known(s)
    <3>1. /\ page[s] * PageSize <= Len(runners)
          /\ \A i \in 1..Len(runners) :
                /\ i <= page[s] * PageSize
                /\ NameHasPrefix(PrefixOf(s), runners[i])
                => BuildFromName(PrefixOf(s), runners[i]) \in Known(s)
      BY <1>13, <2>2, <2>4 DEF Pages
    <3>2. /\ Len(runners) \in Nat /\ Len(runners') \in Nat
      BY <1>6, <1>8
    <3>3. \A i \in 1..Len(runners') : i <= page[s] * PageSize =>
             i \in 1..Len(runners) /\ runners'[i] = runners[i]
      BY <1>8, <2>2, <3>1, <3>2
    <3> QED
      BY <1>8, <2>2, <3>1, <3>2, <3>3
  <2> QED
    BY <1>13, <2>2, <2>3, <2>4 DEF Pages
<1>16. HealthIsTrue'
  <2>1. SUFFICES ASSUME NEW s \in Sessions, step'[s] = "choose", ~shifted'[s]
                 PROVE  {Name(id) : id \in Missing(s)'} \cap Registered' = {}
    BY DEF HealthIsTrue
  <2>2. step[s] = "choose" /\ ~shifted[s]
    BY <1>5, <1>13, <2>1
  <2>3. {Name(id) : id \in Missing(s)} \cap Registered = {}
    BY <2>2 DEF IInv, HealthIsTrue
  <2>4. n \notin {Name(id) : id \in Missing(s)}
    BY <1>13 DEF Missing
  <2> QED
    BY <1>8, <1>13, <2>3, <2>4
<1>17. TypeOK'
  <2>1. /\ new' \in [Units -> Names] /\ faults' \in Nat
        /\ call' \in [Sessions -> AllCalls \cup {"none"}]
        /\ step' \in [Sessions -> Steps]
    <3>1. /\ call \in [Sessions -> AllCalls \cup {"none"}]
          /\ step \in [Sessions -> Steps] /\ faults \in Nat
          /\ new \in [Units -> Names]
      BY <1>6 DEF SessionTypes
    <3>2. "create" \in AllCalls /\ "launch" \in Steps
      BY DEF AllCalls, Steps
    <3>3. faults' \in Nat
      BY <1>3, <3>1
    <3>4. CASE UNCHANGED <<new, call, step>>
      BY <3>1, <3>3, <3>4
    <3>5. CASE /\ new' = [new EXCEPT ![u] = n]
               /\ call' = [call EXCEPT ![Loop(u)] = "create"]
               /\ step' = [step EXCEPT ![Loop(u)] = "launch"]
      BY <1>4, <1>6, <3>1, <3>2, <3>3, <3>5
    <3> QED
      BY <1>3, <3>4, <3>5
  <2> QED
    BY <1>5, <1>6, <1>7, <1>8, <2>1 DEF IInv, TypeOK, locals
<1> QED
  BY <1>10, <1>11, <1>12, <1>14, <1>15, <1>16, <1>17 DEF IInv

-----------------------------------------------------------------------------
(* The theorems.                                                           *)

LEMMA InitIInv == Init => IInv
<1> SUFFICES ASSUME Init PROVE IInv
  OBVIOUS
<1>1. /\ runners = AtStart /\ made = Earlier
      /\ servers = UNION {Earlier[u] : u \in Units}
  BY DEF Init
<1>2. SessionTypes /\ TypeOK
  <2>1. SessionTypes
    BY DEF Init, SessionTypes, Steps
  <2>2. new \in [Units -> Names]
    BY NoNameFact DEF Init
  <2>3. servers \subseteq Names /\ made \in [Units -> SUBSET Names]
    BY <1>1, EarlierAssumption
  <2>4. group \in BOOLEAN /\ online = {} /\ busy = {} /\ faults \in Nat
    BY PlatformAssumption DEF Init
  <2> QED
    BY <1>1, <2>1, <2>2, <2>3, <2>4, EarlierAssumption DEF SessionTypes, TypeOK
<1>3. MadeInv
  BY <1>1, EarlierAssumption DEF MadeInv
<1>4. WorldInv
  BY <1>1, EarlierAssumption, PrefixFact DEF WorldInv
<1>5. NewInv
  BY SessionFact DEF Init, NewInv
<1>6. \A s \in Sessions : Claims(s)
  BY DEF Init, Claims, Known
<1>7. \A s \in Sessions : Pages(s)
  BY DEF Init, Pages
<1>8. HealthIsTrue
  BY DEF Init, HealthIsTrue
<1> QED
  BY <1>2, <1>3, <1>4, <1>5, <1>6, <1>7, <1>8 DEF IInv, ClaimInv, PageInv

LEMMA StepIInv == IInv /\ [Next]_vars => IInv'
<1> SUFFICES ASSUME IInv, [Next]_vars PROVE IInv'
  OBVIOUS
<1>1. ASSUME NEW u \in Units, Unit(u) PROVE IInv'
  BY <1>1, RegisterStep, LaunchStep, UndoStep, CrashStep DEF Unit
<1>2. ASSUME NEW s \in Sessions, Session(s) PROVE IInv'
  <2>1. ASSUME NEW c \in Listings(s), ListServers(s, c) PROVE IInv'
    BY <2>1, ListServersStep
  <2>2. CASE ListPage(s)
    BY <2>2, ListPageStep
  <2>3. CASE Choose(s)
    BY <2>3, ChooseStep
  <2>4. CASE DestroyServers(s)
    <3>1. Return(s) /\ servers' \subseteq servers
          /\ UNCHANGED <<github, made, new>> /\ faults' = faults
      BY <2>4 DEF DestroyServers
    <3> QED
      BY <3>1, ReturnStep
  <2>5. CASE AnswerCheck(s)
    <3>1. Return(s) /\ servers' \subseteq servers
          /\ UNCHANGED <<github, made, new>> /\ faults' = faults
      BY <2>5 DEF AnswerCheck
    <3> QED
      BY <3>1, ReturnStep
  <2>6. CASE CallRaises(s)
    <3>1. Return(s) /\ servers' = servers /\ UNCHANGED <<github, made, new>>
      BY <2>6 DEF CallRaises
    <3>2. faults' = faults \/ (faults > 0 /\ faults' = faults - 1)
      BY <2>6 DEF CallRaises, Fault
    <3>3. servers' \subseteq servers
      BY <3>1
    <3> QED
      BY <3>1, <3>2, <3>3, ReturnStep
  <2>7. ASSUME NEW n \in wanted[s], DeleteRunner(s, n) PROVE IInv'
    BY <2>7, DeleteStep
  <2> QED
    BY <1>2, <2>1, <2>2, <2>3, <2>4, <2>5, <2>6, <2>7 DEF Session
<1>3. CASE Environment
  BY <1>3, EnvironmentStep
<1>4. CASE UNCHANGED vars
  <2>1. SessionTypes' /\ new' \in [Units -> Names] /\ faults' \in Nat
    BY <1>4 DEF vars, locals, IInv, TypeOK, SessionTypes
  <2>2. (\A s \in Sessions : Untouched(s)) /\ \A u \in Units : Creates(u)
    BY <1>4 DEF vars, locals, Untouched, Creates
  <2>3. /\ runners' = runners /\ group' = group /\ made' = made
        /\ online' \subseteq Registered /\ busy' \subseteq Registered
        /\ servers' \subseteq servers
    BY <1>4 DEF vars, github, IInv, TypeOK
  <2> QED
    BY <2>1, <2>2, <2>3, RestStep
<1> QED
  BY <1>1, <1>2, <1>3, <1>4 DEF Next

(* The inductive invariant of the units, their calls and the listings      *)
(* holds in every behaviour.                                               *)
THEOREM Invariance == Spec => []IInv
BY InitIInv, StepIInv, PTL DEF Spec

(* The variables keep their types, however many units share the path.      *)
THEOREM TypeCorrect == Spec => []TypeOK
<1>1. IInv => TypeOK
  BY DEF IInv
<1> QED
  BY <1>1, Invariance, PTL

(* No unit takes a runner or a server of another, or of anybody else, for  *)
(* its own: the prefix test of models.py tells them apart.                 *)
THEOREM OthersAreSafe == Spec => []ClaimsOwn
<1>1. IInv => ClaimsOwn
  <2> SUFFICES ASSUME IInv, NEW s \in Sessions
               PROVE  {Name(id) : id \in listed[s] \cup Known(s)}
                         \cup targets[s] \cup deleted[s] \subseteq made[s[1]]
    BY DEF ClaimsOwn
  <2>1. Claims(s) /\ MadeInv /\ s[1] \in Units
    BY SessionFact DEF IInv, ClaimInv
  <2>2. \A id \in listed[s] \cup Known(s) : Name(id) \in made[s[1]]
    BY <2>1, IDFact DEF Claims
  <2> QED
    BY <2>1, <2>2 DEF Claims
<1> QED
  BY <1>1, Invariance, PTL

(* The pages of list_runners make a runner look gone only if another left  *)
(* while they were read, for every size of a page.                         *)
THEOREM PagesAreEnough == Spec => []HealthIsTrue
<1>1. IInv => HealthIsTrue
  BY DEF IInv
<1> QED
  BY <1>1, Invariance, PTL

(* A unit destroys the server of a registered runner only if the server    *)
(* names no runner or a hard call chose the runner, though others register *)
(* and remove runners and agents take jobs meanwhile: Legacy and HardCalls *)
(* are the parts of _get_vms_to_cleanup that do not wait for GitHub.       *)
THEOREM NoRunnerLosesItsServer == Spec => ServersOutliveRunners
<1> DEFINE Spared ==
        \A n \in (servers \ servers') \cap Registered :
            \/ n \in Legacy
            \/ \E s \in Sessions : /\ call[s] \in HardCalls /\ call'[s] = "none"
                                  /\ n \in targets[s]
<1>1. IInv /\ [Next]_vars => [Spared]_vars
  <2> SUFFICES ASSUME IInv, Next PROVE Spared
    OBVIOUS
  <2>1. ASSUME NEW s \in Sessions, DestroyServers(s) PROVE Spared
    <3>1. deleted[s] \cap Registered = {}
      BY DEF IInv, ClaimInv, Claims
    <3>2. call'[s] = "none"
      BY <2>1 DEF DestroyServers, Return, IInv, TypeOK
    <3>3. servers' = servers \ Doomed(s)
      BY <2>1 DEF DestroyServers
    <3> SUFFICES ASSUME NEW n \in Doomed(s) \cap Registered, n \notin Legacy
                 PROVE  call[s] \in HardCalls /\ n \in targets[s]
      BY <3>2, <3>3
    <3> QED
      BY <3>1 DEF Doomed
  <2>2. ASSUME NEW s \in Sessions, Session(s), ~DestroyServers(s) PROVE Spared
    <3>1. servers' = servers
      BY <2>2 DEF Session, ListServers, ListPage, Choose, AnswerCheck, CallRaises,
                  DeleteRunner
    <3> QED
      BY <3>1
  <2>3. ASSUME NEW u \in Units, Unit(u) PROVE Spared
    <3>1. servers \subseteq servers'
      BY <2>3 DEF Unit, Register, Launch, Undo, Crash
    <3> QED
      BY <3>1
  <2>4. CASE Environment
    <3>1. servers' = servers
      BY <2>4 DEF Environment, Connect, TakeJob, RunnerLeaves, Ours
    <3> QED
      BY <3>1
  <2> QED
    BY <2>1, <2>2, <2>3, <2>4 DEF Next
<1> QED
  BY <1>1, Invariance, PTL DEF Spec, ServersOutliveRunners
=============================================================================
