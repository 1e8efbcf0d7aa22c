---------------------------- MODULE PortRegistry ----------------------------
(***************************************************************************)
(* What the units of one machine are promised of their HTTP ports: a unit  *)
(* gets a port in one step, one that no other unit has or else its base    *)
(* port, and keeps it until the unit gives it up.  How units keep out of   *)
(* each other's way, and what happens when one of them dies on the way, is *)
(* left open.                                                              *)
(***************************************************************************)
EXTENDS Integers

CONSTANTS Units, Base, Span, None

VARIABLES
    owned,          \* the port of each unit, or None
    shared          \* units that got their base port for want of a free one

registry == <<owned, shared>>

Init == owned = [u \in Units |-> None] /\ shared = {}

Allocate(u) ==
    /\ owned[u] = None
    /\ \E p \in (Base[u] .. Base[u] + Span) \ {owned[v] : v \in Units} :
          owned' = [owned EXCEPT ![u] = p]
    /\ UNCHANGED shared

FallBack(u) ==
    /\ owned[u] = None
    /\ owned' = [owned EXCEPT ![u] = Base[u]]
    /\ shared' = shared \cup {u}

Release(u) ==
    /\ owned[u] # None
    /\ owned' = [owned EXCEPT ![u] = None]
    /\ shared' = shared \ {u}

Next == \E u \in Units : Allocate(u) \/ FallBack(u) \/ Release(u)

Spec == Init /\ [][Next]_registry
=============================================================================
