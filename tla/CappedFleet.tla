----------------------------- MODULE CappedFleet -----------------------------
(***************************************************************************)
(* What the two scaling loops promise together about the fleet: servers    *)
(* are ordered by one call at a time, and no call orders servers beyond    *)
(* the cap.  Servers that no call reported, strays, may be there on top,   *)
(* until the fleet is counted again.  How the loops know how many servers  *)
(* there are, how they exclude each other and when they act is left open.  *)
(***************************************************************************)
EXTENDS Integers, TLAPS

CONSTANT Cap        \* 0, or less, for none

VARIABLES
    fleet,          \* servers that are up
    calls,          \* create calls under way
    ordered,        \* servers that are ordered and neither up nor given up
    delivered,      \* servers that came up for the call under way
    lost,           \* orders given up that may still yield a server
    strays          \* servers since the last count that no call reported

fleets == <<fleet, calls, ordered, delivered, lost, strays>>

Allowed(n) == Cap > 0 => n <= Cap

Init ==
    /\ fleet \in Nat
    /\ calls = {} /\ ordered = 0 /\ delivered = 0
    /\ lost = 0 /\ strays = 0

Order ==
    /\ calls = {} /\ calls' # {}
    /\ ordered' \in Nat \ {0} /\ Allowed(fleet + ordered' - strays)
    /\ UNCHANGED <<fleet, delivered, lost, strays>>

(* The servers are counted, and the missing ones may be ordered.           *)
Count ==
    /\ calls = {}
    /\ strays' = 0
    /\ \/ calls' = {} /\ ordered' = 0
       \/ /\ calls' # {}
          /\ ordered' \in Nat \ {0} /\ Allowed(fleet + ordered')
    /\ UNCHANGED <<fleet, delivered, lost>>

Deliver ==
    /\ ordered > 0
    /\ ordered' = ordered - 1
    /\ fleet' = fleet + 1 /\ delivered' = delivered + 1
    /\ UNCHANGED <<calls, lost, strays>>

GiveUp ==
    /\ ordered > 0
    /\ ordered' = ordered - 1 /\ lost' = lost + 1
    /\ UNCHANGED <<fleet, calls, delivered, strays>>

Report ==
    /\ calls # {} /\ ordered = 0
    /\ calls' = {} /\ delivered' = 0
    /\ UNCHANGED <<fleet, ordered, lost, strays>>

(* A call that ends without a report.                                      *)
Abandon ==
    /\ calls # {}
    /\ calls' = {} /\ ordered' = 0 /\ delivered' = 0
    /\ strays' = strays + delivered /\ lost' = lost + ordered
    /\ UNCHANGED fleet

Shrink ==
    /\ fleet' \in 0..fleet
    /\ UNCHANGED <<calls, ordered, delivered, lost, strays>>

Appear ==
    /\ lost > 0
    /\ lost' = lost - 1
    /\ fleet' = fleet + 1 /\ strays' = strays + 1
    /\ UNCHANGED <<calls, ordered, delivered>>

Lapse ==
    /\ lost > 0
    /\ lost' = lost - 1
    /\ UNCHANGED <<fleet, calls, ordered, delivered, strays>>

Next == \/ Order \/ Count \/ Deliver \/ GiveUp \/ Report \/ Abandon
        \/ Shrink \/ Appear \/ Lapse

Spec == Init /\ [][Next]_fleets

-----------------------------------------------------------------------------
(* While a call is under way, the servers there are and those it may still *)
(* make stay within the cap, strays aside.                                 *)
CapKept == calls # {} => Allowed(fleet + ordered - strays)

Amounts == /\ {fleet, ordered, delivered, lost, strays} \subseteq Nat
           /\ calls = {} => ordered = 0 /\ delivered = 0

(* CapKept holds of whatever implements this module: what Order and Count  *)
(* demand of the handlers of the two loops is enough to keep max_pressure. *)
THEOREM CapStays == ASSUME Cap \in Int PROVE Spec => []CapKept
<1>1. Init => Amounts /\ CapKept
  BY DEF Init, Amounts, CapKept
<1>2. Amounts /\ CapKept /\ [Next]_fleets => Amounts' /\ CapKept'
  <2> SUFFICES ASSUME Amounts, CapKept, [Next]_fleets
               PROVE  Amounts' /\ CapKept'
    OBVIOUS
  <2> USE DEF Amounts, CapKept, Allowed
  <2>1. CASE Order
    BY <2>1 DEF Order
  <2>2. CASE Count
    BY <2>2 DEF Count
  <2>3. CASE Deliver
    BY <2>3 DEF Deliver
  <2>4. CASE GiveUp
    BY <2>4 DEF GiveUp
  <2>5. CASE Report
    BY <2>5 DEF Report
  <2>6. CASE Abandon
    BY <2>6 DEF Abandon
  <2>7. CASE Shrink
    BY <2>7 DEF Shrink
  <2>8. CASE Appear
    BY <2>8 DEF Appear
  <2>9. CASE Lapse
    BY <2>9 DEF Lapse
  <2>10. CASE UNCHANGED fleets
    BY <2>10 DEF fleets
  <2>. QED  BY <2>1, <2>2, <2>3, <2>4, <2>5, <2>6, <2>7, <2>8, <2>9, <2>10
            DEF Next
<1>. QED  BY <1>1, <1>2, PTL DEF Spec
=============================================================================
