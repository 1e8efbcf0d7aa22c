----------------------------- MODULE InstanceID -----------------------------
(***************************************************************************)
(* The names that tell the runners of one unit from those of another       *)
(* (manager/models.py).  A name is the sequence of its parts between       *)
(* hyphens: a string begins with "app-1-" exactly when its parts begin     *)
(* with <<"app", "1">> and others follow.  Juju lets no part of an         *)
(* application's name be a number.                                         *)
(***************************************************************************)
EXTENDS Integers, Sequences

CONSTANTS
    Words,          \* parts of application names
    Numbers,        \* unit numbers
    Tokens          \* random suffixes, of one part each

ASSUME PartsAssumption ==
    /\ Words \cap Numbers = {}
    /\ {"r", "n"} \cap Tokens = {}

Parts == Words \cup Numbers \cup Tokens \cup {"r", "n"}
Names == Seq(Parts)

(* What an InstanceID holds; infix is <<>> but for servers of old releases.*)
Infixes == {<<>>, <<"r">>, <<"n">>}
InstanceIDs == [prefix : Names, infix : Infixes, suffix : Seq(Tokens)]

(* A unit of an application, "app/1" for Juju.                             *)
UnitNames == [app : Seq(Words), number : Numbers]

(* Mutant: the name of the application, without the number of the unit.    *)
PrefixOfApplication(u) == u.app

(* vm_prefix: the name of the unit, with a hyphen for the slash.           *)
Prefix(u) == Append(u.app, u.number)

(* name                                                                    *)
Name(id) == id.prefix \o id.infix \o id.suffix

(* name_has_prefix                                                         *)
NameHasPrefix(p, n) == Len(p) < Len(n) /\ SubSeq(n, 1, Len(p)) = p

(* Mutant: the infix of old releases is taken for a part of the suffix.    *)
BuildFromNamePlain(p, n) ==
    [prefix |-> p, infix |-> <<>>, suffix |-> SubSeq(n, Len(p) + 1, Len(n))]

(* build_from_name, for a name that has the prefix.                        *)
BuildFromName(p, n) ==
    LET rest == SubSeq(n, Len(p) + 1, Len(n))
        old == Len(rest) > 1 /\ rest[1] \in {"r", "n"}
    IN  [prefix |-> p,
         infix |-> IF old THEN <<rest[1]>> ELSE <<>>,
         suffix |-> IF old THEN Tail(rest) ELSE rest]

(* build                                                                   *)
Build(p, token) == [prefix |-> p, infix |-> <<>>, suffix |-> <<token>>]
=============================================================================
