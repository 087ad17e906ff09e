---------------------------- MODULE MCOperators ----------------------------
(* An admin with an allowance, and a reseller of theirs with a term on hold. *)
EXTENDS Operators

CONSTANTS theAdmin, theReseller, theOwner

OneEach == [o \in {theAdmin, theReseller} |-> IF o = theReseller THEN theAdmin ELSE theOwner]

AllowanceAndTerm ==
    [o \in {theAdmin, theReseller} |->
       {IF o = theReseller THEN [limit |-> 3, quota |-> 0, days |-> 1, expires |-> -1]
                 ELSE [limit |-> 3, quota |-> 1, days |-> 0, expires |-> -1]}]

\* Switched off and on, a day more, the allowance given again.
Some == {[what |-> "enabled", to |-> b] : b \in BOOLEAN}
        \cup {[what |-> "extend", to |-> 1], [what |-> "reset", to |-> 0]}
=============================================================================
