------------------------------ MODULE MCAddresses ------------------------------
(***************************************************************************)
(* Instances of Addresses for TLC: subnets with room for two to four       *)
(* devices, so that the pool fills up and its cursor comes round.          *)
(***************************************************************************)
EXTENDS Addresses

TwoSubnets == {[base |-> 8, size |-> 5], [base |-> 16, size |-> 5]}
Sizes == {[base |-> 8, size |-> 8], [base |-> 12, size |-> 5]}
First == CHOOSE s \in Subnets : s.base = 8
OddAndEven == [d \in Devices |-> IF d % 2 = 0 THEN "even" ELSE "odd"]
TheOne == [d \in Devices |-> "odd"]
=============================================================================
