------------------------------ MODULE MCMetering ------------------------------
(***************************************************************************)
(* Instances of Metering for TLC: one customer with one or two files.      *)
(***************************************************************************)
EXTENDS Metering, TLC

CONSTANTS c1, f1, f2

OneOwner == (f1 :> c1) @@ (f2 :> c1)
OneFile == (f1 :> c1)

\* An operator gives one unit of traffic, or takes three back.
OneUpThreeDown == {-3, 1}

Quota2 == (c1 :> 2)
Quota3 == (c1 :> 3)

=============================================================================
