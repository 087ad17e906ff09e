----------------------------- MODULE MCNodeSync -----------------------------
(* NodeSync with three tunnels, the last two of which take one slot,       *)
(* and three devices of two customers. Alice can have one on t1 and one   *)
(* on t3; Bob's is on t1, with the address of Alice's.                      *)
EXTENDS NodeSync

CONSTANTS t1, t2, t3, alice, bob

SlotOf == [t \in Tunnels |-> IF t = t1 THEN "wg0" ELSE "wg1"]
OnOf == <<t1, t3, t1>>
OwnerOf == <<alice, alice, bob>>
AddressOf == <<"a", "a", "a">>
HalfAgain == <<3, 2>>
=============================================================================
