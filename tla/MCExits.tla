------------------------------- MODULE MCExits --------------------------------
(* Two outbounds, the second an openvpn process, and a balancer of both that *)
(* falls back to the first.                                                  *)
EXTENDS Exits

TheMembers == [b \in Balancers |-> Outbounds]
ThePings == {Failed, 1}
TheFallback == [b \in Balancers |-> 1]
=============================================================================
