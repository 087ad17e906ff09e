------------------------------ MODULE MCCustomers ------------------------------
(***************************************************************************)
(* Instances of Customers for TLC: one customer, months of three and two   *)
(* days, and the edits that move a plan's date, its start and its switch.  *)
(***************************************************************************)
EXTENDS Customers

CONSTANTS c1, q1

Threes == <<0, 3, 5, 8, 11>>

Dated == [quota |-> 1, expires |-> 3, start |-> FALSE, days |-> 0,
          cycle |-> "monthly", status |-> "active"]
OnFirstUse == [quota |-> 1, expires |-> None, start |-> TRUE, days |-> 2,
               cycle |-> "none", status |-> "active"]
SoldPlans == {Dated, OnFirstUse}

Nothing == [quota |-> Keep, expires |-> Keep, start |-> Keep, days |-> Keep,
            cycle |-> Keep, status |-> Keep]
Defer == [Nothing EXCEPT !.start = TRUE, !.days = 1]
Date == [Nothing EXCEPT !.start = FALSE, !.expires = 4]
Off == [Nothing EXCEPT !.status = "disabled"]
SentUpdates == {Defer, Date, Off}
================================================================================
