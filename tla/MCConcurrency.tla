---------------------------- MODULE MCConcurrency ----------------------------
(***************************************************************************)
(* One customer, in two situations: a device on the panel and two on the   *)
(* node, each used from one place; and one device of the node carried      *)
(* about, with a database of one connection.                               *)
(***************************************************************************)
EXTENDS Concurrency

CONSTANTS home, away

Together == /\ ~oneConnection /\ excused = {}
            /\ \A d \in Devices : away \notin using[d]
            /\ switches <= 1

Carried == /\ oneConnection
           /\ \A d \in Devices \ {3} : using[d] = {}
           /\ now <= 4

Situation == Together \/ Carried
=============================================================================
