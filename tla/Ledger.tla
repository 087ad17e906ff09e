-------------------------------- MODULE Ledger --------------------------------
(***************************************************************************)
(* What metering promises, with no kernel, tick or buffer in it: a byte a  *)
(* file carried is owed until it is billed, and it is billed once, to the  *)
(* file and to the file's customer together; a reset takes a customer's    *)
(* bill and their files' back to zero together; and nothing owed is lost   *)
(* while nothing has failed.                                               *)
(***************************************************************************)
EXTENDS Integers, FiniteSetsExt

CONSTANTS
    Clients, Files, Owner,
    MaxBatch        \* bound: bytes of one file in one step

VARIABLES
    owed,           \* by file: carried and not billed yet
    fileBill,       \* by file: billed
    bill,           \* by customer: billed
    failed          \* whether anything has failed yet

ledger == <<owed, fileBill, bill, failed>>

Batches == [Files -> 0 .. MaxBatch]

\* What the files of customer c make together of g.
Share(g, c) == MapThenSumSet(LAMBDA f : g[f], {f \in Files : Owner[f] = c})

Init ==
    /\ owed = [f \in Files |-> 0]
    /\ fileBill = [f \in Files |-> 0]
    /\ bill = [c \in Clients |-> 0]
    /\ failed = FALSE

Carry(f) ==
    /\ \E p \in 1 .. MaxBatch : owed' = [owed EXCEPT ![f] = @ + p]
    /\ UNCHANGED <<fileBill, bill, failed>>

Bill(g) ==
    /\ \A f \in Files : g[f] <= owed[f]
    /\ owed' = [f \in Files |-> owed[f] - g[f]]
    /\ fileBill' = [f \in Files |-> fileBill[f] + g[f]]
    /\ bill' = [c \in Clients |-> bill[c] + Share(g, c)]
    /\ UNCHANGED failed

Forgive(S) ==
    /\ fileBill' = [f \in Files |-> IF Owner[f] \in S THEN 0 ELSE fileBill[f]]
    /\ bill' = [c \in Clients |-> IF c \in S THEN 0 ELSE bill[c]]
    /\ UNCHANGED <<owed, failed>>

\* Something failed, now or before, and what was owed may be less for it.
Lose(g) ==
    /\ failed' = TRUE
    /\ \A f \in Files : g[f] <= owed[f]
    /\ owed' = [f \in Files |-> owed[f] - g[f]]
    /\ UNCHANGED <<fileBill, bill>>

Next ==
    \/ \E f \in Files : Carry(f)
    \/ \E g \in Batches : Bill(g) \/ Lose(g)
    \/ \E S \in SUBSET Clients : Forgive(S)

Spec == Init /\ [][Next]_ledger
=============================================================================
