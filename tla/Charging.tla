------------------------------- MODULE Charging -------------------------------
(***************************************************************************)
(* What a report from a node is charged as: src/internal/nodes/report.go.  *)
(* A node's usage coefficient is a price. A customer's charged total is    *)
(* shared among their files by what each carried, to the byte.             *)
(*                                                                         *)
(* A price is a pair <<over, under>>. Multiplying in floating point is     *)
(* taken to be exact; of the two directions, charged alike, one is here.   *)
(***************************************************************************)
EXTENDS Integers, FiniteSets, FiniteSetsExt

SumOf(g, S) == MapThenSumSet(LAMBDA x : g[x], S)

\* atLeastOne: traffic that happened is never charged as none.
AtLeastOne_Wrong(v, price) == (v * price[1]) \div price[2]

AtLeastOne(v, price) ==
    IF v > 0 /\ v * price[1] < price[2] THEN 1 ELSE (v * price[1]) \div price[2]

\* The bytes left over are forgotten.
Share_Wrong(total, carried, files, file) ==
    (total * carried[file]) \div SumOf(carried, files)

\* share: file's part of total when each file carried what carried says. What
\* rounding down leaves goes to the largest remainders, the earlier file first.
Share(total, carried, files, file) ==
    LET sum == SumOf(carried, files)
        exact(f) == total * carried[f]
        left == total - SumOf([f \in files |-> exact(f) \div sum], files)
        ahead(f) == \/ exact(f) % sum > exact(file) % sum
                    \/ exact(f) % sum = exact(file) % sum /\ f < file
    IN  exact(file) \div sum
        + IF Cardinality({f \in files : ahead(f)}) < left THEN 1 ELSE 0

\* chargeReport. files are the ones known to be the customer's; they are split
\* from the customer's total when they add up to it, and each converted on its
\* own when not.
ChargeFile(used, carried, files, file, price) ==
    IF used > 0 /\ file \in files /\ SumOf(carried, files) = used
    THEN Share(AtLeastOne(used, price), carried, files, file)
    ELSE AtLeastOne(carried[file], price)

\* What is owed of a charge: the files' parts are the customer's, each is
\* within a byte of its exact part, and nothing becomes free.
FairCharge(used, carried, files, price) ==
    LET total == AtLeastOne(used, price)
        part == [f \in files |-> ChargeFile(used, carried, files, f, price)]
    IN  SumOf(carried, files) = used /\ used > 0 =>
          /\ total > 0
          /\ SumOf(part, files) = total
          /\ \A f \in files : /\ part[f] * used < total * carried[f] + used
                              /\ part[f] * used > total * carried[f] - used
          /\ \A f, g \in files : carried[f] > carried[g] => part[f] >= part[g]
=============================================================================
