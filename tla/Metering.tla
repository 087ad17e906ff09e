------------------------------- MODULE Metering -------------------------------
(***************************************************************************)
(* How w-ui counts what a customer carries, writes it to the database and  *)
(* has the kernel stop the customer at their allowance.                    *)
(*                                                                         *)
(* Four actors share this state and none waits for another:                *)
(*   - the kernel, which counts each file's packets and drops the packet   *)
(*     that crosses a customer's quota (src/internal/enforce);             *)
(*   - the reconciler's tick: drain the counters, renew plans, cut off who *)
(*     ran out, program the kernel (src/internal/reconciler);              *)
(*   - the traffic writer, which gathers usage in memory and flushes it to *)
(*     the database every few seconds (reconciler/traffic.go);             *)
(*   - operators, who edit the same rows (src/internal/service).           *)
(*                                                                         *)
(* A file is one device's configuration (a row of accounts); a customer    *)
(* owns several and their usage is the sum of what their files carried.    *)
(* A byte here is any unit of traffic.                                     *)
(*                                                                         *)
(* An operator whose name ends in _Wrong is not part of the specification: *)
(* it is the definition after it with a mistake made, for seeing that the  *)
(* properties tell the two apart.                                          *)
(***************************************************************************)
EXTENDS Integers, FiniteSets, FiniteSetsExt

CONSTANTS
    Clients,        \* the customers
    Files,          \* the files of all of them
    Owner,          \* the customer a file belongs to
    FirstQuota,     \* each customer's allowance at the start; 0 is unlimited
    Packets,        \* the sizes a packet can have
    Near,           \* nearLimit: more than the biggest packet
    DriftEvery,     \* the kernel's tallies are read every so many applies
    StoredAhead,    \* drift margin, the stored usage ahead of the tally
    KernelAhead,    \* drift margin, the tally ahead of the stored usage
    Raises,         \* amounts by which an operator changes an allowance
    Allowed,        \* what else happens: a set of Happenings
    MaxServed,      \* bound: bytes one file carries
    MaxTrail,       \* bound: how far stored usage is taken to trail
    MaxFaults,      \* bound: faults
    MaxEdits        \* bound: operators' edits, periods and terms ending

\* What an instance may have happen besides packets and the panel's own work.
Happenings == {"node", "reset", "enable", "disable", "raise", "period", "term",
               "wipe", "nft", "db", "crash", "stop"}

ASSUME MeteringAssumption ==
    /\ IsFiniteSet(Clients) /\ IsFiniteSet(Files)
    /\ Owner \in [Files -> Clients]
    /\ FirstQuota \in [Clients -> Nat]
    /\ Packets \subseteq Nat \ {0}
    /\ Near \in Nat \ {0} /\ \A p \in Packets : p < Near
    /\ DriftEvery \in Nat \ {0}
    /\ StoredAhead \in Nat /\ KernelAhead \in Nat
    /\ Raises \subseteq Int
    /\ Allowed \subseteq Happenings
    /\ {MaxServed, MaxTrail, MaxFaults, MaxEdits} \subseteq Nat

VARIABLES
    \* the kernel: the panel's nftables table
    table,          \* whether it is there
    limit,          \* each customer's quota object: its limit, 0 for none
    tally,          \* and what it has used, as the kernel reports it
    blocked,        \* whether the customer's chains are a bare drop
    counter,        \* each file's counter
    \* the enforcer: what it remembers of the table
    known,          \* NFTables.state is not nil
    seen,           \* clientState.seen: the stored usage on the last apply
    applies,        \* NFTables.applies, modulo DriftEvery
    \* the tick
    pc,             \* where the pass is
    toDrain,        \* the counters the dump has still to read and zero
    drained,        \* what the dump read, by file
    bytes,          \* and by customer
    plan,           \* the status renew read for each plan that is due
    zeroing,        \* customers renewed whose files are still to be zeroed
    near,           \* customers close to their limit: used plus agree; or 0
    spent,          \* customers whose quota the kernel holds spent
    rules,          \* the desired state as readDesired read it
    \* the traffic writer
    usage, devices, \* what is buffered, by customer and by file
    fpc,            \* where the flush is
    takenUsage, takenDevices,   \* what the flush under way took
    \* the database
    used, fileUsed, quota, status,
    due,            \* customers whose period has ended since last_reset_at
    ended,          \* customers whose expires_at has passed
    \* the panel's process
    up,
    resetting,      \* the status that a reset under way read of a customer
    \* what only the properties read
    served,         \* bytes each file carried
    lost,           \* of those, the ones that will never be billed
    forgiven,       \* of those, the ones billed and then reset to zero
    faults, edits   \* how many there have been

kernelVars == <<table, limit, tally, blocked, counter>>
enforcerVars == <<known, seen, applies>>
drainVars == <<toDrain, drained, bytes>>
evalVars == <<plan, zeroing, near, spent>>
bufferVars == <<usage, devices>>
flushVars == <<fpc, takenUsage, takenDevices>>
panel == <<up, resetting>>
dbVars == <<used, fileUsed, quota, status, due, ended>>
ghostVars == <<served, lost, forgiven, faults, edits>>
vars == <<kernelVars, enforcerVars, pc, drainVars, evalVars, rules,
          bufferVars, flushVars, dbVars, panel, ghostVars>>

-----------------------------------------------------------------------------
(* Values.                                                                 *)

Statuses == {"active", "disabled", "exhausted", "expired"}

NoClients == [c \in Clients |-> 0]
NoFiles == [f \in Files |-> 0]
NoPlan == [c \in Clients |-> "none"]
NoRules == [c \in Clients |-> [quota |-> 0, used |-> 0, blocked |-> FALSE]]

FilesOf(c) == {f \in Files : Owner[f] = c}

\* Pointwise sum of two functions over the same domain.
Plus(g, h) == [x \in DOMAIN g |-> g[x] + h[x]]

Smaller(a, b) == IF a <= b THEN a ELSE b
Larger(a, b) == IF a >= b THEN a ELSE b

Running == up = "running"
Fault == faults < MaxFaults /\ faults' = faults + 1
Edit == edits < MaxEdits /\ edits' = edits + 1

Init ==
    /\ table = FALSE /\ limit = NoClients /\ tally = NoClients
    /\ blocked = [c \in Clients |-> FALSE] /\ counter = NoFiles
    /\ known = FALSE /\ seen = NoClients /\ applies = 0
    /\ pc = "idle" /\ toDrain = {} /\ drained = NoFiles /\ bytes = NoClients
    /\ plan = NoPlan /\ zeroing = {} /\ near = NoClients /\ spent = {}
    /\ rules = NoRules
    /\ usage = NoClients /\ devices = NoFiles
    /\ fpc = "wait" /\ takenUsage = NoClients /\ takenDevices = NoFiles
    /\ used = NoClients /\ fileUsed = NoFiles /\ quota = FirstQuota
    /\ status = [c \in Clients |-> "active"] /\ due = {} /\ ended = {}
    /\ up = "running" /\ resetting = NoPlan
    /\ served = NoFiles /\ lost = NoFiles /\ forgiven = NoFiles
    /\ faults = 0 /\ edits = 0

-----------------------------------------------------------------------------
(* The kernel.  A chain is the quota rule, then the file's counter: a      *)
(* packet over the quota is dropped and its file never counts it.          *)

Carry(f, p) ==
    /\ served[f] + p <= MaxServed
    /\ served' = [served EXCEPT ![f] = @ + p]

\* Kernels differ on the packet that lands on the limit exactly: a newer one
\* lets it through, an older one drops it.
PacketPasses(f, p) ==
    LET c == Owner[f] IN
    /\ table /\ ~blocked[c]
    /\ limit[c] = 0 \/ tally[c] + p <= limit[c]
    /\ Carry(f, p)
    /\ counter' = [counter EXCEPT ![f] = @ + p]
    /\ tally' = IF limit[c] = 0 THEN tally ELSE [tally EXCEPT ![c] = @ + p]
    /\ UNCHANGED <<table, limit, blocked, enforcerVars, pc, drainVars, evalVars,
                   rules, bufferVars, flushVars, dbVars, panel, lost, forgiven,
                   faults, edits>>

\* The quota counts a dropped packet too, and reports no more than its limit.
PacketDropped(f, p) ==
    LET c == Owner[f] IN
    /\ table /\ ~blocked[c]
    /\ tally[c] < limit[c] /\ tally[c] + p >= limit[c]
    /\ tally' = [tally EXCEPT ![c] = limit[c]]
    /\ UNCHANGED <<table, limit, blocked, counter, enforcerVars, pc, drainVars,
                   evalVars, rules, bufferVars, flushVars, dbVars, panel, ghostVars>>

\* A firewall reload elsewhere on the server flushes the whole ruleset.
TableWiped ==
    /\ "wipe" \in Allowed /\ Fault
    /\ table
    /\ table' = FALSE
    /\ lost' = Plus(lost, counter)
    /\ counter' = NoFiles /\ limit' = NoClients /\ tally' = NoClients
    /\ blocked' = [c \in Clients |-> FALSE]
    /\ UNCHANGED <<enforcerVars, pc, drainVars, evalVars, rules, bufferVars,
                   flushVars, dbVars, panel, served, forgiven, edits>>

-----------------------------------------------------------------------------
(* The tick, collect: a dump that reads and zeroes one counter after the   *)
(* other, then one submit for each customer that carried anything.         *)

PassEnds ==
    /\ pc' = "idle"
    /\ plan' = NoPlan /\ zeroing' = {} /\ near' = NoClients /\ spent' = {}
    /\ rules' = NoRules

\* Without a table nothing has flowed and the dump is empty.
TickBegins ==
    /\ pc = "idle" /\ up # "down"
    /\ pc' = "drain"
    /\ toDrain' = IF table THEN Files ELSE {}
    /\ UNCHANGED <<kernelVars, enforcerVars, drained, bytes, evalVars, rules,
                   bufferVars, flushVars, dbVars, panel, ghostVars>>

DrainCounter(f) ==
    /\ pc = "drain" /\ f \in toDrain
    /\ toDrain' = toDrain \ {f}
    /\ counter' = [counter EXCEPT ![f] = 0]
    /\ drained' = [drained EXCEPT ![f] = @ + counter[f]]
    /\ bytes' = [bytes EXCEPT ![Owner[f]] = @ + counter[f]]
    /\ UNCHANGED <<table, limit, tally, blocked, enforcerVars, pc, evalVars,
                   rules, bufferVars, flushVars, dbVars, panel, ghostVars>>

\* A dump that fails part way forgets what it had already zeroed.  The nft
\* tool then drains the counters from the start, or fails too and the pass
\* ends there, the enforcer no longer sure of the table.
DrainFails ==
    /\ "nft" \in Allowed /\ Fault
    /\ pc = "drain"
    /\ lost' = Plus(lost, drained)
    /\ drained' = NoFiles /\ bytes' = NoClients
    /\ \/ /\ toDrain' = Files
          /\ UNCHANGED <<known, pc, evalVars, rules>>
       \/ /\ toDrain' = {}
          /\ known' = FALSE
          /\ PassEnds
    /\ UNCHANGED <<kernelVars, seen, applies, bufferVars, flushVars, dbVars, panel,
                   served, forgiven, edits>>

DrainDone ==
    /\ pc = "drain" /\ toDrain = {}
    /\ pc' = "submit"
    /\ UNCHANGED <<kernelVars, enforcerVars, drainVars, evalVars, rules,
                   bufferVars, flushVars, dbVars, panel, ghostVars>>

\* Usage thrown away while the writer is busy, as a bounded queue would.
TickSubmit_Wrong(c) ==
    /\ pc = "submit" /\ bytes[c] > 0
    /\ IF fpc = "wait"
       THEN /\ usage' = [usage EXCEPT ![c] = @ + bytes[c]]
            /\ devices' = [f \in Files |-> IF Owner[f] = c THEN devices[f] + drained[f]
                                                           ELSE devices[f]]
       ELSE UNCHANGED bufferVars
    /\ bytes' = [bytes EXCEPT ![c] = 0]
    /\ drained' = [f \in Files |-> IF Owner[f] = c THEN 0 ELSE drained[f]]
    /\ UNCHANGED <<kernelVars, enforcerVars, pc, toDrain, evalVars, rules,
                   flushVars, dbVars, panel, ghostVars>>

\* A customer's usage and their files', folded in under one lock.
TickSubmit(c) ==
    /\ pc = "submit" /\ bytes[c] > 0
    /\ usage' = [usage EXCEPT ![c] = @ + bytes[c]]
    /\ devices' = [f \in Files |-> IF Owner[f] = c THEN devices[f] + drained[f]
                                                   ELSE devices[f]]
    /\ bytes' = [bytes EXCEPT ![c] = 0]
    /\ drained' = [f \in Files |-> IF Owner[f] = c THEN 0 ELSE drained[f]]
    /\ UNCHANGED <<kernelVars, enforcerVars, pc, toDrain, evalVars, rules,
                   flushVars, dbVars, panel, ghostVars>>

TickCounted ==
    /\ pc = "submit" /\ bytes = NoClients
    /\ pc' = "renew"
    /\ UNCHANGED <<kernelVars, enforcerVars, drainVars, evalVars, rules,
                   bufferVars, flushVars, dbVars, panel, ghostVars>>

-----------------------------------------------------------------------------
(* The tick, evaluate.  Renewal reads the plans, then writes each customer *)
(* that is due, and then, in a statement of its own, their files.          *)

TickRenew ==
    /\ pc = "renew" /\ Running
    /\ pc' = "renewing"
    /\ plan' = [c \in Clients |-> IF c \in due THEN status[c] ELSE "none"]
    /\ UNCHANGED <<kernelVars, enforcerVars, drainVars, zeroing, near, spent,
                   rules, bufferVars, flushVars, dbVars, panel, ghostVars>>

\* A customer reset by hand since the plans were read is no longer due and
\* their row does not match.
RenewOne(c) ==
    /\ pc = "renewing" /\ Running
    /\ zeroing = {} /\ plan[c] # "none"
    /\ plan' = [plan EXCEPT ![c] = "none"]
    /\ IF c \in due
       THEN /\ used' = [used EXCEPT ![c] = 0]
            /\ status' = IF plan[c] = "exhausted"
                         THEN [status EXCEPT ![c] = "active"] ELSE status
            /\ due' = due \ {c}
            /\ zeroing' = {c}
       ELSE UNCHANGED <<used, status, due, zeroing>>
    /\ UNCHANGED <<kernelVars, enforcerVars, pc, drainVars, near, spent, rules,
                   bufferVars, flushVars, fileUsed, quota, ended, panel, ghostVars>>

\* What ZeroFileUsage does to the files of the customers of S.
ZeroFileUsage(S) ==
    /\ fileUsed' = [f \in Files |-> IF Owner[f] \in S THEN 0 ELSE fileUsed[f]]
    /\ forgiven' = [f \in Files |-> IF Owner[f] \in S
                                    THEN forgiven[f] + fileUsed[f] ELSE forgiven[f]]

RenewFiles ==
    /\ pc = "renewing" /\ Running
    /\ zeroing # {}
    /\ ZeroFileUsage(zeroing)
    /\ zeroing' = {}
    /\ UNCHANGED <<kernelVars, enforcerVars, pc, drainVars, plan, near, spent,
                   rules, bufferVars, flushVars, used, quota, status, due, ended,
                   panel, served, lost, faults, edits>>

RenewDone ==
    /\ pc = "renewing"
    /\ zeroing = {} /\ plan = NoPlan
    /\ pc' = "near"
    /\ UNCHANGED <<kernelVars, enforcerVars, drainVars, evalVars, rules,
                   bufferVars, flushVars, dbVars, panel, ghostVars>>

\* How far the kernel's tally may be from the stored usage to be believed.
Agree(q) == Smaller(Near, q \div 2)

\* Kept for each customer near their limit is the most the kernel's tally
\* may say; it is never 0 for a quota the kernel can hold spent, so 0 stands
\* for a customer who is not near.
TickNear ==
    /\ pc = "near" /\ Running
    /\ near' = [c \in Clients |->
                  IF /\ status[c] = "active" /\ quota[c] > 0
                     /\ used[c] < quota[c] /\ used[c] + Near >= quota[c]
                  THEN used[c] + Agree(quota[c]) ELSE 0]
    /\ pc' = IF near' = NoClients THEN "sweep" ELSE "ask"
    /\ UNCHANGED <<kernelVars, enforcerVars, drainVars, plan, zeroing, spent,
                   rules, bufferVars, flushVars, dbVars, panel, ghostVars>>

\* The kernel taken at its word.
TickAsk_Wrong ==
    /\ pc = "ask" /\ Running
    /\ pc' = "sweep"
    /\ spent' = {c \in Clients : near[c] > 0 /\ limit[c] > 0 /\ tally[c] >= limit[c]}
    /\ near' = NoClients
    /\ UNCHANGED <<kernelVars, enforcerVars, drainVars, plan, zeroing, rules,
                   bufferVars, flushVars, dbVars, panel, ghostVars>>

\* QuotaSpent, and of its answer what agrees with the usage read before.
TickAsk ==
    /\ pc = "ask" /\ Running
    /\ pc' = "sweep"
    /\ spent' = {c \in Clients : /\ limit[c] > 0 /\ tally[c] >= limit[c]
                                 /\ tally[c] <= near[c]}
    /\ near' = NoClients
    /\ UNCHANGED <<kernelVars, enforcerVars, drainVars, plan, zeroing, rules,
                   bufferVars, flushVars, dbVars, panel, ghostVars>>

TickSweep ==
    /\ pc = "sweep" /\ Running
    /\ pc' = "expire"
    /\ status' = [c \in Clients |->
                    IF /\ status[c] = "active" /\ quota[c] > 0
                       /\ used[c] >= quota[c] \/ c \in spent
                    THEN "exhausted" ELSE status[c]]
    /\ spent' = {}
    /\ UNCHANGED <<kernelVars, enforcerVars, drainVars, plan, zeroing, near,
                   rules, bufferVars, flushVars, used, fileUsed, quota, due,
                   ended, panel, ghostVars>>

TickExpire ==
    /\ pc = "expire" /\ Running
    /\ pc' = "read"
    /\ status' = [c \in Clients |->
                    IF c \in ended /\ status[c] \in {"active", "exhausted"}
                    THEN "expired" ELSE status[c]]
    /\ UNCHANGED <<kernelVars, enforcerVars, drainVars, evalVars, rules,
                   bufferVars, flushVars, used, fileUsed, quota, due, ended, panel,
                   ghostVars>>

-----------------------------------------------------------------------------
(* The tick, apply: the desired state is read, then the enforcer makes the *)
(* kernel match it, in place where it knows what the table holds.          *)

TickRead ==
    /\ pc = "read" /\ Running
    /\ pc' = "apply"
    /\ rules' = [c \in Clients |-> [quota |-> quota[c], used |-> used[c],
                                    blocked |-> status[c] # "active"]]
    /\ UNCHANGED <<kernelVars, enforcerVars, drainVars, evalVars, bufferVars,
                   flushVars, dbVars, panel, ghostVars>>

\* A tally that ran ahead of the stored usage left as it is.
NeedsReseed_Wrong(q, stored, prev, k, ok) ==
    \/ stored < prev
    \/ ok /\ Smaller(stored, q) - k > Larger(StoredAhead, q \div 100)

\* The tally written again whenever it and the stored usage differ.
NeedsReseed_Always_Wrong(q, stored, prev, k, ok) ==
    stored < prev \/ (ok /\ Smaller(stored, q) # k)

\* needsReseed: ok is whether the kernel's tally k was read.
NeedsReseed(q, stored, prev, k, ok) ==
    LET seeded == Smaller(stored, q) IN
    \/ stored < prev
    \/ ok /\ seeded - k > Larger(StoredAhead, q \div 100)
    \/ ok /\ k - seeded > Larger(KernelAhead, q \div 10)

\* The table changed in place without a look whether it is still there.
ApplyInPlace_Wrong ==
    /\ pc = "apply" /\ Running
    /\ known
    /\ applies' = (applies + 1) % DriftEvery
    /\ limit' = IF table THEN [c \in Clients |-> rules[c].quota] ELSE limit
    /\ blocked' = IF table THEN [c \in Clients |-> rules[c].blocked] ELSE blocked
    /\ seen' = [c \in Clients |-> rules[c].used]
    /\ PassEnds
    /\ UNCHANGED <<table, tally, counter, known, drainVars, bufferVars, flushVars,
                   dbVars, panel, ghostVars>>

\* changeScript: a quota that must be is written again from the stored usage,
\* every other keeps its own tally; a customer's chains follow their switch.
ApplyInPlace ==
    /\ pc = "apply" /\ Running
    /\ known /\ table
    /\ applies' = (applies + 1) % DriftEvery
    /\ LET Reseeds(c) ==
             \/ rules[c].quota # limit[c]
             \/ /\ rules[c].quota > 0
                /\ NeedsReseed(rules[c].quota, rules[c].used, seen[c], tally[c],
                               applies' = 0)
       IN tally' = [c \in Clients |->
                      IF Reseeds(c) THEN Smaller(rules[c].used, rules[c].quota)
                                    ELSE tally[c]]
    /\ limit' = [c \in Clients |-> rules[c].quota]
    /\ blocked' = [c \in Clients |-> rules[c].blocked]
    /\ seen' = [c \in Clients |-> rules[c].used]
    /\ PassEnds
    /\ UNCHANGED <<table, counter, known, drainVars, bufferVars, flushVars,
                   dbVars, panel, ghostVars>>

\* The table deleted and written again: every quota from the stored usage,
\* every counter at zero.
WriteWhole ==
    /\ table' = TRUE
    /\ limit' = [c \in Clients |-> rules[c].quota]
    /\ tally' = [c \in Clients |-> Smaller(rules[c].used, rules[c].quota)]
    /\ blocked' = [c \in Clients |-> rules[c].blocked]
    /\ lost' = Plus(lost, counter)
    /\ counter' = NoFiles
    /\ known' = TRUE
    /\ seen' = [c \in Clients |-> rules[c].used]
    /\ PassEnds
    /\ UNCHANGED <<drainVars, bufferVars, flushVars, dbVars, panel, served,
                   forgiven, edits>>

ApplyWhole ==
    /\ pc = "apply" /\ Running
    /\ ~known \/ ~table
    /\ WriteWhole
    /\ UNCHANGED <<applies, faults>>

\* The change in place is refused and the whole table written instead.
ApplyFallsBack ==
    /\ "nft" \in Allowed /\ Fault
    /\ pc = "apply" /\ Running
    /\ known /\ table
    /\ applies' = (applies + 1) % DriftEvery
    /\ WriteWhole

\* A failed nft call makes the enforcer forget what the table holds.
ApplyFails ==
    /\ "nft" \in Allowed /\ Fault
    /\ pc = "apply"
    /\ known' = FALSE
    /\ PassEnds
    /\ UNCHANGED <<kernelVars, seen, applies, drainVars, bufferVars, flushVars,
                   dbVars, panel, served, lost, forgiven, edits>>

\* A statement fails: the database is away, or the panel is stopping and the
\* context it runs under is done.
StatementFails ==
    \/ "db" \in Allowed /\ Fault
    \/ up = "stopping" /\ UNCHANGED faults

\* A renewal or a look at the kernel that fails is only warned about.
EvaluateGoesOn ==
    /\ pc \in {"renew", "renewing", "near", "ask"} /\ up # "down"
    /\ StatementFails
    /\ pc' = IF pc \in {"renew", "renewing"} THEN "near" ELSE "sweep"
    /\ plan' = NoPlan /\ zeroing' = {} /\ near' = NoClients
    /\ UNCHANGED <<kernelVars, enforcerVars, drainVars, spent, rules, bufferVars,
                   flushVars, dbVars, panel, served, lost, forgiven, edits>>

\* A sweep or a read that fails ends the pass.
TickFails ==
    /\ pc \in {"sweep", "expire", "read", "apply"} /\ up # "down"
    /\ pc = "apply" => up = "stopping"
    /\ StatementFails
    /\ PassEnds
    /\ known' = IF pc = "apply" THEN FALSE ELSE known
    /\ UNCHANGED <<kernelVars, seen, applies, drainVars, bufferVars, flushVars,
                   dbVars, panel, served, lost, forgiven, edits>>

-----------------------------------------------------------------------------
(* The traffic writer.                                                     *)

\* flush swaps the buffers for empty ones under the lock.
Take ==
    /\ takenUsage' = usage /\ takenDevices' = devices
    /\ usage' = NoClients /\ devices' = NoFiles
    /\ UNCHANGED <<kernelVars, enforcerVars, pc, drainVars, evalVars, rules,
                   dbVars, panel, ghostVars>>

FlushTakes ==
    /\ fpc = "wait" /\ Running
    /\ usage # NoClients \/ devices # NoFiles
    /\ fpc' = "writing"
    /\ Take

\* The goroutine of start, its context done, flushes once more.
LastFlushTakes ==
    /\ fpc = "wait" /\ up = "stopping"
    /\ fpc' = "last"
    /\ Take

AfterFlush == fpc' = IF fpc = "last" THEN "done" ELSE "wait"

\* One transaction adds the customers' usage and their files'.
FlushCommits ==
    /\ fpc \in {"writing", "last"}
    /\ used' = Plus(used, takenUsage)
    /\ fileUsed' = Plus(fileUsed, takenDevices)
    /\ takenUsage' = NoClients /\ takenDevices' = NoFiles
    /\ AfterFlush
    /\ UNCHANGED <<kernelVars, enforcerVars, pc, drainVars, evalVars, rules,
                   bufferVars, quota, status, due, ended, panel, ghostVars>>

\* What the failed flush took put back over what has arrived since.
FlushFails_Wrong ==
    /\ fpc \in {"writing", "last"}
    /\ \/ "db" \in Allowed /\ Fault
       \/ fpc = "writing" /\ up = "stopping" /\ UNCHANGED faults
    /\ usage' = takenUsage
    /\ devices' = takenDevices
    /\ takenUsage' = NoClients /\ takenDevices' = NoFiles
    /\ AfterFlush
    /\ UNCHANGED <<kernelVars, enforcerVars, pc, drainVars, evalVars, rules,
                   dbVars, panel, served, lost, forgiven, edits>>

\* A writer that gives up when a flush fails.
FlushFails_GivesUp_Wrong ==
    /\ fpc \in {"writing", "last"}
    /\ "db" \in Allowed /\ Fault
    /\ usage' = Plus(usage, takenUsage)
    /\ devices' = Plus(devices, takenDevices)
    /\ takenUsage' = NoClients /\ takenDevices' = NoFiles
    /\ fpc' = "done"
    /\ UNCHANGED <<kernelVars, enforcerVars, pc, drainVars, evalVars, rules,
                   dbVars, panel, served, lost, forgiven, edits>>

\* The transaction wrote nothing: restore adds what it took to what has
\* arrived since.
FlushFails ==
    /\ fpc \in {"writing", "last"}
    /\ \/ "db" \in Allowed /\ Fault
       \/ fpc = "writing" /\ up = "stopping" /\ UNCHANGED faults
    /\ usage' = Plus(usage, takenUsage)
    /\ devices' = Plus(devices, takenDevices)
    /\ takenUsage' = NoClients /\ takenDevices' = NoFiles
    /\ AfterFlush
    /\ UNCHANGED <<kernelVars, enforcerVars, pc, drainVars, evalVars, rules,
                   dbVars, panel, served, lost, forgiven, edits>>

\* A node's report goes through the same writer; this kernel's tally never
\* hears of it.
AddNodeReport(f, p) ==
    /\ "node" \in Allowed /\ Running
    /\ Carry(f, p)
    /\ usage' = [usage EXCEPT ![Owner[f]] = @ + p]
    /\ devices' = [devices EXCEPT ![f] = @ + p]
    /\ UNCHANGED <<kernelVars, enforcerVars, pc, drainVars, evalVars, rules,
                   flushVars, dbVars, panel, lost, forgiven, faults, edits>>

-----------------------------------------------------------------------------
(* Operators, and the customers' calendar.                                 *)

EditOf(what) ==
    /\ what \in Allowed
    /\ Edit
    /\ UNCHANGED <<kernelVars, enforcerVars, pc, drainVars, evalVars, rules,
                   bufferVars, flushVars, panel, served, lost, faults>>

\* The files left with the period before.
BulkReset_Wrong(S) ==
    /\ EditOf("reset") /\ up # "down"
    /\ used' = [c \in Clients |-> IF c \in S THEN 0 ELSE used[c]]
    /\ status' = [c \in Clients |-> IF c \in S /\ status[c] = "exhausted"
                                    THEN "active" ELSE status[c]]
    /\ due' = due \ S
    /\ UNCHANGED <<fileUsed, forgiven, quota, ended>>

\* Usage to zero, in the same transaction the files' too, and who had run
\* out is let back in.
BulkReset(S) ==
    /\ EditOf("reset") /\ up # "down"
    /\ used' = [c \in Clients |-> IF c \in S THEN 0 ELSE used[c]]
    /\ status' = [c \in Clients |-> IF c \in S /\ status[c] = "exhausted"
                                    THEN "active" ELSE status[c]]
    /\ due' = due \ S
    /\ ZeroFileUsage(S)
    /\ UNCHANGED <<quota, ended>>

\* A reset of one customer reads their status...
ResetReads(c) ==
    /\ "reset" \in Allowed /\ Edit
    /\ up # "down" /\ resetting[c] = "none"
    /\ resetting' = [resetting EXCEPT ![c] = status[c]]
    /\ UNCHANGED <<kernelVars, enforcerVars, pc, drainVars, evalVars, rules,
                   bufferVars, flushVars, dbVars, up, served, lost, forgiven, faults>>

\* ...and writes by what it read, in a transaction of its own.
ResetWrites(c) ==
    /\ resetting[c] # "none"
    /\ resetting' = [resetting EXCEPT ![c] = "none"]
    /\ used' = [used EXCEPT ![c] = 0]
    /\ status' = IF resetting[c] = "exhausted"
                 THEN [status EXCEPT ![c] = "active"] ELSE status
    /\ due' = due \ {c}
    /\ ZeroFileUsage({c})
    /\ UNCHANGED <<kernelVars, enforcerVars, pc, drainVars, evalVars, rules,
                   bufferVars, flushVars, quota, ended, up, served, lost,
                   faults, edits>>

BulkEnable(S) ==
    /\ EditOf("enable") /\ up # "down"
    /\ status' = [c \in Clients |-> IF c \in S THEN "active" ELSE status[c]]
    /\ UNCHANGED <<used, fileUsed, quota, due, ended, forgiven>>

BulkDisable(S) ==
    /\ EditOf("disable") /\ up # "down"
    /\ status' = [c \in Clients |-> IF c \in S THEN "disabled" ELSE status[c]]
    /\ UNCHANGED <<used, fileUsed, quota, due, ended, forgiven>>

\* The switch forgotten.
AutoStatus_Wrong(c, q) ==
    IF c \in ended THEN "expired"
    ELSE IF q > 0 /\ used[c] >= q THEN "exhausted" ELSE "active"

\* The state a customer's own date and allowance put them in.
AutoStatus(c, q) ==
    CASE status[c] = "disabled" -> "disabled"
      [] status[c] # "disabled" /\ c \in ended -> "expired"
      [] status[c] # "disabled" /\ c \notin ended ->
           IF q > 0 /\ used[c] >= q THEN "exhausted" ELSE "active"

\* Traffic given or taken back, down to what is already used and never to
\* nothing; an unlimited customer is passed over.
ExtendTraffic(S, d) ==
    LET Floor(c) == Larger(used[c], 1)
        Changed == {c \in S : quota[c] > 0}
        Next(c) == Larger(quota[c] + d, Floor(c))
        Floored(c) == quota[c] + d < Floor(c)
    IN
    /\ EditOf("raise") /\ up # "down"
    /\ quota' = [c \in Clients |-> IF c \in Changed THEN Next(c) ELSE quota[c]]
    /\ status' = [c \in Clients |->
                    IF c \notin Changed THEN status[c]
                    ELSE IF Floored(c) /\ AutoStatus(c, Next(c)) = "active"
                         THEN "exhausted" ELSE AutoStatus(c, Next(c))]
    /\ UNCHANGED <<used, fileUsed, due, ended, forgiven>>

\* A period boundary passes, or the end date.
PeriodEnds(c) ==
    /\ EditOf("period")
    /\ c \notin due
    /\ due' = due \cup {c}
    /\ UNCHANGED <<used, fileUsed, quota, status, ended, forgiven>>

TermEnds(c) ==
    /\ EditOf("term")
    /\ c \notin ended
    /\ ended' = ended \cup {c}
    /\ UNCHANGED <<used, fileUsed, quota, status, due, forgiven>>

-----------------------------------------------------------------------------
(* The process.  Close leaves the table in place, so the kernel goes on    *)
(* counting and enforcing while the panel is away.                         *)

\* Everything the panel held in memory goes with it.
ProcessGone ==
    /\ up' = "down" /\ resetting' = NoPlan
    /\ lost' = [f \in Files |-> lost[f] + drained[f] + devices[f] + takenDevices[f]]
    /\ toDrain' = {} /\ drained' = NoFiles /\ bytes' = NoClients
    /\ usage' = NoClients /\ devices' = NoFiles
    /\ fpc' = "wait" /\ takenUsage' = NoClients /\ takenDevices' = NoFiles
    /\ known' = FALSE /\ seen' = NoClients /\ applies' = 0
    /\ PassEnds
    /\ UNCHANGED <<kernelVars, dbVars, served, forgiven, edits>>

Crash == "crash" \in Allowed /\ Fault /\ up # "down" /\ ProcessGone

\* The context every goroutine runs under is cancelled.
Stop ==
    /\ "stop" \in Allowed /\ Fault
    /\ up = "running"
    /\ up' = "stopping"
    /\ UNCHANGED <<kernelVars, enforcerVars, pc, drainVars, evalVars, rules,
                   bufferVars, flushVars, dbVars, resetting, served, lost,
                   forgiven, edits>>

\* main returns once the listeners are closed and waits for no goroutine.
Exit == up = "stopping" /\ ProcessGone /\ UNCHANGED faults

Start ==
    /\ up = "down"
    /\ up' = "running"
    /\ UNCHANGED <<kernelVars, enforcerVars, pc, drainVars, evalVars, rules,
                   bufferVars, flushVars, dbVars, resetting, ghostVars>>

-----------------------------------------------------------------------------
Kernel ==
    \/ \E f \in Files, p \in Packets : PacketPasses(f, p) \/ PacketDropped(f, p)
    \/ TableWiped

Tick ==
    \/ TickBegins
    \/ \E f \in Files : DrainCounter(f)
    \/ DrainFails
    \/ DrainDone
    \/ \E c \in Clients : TickSubmit(c)
    \/ TickCounted
    \/ TickRenew
    \/ \E c \in Clients : RenewOne(c)
    \/ RenewFiles
    \/ RenewDone
    \/ TickNear
    \/ TickAsk
    \/ TickSweep
    \/ TickExpire
    \/ TickRead
    \/ ApplyInPlace
    \/ ApplyWhole
    \/ ApplyFallsBack
    \/ ApplyFails
    \/ EvaluateGoesOn
    \/ TickFails

Writer ==
    \/ FlushTakes
    \/ LastFlushTakes
    \/ FlushCommits
    \/ FlushFails
    \/ \E f \in Files, p \in Packets : AddNodeReport(f, p)

Operator ==
    \/ \E S \in SUBSET Clients \ {{}} :
         \/ BulkReset(S)
         \/ BulkEnable(S)
         \/ BulkDisable(S)
         \/ \E d \in Raises : ExtendTraffic(S, d)
    \/ \E c \in Clients : ResetReads(c) \/ ResetWrites(c) \/ PeriodEnds(c) \/ TermEnds(c)

Process == Crash \/ Stop \/ Exit \/ Start

Next == Kernel \/ Tick \/ Writer \/ Operator \/ Process

\* The tick and the flush are loops on timers of their own; the supervisor
\* starts the panel again, and a panel that is stopping does exit.
Fairness ==
    /\ WF_vars(Tick)
    /\ WF_vars(FlushTakes) /\ WF_vars(FlushCommits)
    /\ WF_vars(Exit) /\ WF_vars(Start)

Spec == Init /\ [][Next]_vars

FairSpec == Spec /\ Fairness

-----------------------------------------------------------------------------
(* Properties.                                                             *)

KernelTypeOK ==
    /\ table \in BOOLEAN /\ blocked \in [Clients -> BOOLEAN]
    /\ limit \in [Clients -> Nat] /\ tally \in [Clients -> Nat]
    /\ counter \in [Files -> Nat]
    /\ known \in BOOLEAN /\ seen \in [Clients -> Nat] /\ applies \in Nat

TickTypeOK ==
    /\ pc \in {"idle", "drain", "submit", "renew", "renewing", "near", "ask",
               "sweep", "expire", "read", "apply"}
    /\ toDrain \subseteq Files
    /\ drained \in [Files -> Nat] /\ bytes \in [Clients -> Nat]
    /\ plan \in [Clients -> Statuses \cup {"none"}]
    /\ zeroing \subseteq Clients /\ spent \subseteq Clients
    /\ near \in [Clients -> Nat]
    /\ rules \in [Clients -> [quota : Nat, used : Nat, blocked : BOOLEAN]]

WriterTypeOK ==
    /\ usage \in [Clients -> Nat] /\ devices \in [Files -> Nat]
    /\ fpc \in {"wait", "writing", "last", "done"}
    /\ takenUsage \in [Clients -> Nat] /\ takenDevices \in [Files -> Nat]

DatabaseTypeOK ==
    /\ used \in [Clients -> Nat] /\ fileUsed \in [Files -> Nat]
    /\ quota \in [Clients -> Nat] /\ status \in [Clients -> Statuses]
    /\ due \subseteq Clients /\ ended \subseteq Clients

GhostTypeOK ==
    /\ up \in {"running", "stopping", "down"}
    /\ resetting \in [Clients -> Statuses \cup {"none"}]
    /\ served \in [Files -> Nat] /\ lost \in [Files -> Nat]
    /\ forgiven \in [Files -> Nat]
    /\ faults \in 0 .. MaxFaults /\ edits \in 0 .. MaxEdits

\* Every variable has its type; in particular an allowance never goes below
\* zero whatever is taken back from it (extendOne).
TypeOK ==
    KernelTypeOK /\ TickTypeOK /\ WriterTypeOK /\ DatabaseTypeOK /\ GhostTypeOK

\* What file f carried and the database has still to hear of.
Pending(f) == counter[f] + drained[f] + devices[f] + takenDevices[f]

Sum(g, S) == MapThenSumSet(LAMBDA x : g[x], S)

\* Everything customer c is charged for in this period, written or not.
Owed(c) == used[c] + Sum([f \in Files |-> Pending(f)], FilesOf(c))

\* Every byte a file carried is in exactly one place: a counter, the tick's
\* hands, the writer's buffer, a flush under way, the database, or it was
\* reset, or lost.  Nothing is counted twice and nothing disappears, whatever
\* fails and in whatever order (traffic.go: "Nothing is ever dropped").
BytesConserved ==
    \A f \in Files : served[f] = Pending(f) + fileUsed[f] + forgiven[f] + lost[f]

\* The rows of the per-user table add up to the customer's usage "to the
\* byte" (collect), and no flush writes one without the other (submit).
FilesMatchCustomer ==
    \A c \in Clients : used[c] = Sum(fileUsed, FilesOf(c))

\* The metering implements the ledger: each step bills, forgives or loses as
\* the ledger allows, or does nothing the ledger can see.
L == INSTANCE Ledger WITH
        owed <- [f \in Files |-> Pending(f)],
        fileBill <- fileUsed,
        bill <- used,
        failed <- faults > 0,
        MaxBatch <- MaxServed

ImplementsLedger == L!Spec

\* The sweep cuts a customer off only for an allowance that is gone, give or
\* take the packet the kernel dropped uncounted: never for the quota the
\* kernel still holds spent from the period before (spentInKernel).
CutOffOnlyWhenSpent ==
    [][\A c \in Clients :
         TickSweep /\ status[c] = "active" /\ status'[c] = "exhausted"
           => used[c] + Agree(quota[c]) >= quota[c]]_vars

\* A customer switched off stays off until an operator switches them on: no
\* extension, sweep or bulk reset brings them back, and a renewal or a reset of
\* theirs only when it had read them as run out before they were switched off.
StaysOff ==
    [][\A c \in Clients :
         status[c] = "disabled" /\ status'[c] # "disabled"
           => \/ \E S \in SUBSET Clients : BulkEnable(S)
              \/ "exhausted" \in {plan[c], resetting[c]}]_vars

\* What the kernel is about to be told of a customer's usage trails what they
\* have carried by m at the most.
TrailsBy(m) ==
    pc = "apply" => \A c \in Clients : quota[c] > 0 => Owed(c) - rules[c].used <= m

\* How much more than their allowance a customer may get where usage trails by
\* m: nothing while the drift margin covers it, and the packet the kernel counted
\* and dropped, and nothing else has happened; otherwise m, once.
Again(c, m) ==
    IF edits = 0 /\ faults = 0 /\ m + Near - 1 <= Larger(KernelAhead, quota[c] \div 10)
    THEN 0 ELSE m

\* On one server a customer gets no more than their allowance and what the
\* database has yet to hear of, however often their quota is written again from
\* the usage stored: after a reset, a raise, a reload of the firewall or a
\* crash, or because the kernel's tally has run ahead (needsReseed).
WithinAllowance ==
    \A m \in 0 .. MaxTrail :
        []TrailsBy(m) => [](\A c \in Clients :
                              quota[c] > 0 => Owed(c) <= quota[c] + Again(c, m))

\* The kernel refuses an active customer who has a good part of their
\* allowance left, more than the margin m.
Refused(c, m) ==
    /\ status[c] = "active" /\ table
    /\ limit[c] > 0 /\ tally[c] >= limit[c]
    /\ used[c] + m < quota[c]

\* Nobody is refused for good with more than the drift margin left: what a
\* missed fall in stored usage leaves behind, the reading of the kernel's
\* tallies puts right.
RefusalsEnd ==
    \A c \in Clients : []<>~Refused(c, Larger(KernelAhead, Near))

\* Once traffic, faults and edits are over everything carried is written:
\* "a locked or briefly unreachable database delays the bill, it does not
\* erase it" (flush).
EverythingIsBilled == <>[](\A f \in Files : Pending(f) = 0)

\* A customer who stays cut off is dropped by the kernel in the end and stays
\* so, whatever removed the table or failed on the way.
BlockedInTheEnd ==
    \A c \in Clients :
        <>[](status[c] # "active") => <>[](table /\ blocked[c])

=============================================================================
