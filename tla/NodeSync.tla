------------------------------- MODULE NodeSync -------------------------------
(***************************************************************************)
(* A panel and one of its nodes, which is another w-ui panel: every round  *)
(* the panel pushes the whole state of each tunnel it has on the node      *)
(* (src/internal/nodes/sync.go), and then asks what was used there. The    *)
(* node makes its records match, takes down tunnels it is no longer told   *)
(* of, and zeroes its usage as it reports it (src/internal/fleet).         *)
(*                                                                         *)
(* A call can be lost on the way, its answer can be lost, and a call the   *)
(* panel has given up on can still be carried out later. What is reported  *)
(* is charged at the node's price (src/internal/nodes/report.go).          *)
(*                                                                         *)
(* A device is one file of a customer on one tunnel, by its id on the      *)
(* panel. A slot is what a server has one of: a tunnel's name, or the      *)
(* fixed ports of an L2TP or PPTP tunnel.                                  *)
(*                                                                         *)
(* An operator whose name ends in _Wrong is not part of the specification: *)
(* it is the definition after it with a mistake made, for seeing that the  *)
(* properties tell the two apart.                                          *)
(***************************************************************************)
EXTENDS Integers, FiniteSets, FiniteSetsExt, Functions, Charging

CONSTANTS
    Tunnels,        \* ids tunnels can have
    Slot,           \* the name or ports a tunnel takes on its server
    Devices,        \* ids devices can have, numbers
    On,             \* the tunnel a device is on
    Address,        \* and its address there
    Customers,
    Owner,          \* whose device each is
    Price,          \* the node's usage coefficient, as <<over, under>>
    HostLimit,      \* the host's transfer allowance for the node; 0 is none
    FirstTunnels, FirstDevices,     \* what the panel starts with
    Allowed,        \* what else happens: a set of Happenings
    MaxCarried,     \* bound: bytes carried on the node
    MaxFaults,      \* bound: calls and answers lost, failures, crashes
    MaxEdits        \* bound: operators' edits and months ending

\* "reuse": a new tunnel or device takes the slot or address of a deleted one.
\* "late": a call the panel gave up on is carried out all the same. "record":
\* the panel cannot write down what the host will bill, or read whose files
\* were reported. "node": the node's process or database fails.
Happenings == {"reuse", "late", "record", "node"}

ASSUME NodeSyncAssumption ==
    /\ IsFiniteSet(Tunnels) /\ IsFiniteSet(Customers)
    /\ Devices \subseteq Nat /\ IsFiniteSet(Devices)
    /\ On \in [Devices -> Tunnels] /\ Owner \in [Devices -> Customers]
    /\ DOMAIN Slot = Tunnels /\ DOMAIN Address = Devices
    /\ Price \in (Nat \ {0}) \X (Nat \ {0})
    /\ HostLimit \in Nat
    /\ FirstTunnels \subseteq Tunnels
    /\ FirstDevices \subseteq {d \in Devices : On[d] \in FirstTunnels}
    /\ Allowed \subseteq Happenings
    /\ MaxCarried \in Nat /\ MaxFaults \in Nat /\ MaxEdits \in Nat

VARIABLES
    \* the panel's records
    tunnels, devices,   \* the tunnels on the node and the devices on those
    off,                \* customers who are not serviceable
    gone,               \* those that were deleted; their ids never return
    hostUsed,           \* nodes.used_bytes: what the host will bill
    monthOver,          \* whether the host's month has ended since
    bill, fileBill,     \* what onReport was handed, by customer and by file
    \* between them
    round,              \* where the panel is, what it read, what is left
    calls,              \* calls under way, those given up on included
    \* the node's records
    nodeTunnels, nodeDevices,
    nodeStatus,         \* each customer's: "none" for no row
    nodeUsed, nodeFile, \* usage not reported yet, by customer and by file
    \* what only the properties read
    carried,            \* bytes of each customer counted on the node
    told,               \* of those, the ones that reached the panel
    lost,               \* and the ones that never will
    faults, edits

recordVars == <<tunnels, devices, off, gone>>
chargeVars == <<hostUsed, monthOver, bill, fileBill, told>>
rowVars == <<nodeTunnels, nodeDevices, nodeStatus>>
usageVars == <<nodeUsed, nodeFile, lost>>
wireVars == <<round, calls>>
vars == <<recordVars, chargeVars, rowVars, usageVars, wireVars,
          carried, faults, edits>>

-----------------------------------------------------------------------------
Idle == [at |-> "idle"]
NoUse == [c \in Customers |-> 0]
NoFiles == [d \in Devices |-> 0]

Plus(g, h) == [x \in DOMAIN g |-> g[x] + h[x]]

DevicesOf(c) == {d \in Devices : Owner[d] = c}
OnTunnel(S, t) == {d \in S : On[d] = t}
Owners(S) == {Owner[d] : d \in S}
SameAddress(d, e) == On[d] = On[e] /\ Address[d] = Address[e]

Fault == faults < MaxFaults /\ faults' = faults + 1
Edit == edits < MaxEdits /\ edits' = edits + 1

\* Node.AfterFind: the host's allowance is spent.
Over == HostLimit > 0 /\ hostUsed >= HostLimit

Init ==
    /\ tunnels = FirstTunnels /\ devices = FirstDevices
    /\ off = {} /\ gone = {}
    /\ hostUsed = 0 /\ monthOver = FALSE
    /\ bill = NoUse /\ fileBill = NoFiles
    /\ round = Idle /\ calls = {}
    /\ nodeTunnels = {} /\ nodeDevices = {}
    /\ nodeStatus = [c \in Customers |-> "none"]
    /\ nodeUsed = NoUse /\ nodeFile = NoFiles
    /\ carried = NoUse /\ told = NoUse /\ lost = NoUse
    /\ faults = 0 /\ edits = 0

-----------------------------------------------------------------------------
(* What operators do on the panel between and during rounds.               *)

\* No two tunnels take one slot of the node, no two devices one address.
AddTunnel(t) ==
    /\ Edit
    /\ t \notin tunnels \cup gone
    /\ \A u \in tunnels : Slot[u] # Slot[t]
    /\ "reuse" \in Allowed \/ \A u \in gone \cap Tunnels : Slot[u] # Slot[t]
    /\ tunnels' = tunnels \cup {t}
    /\ UNCHANGED <<devices, off, gone, chargeVars, rowVars, usageVars, wireVars,
                   carried, faults>>

\* A tunnel with devices on it is not deleted.
DeleteTunnel(t) ==
    /\ Edit
    /\ t \in tunnels /\ OnTunnel(devices, t) = {}
    /\ tunnels' = tunnels \ {t}
    /\ gone' = gone \cup {t}
    /\ UNCHANGED <<devices, off, chargeVars, rowVars, usageVars, wireVars,
                   carried, faults>>

AddDevice(d) ==
    /\ Edit
    /\ d \notin devices \cup gone
    /\ On[d] \in tunnels
    /\ \A e \in devices : ~SameAddress(d, e)
    /\ "reuse" \in Allowed \/ \A e \in gone \cap Devices : ~SameAddress(d, e)
    /\ devices' = devices \cup {d}
    /\ UNCHANGED <<tunnels, off, gone, chargeVars, rowVars, usageVars, wireVars,
                   carried, faults>>

RemoveDevice(d) ==
    /\ Edit
    /\ d \in devices
    /\ devices' = devices \ {d}
    /\ gone' = gone \cup {d}
    /\ UNCHANGED <<tunnels, off, chargeVars, rowVars, usageVars, wireVars,
                   carried, faults>>

\* A customer runs out, ends or is switched off; or is let back in.
Switch(c) ==
    /\ Edit
    /\ off' = IF c \in off THEN off \ {c} ELSE off \cup {c}
    /\ UNCHANGED <<tunnels, devices, gone, chargeVars, rowVars, usageVars,
                   wireVars, carried, faults>>

\* The host's allowance starts again.
MonthEnds ==
    /\ Edit
    /\ HostLimit > 0 /\ ~monthOver
    /\ monthOver' = TRUE
    /\ UNCHANGED <<recordVars, hostUsed, bill, fileBill, told, rowVars, usageVars,
                   wireVars, carried, faults>>

-----------------------------------------------------------------------------
(* The round on the panel: Syncer.one.                                     *)

\* A tunnel with no devices is left out.
RoundBegins_Wrong ==
    /\ round.at = "idle"
    /\ round' = [at |-> "push", tunnels |-> tunnels, devices |-> devices,
                 on |-> IF Over THEN {} ELSE Customers \ off,
                 left |-> {On[d] : d \in devices}, clean |-> calls = {}]
    /\ UNCHANGED <<recordVars, chargeVars, rowVars, usageVars, calls,
                   carried, faults, edits>>

\* desired, one payload for each tunnel; its reads are taken as one.
RoundBegins ==
    /\ round.at = "idle"
    /\ round' = [at |-> "push", tunnels |-> tunnels, devices |-> devices,
                 on |-> IF Over THEN {} ELSE Customers \ off,
                 left |-> tunnels, clean |-> calls = {}]
    /\ UNCHANGED <<recordVars, chargeVars, rowVars, usageVars, calls,
                   carried, faults, edits>>

Waiting == \E c \in calls : c.waited

Push(t) ==
    /\ round.at = "push" /\ ~Waiting
    /\ t \in round.left
    /\ calls' = calls \cup {[kind |-> "sync", at |-> "sent", waited |-> TRUE,
                             tunnel |-> t, on |-> round.on,
                             devices |-> OnTunnel(round.devices, t)]}
    /\ UNCHANGED <<recordVars, chargeVars, rowVars, usageVars, round,
                   carried, faults, edits>>

PushAnswered(c) ==
    /\ c.kind = "sync" /\ c.at = "answered"
    /\ calls' = calls \ {c}
    /\ round' = [round EXCEPT !.left = @ \ {c.tunnel}]
    /\ UNCHANGED <<recordVars, chargeVars, rowVars, usageVars,
                   carried, faults, edits>>

\* Only after every push, and naming the tunnels to keep.
AskUsage ==
    /\ round.at = "push" /\ ~Waiting /\ round.left = {}
    /\ calls' = calls \cup {[kind |-> "usage", at |-> "sent", waited |-> TRUE,
                             keep |-> round.tunnels]}
    /\ UNCHANGED <<recordVars, chargeVars, rowVars, usageVars, round,
                   carried, faults, edits>>

\* One push refused, or the usage call failed, ends the round there.
RoundFails(c) ==
    /\ c.at = "refused"
    /\ calls' = calls \ {c} /\ round' = Idle
    /\ UNCHANGED <<recordVars, chargeVars, rowVars, usageVars,
                   carried, faults, edits>>

\* RecordNodeTraffic: raw bytes, and a new month starts with them.
Recorded(raw) == IF monthOver THEN raw ELSE hostUsed + raw

\* The answer is charged. The panel may fail to record what the host will
\* bill, or to read whose files these are: it goes on in both cases.
UsageAnswered(c) ==
    /\ c.kind = "usage" /\ c.at = "answered"
    /\ \E failing \in SUBSET {"host", "owners"} :
         /\ failing # {} => "record" \in Allowed
         /\ faults' = faults + Cardinality(failing) /\ faults' <= MaxFaults
         /\ IF "host" \in failing
            THEN UNCHANGED <<hostUsed, monthOver>>
            ELSE /\ hostUsed' = Recorded(SumOf(c.used, Customers))
                 /\ monthOver' = FALSE
         /\ LET known == IF "owners" \in failing THEN {} ELSE devices
                files(o) == {d \in known \cap DevicesOf(o) : c.file[d] > 0}
            IN  fileBill' = [d \in Devices |-> fileBill[d] +
                    ChargeFile(c.used[Owner[d]], c.file, files(Owner[d]), d, Price)]
    /\ bill' = [o \in Customers |-> bill[o] + AtLeastOne(c.used[o], Price)]
    /\ told' = Plus(told, c.used)
    /\ calls' = calls \ {c} /\ round' = Idle
    /\ UNCHANGED <<recordVars, rowVars, usageVars, carried, edits>>

-----------------------------------------------------------------------------
(* The node: handleNodeSync and handleNodeUsage. A call is handled whether  *)
(* or not the panel still waits for it.                                    *)

Finished(c, answer) ==
    calls' = (calls \ {c}) \cup IF c.waited THEN {answer} ELSE {}

Refuse(c) == Finished(c, [c EXCEPT !.at = "refused"])

\* The rows left are kept, the others deleted: a file's usage goes with its
\* row, a customer's with theirs, which goes when none of their files is left.
KeepRows(kept) ==
    /\ nodeDevices' = kept
    /\ nodeFile' = [d \in Devices |-> IF d \in kept THEN nodeFile[d] ELSE 0]
    /\ nodeUsed' = [c \in Customers |-> IF c \in Owners(kept) THEN nodeUsed[c] ELSE 0]
    /\ lost' = [c \in Customers |-> lost[c] + nodeUsed[c] - nodeUsed'[c]]

\* upsertInterface and upsertAccounts, against the unique indexes. A device's
\* row is saved before stale rows of its customer are deleted; those of another
\* customer are gone by then only if that customer came earlier in the payload,
\* which is in no order.
TunnelClashes(c) ==
    \E u \in nodeTunnels \ {c.tunnel} : Slot[u] = Slot[c.tunnel]

DeviceClashes(c, place) ==
    \E d \in c.devices, e \in OnTunnel(nodeDevices, c.tunnel) \ c.devices :
        /\ SameAddress(d, e)
        /\ ~ (Owner[e] \in Owners(c.devices) /\ place[Owner[e]] < place[Owner[d]])

Places == Injection(Customers, 1 .. Cardinality(Customers))

\* Only this tunnel's rows are withdrawn, whatever else the customer has.
Withdrawn_Wrong(c) ==
    OnTunnel(nodeDevices, c.tunnel) \cup
        {d \in nodeDevices : Owner[d] \notin Owners(c.devices)}

Withdrawn(c) == OnTunnel(nodeDevices, c.tunnel)

\* Apply, in one transaction.
Apply(c) ==
    /\ c.kind = "sync" /\ c.at = "sent"
    /\ \E place \in Places :
         IF TunnelClashes(c) \/ DeviceClashes(c, place)
         THEN Refuse(c) /\ UNCHANGED <<rowVars, usageVars>>
         ELSE /\ nodeTunnels' = nodeTunnels \cup {c.tunnel}
              /\ KeepRows((nodeDevices \ Withdrawn(c)) \cup c.devices)
              /\ nodeStatus' = [o \in Customers |->
                    IF o \in Owners(c.devices)
                    THEN IF o \in c.on THEN "active" ELSE "disabled"
                    ELSE IF o \in Owners(nodeDevices') THEN nodeStatus[o] ELSE "none"]
              /\ Finished(c, [c EXCEPT !.at = "answered"])
    /\ UNCHANGED <<recordVars, chargeVars, round, carried, faults, edits>>

\* Prune: which rows to delete is read once.
PruneReads(c) ==
    /\ c.kind = "usage" /\ c.at = "sent"
    /\ calls' = (calls \ {c}) \cup
           {[kind |-> "usage", at |-> "pruning", waited |-> c.waited, keep |-> c.keep,
             left |-> nodeTunnels \ c.keep, pruned |-> TRUE]}
    /\ UNCHANGED <<recordVars, chargeVars, rowVars, usageVars, round,
                   carried, faults, edits>>

\* Each in its own transaction. A row that is gone is in nobody's list, so that
\* one put in its place is not deleted.
PruneOne(c) ==
    /\ c.kind = "usage" /\ c.at = "pruning"
    /\ \E t \in c.left :
         /\ nodeTunnels' = nodeTunnels \ {t}
         /\ KeepRows(nodeDevices \ OnTunnel(nodeDevices, t))
         /\ calls' = {IF b.at = "pruning" THEN [b EXCEPT !.left = @ \ {t}] ELSE b :
                         b \in calls}
    /\ nodeStatus' = [o \in Customers |->
            IF o \in Owners(nodeDevices') THEN nodeStatus[o] ELSE "none"]
    /\ UNCHANGED <<recordVars, chargeVars, round, carried, faults, edits>>

\* What is left is not pruned, and the handler goes on.
PruneFails(c) ==
    /\ "node" \in Allowed /\ Fault
    /\ c.kind = "usage" /\ c.at = "pruning" /\ c.left # {}
    /\ calls' = (calls \ {c}) \cup {[c EXCEPT !.left = {}, !.pruned = FALSE]}
    /\ UNCHANGED <<recordVars, chargeVars, rowVars, usageVars, round, carried, edits>>

\* The customers' usage is read and not zeroed; the files'.
Drain_Wrong(c) ==
    /\ c.kind = "usage" /\ c.at = "pruning" /\ c.left = {}
    /\ Finished(c, [kind |-> "usage", at |-> "answered", waited |-> TRUE,
                    pruned |-> c.pruned, used |-> nodeUsed, file |-> nodeFile])
    /\ lost' = IF c.waited THEN lost ELSE Plus(lost, nodeUsed)
    /\ nodeUsed' = nodeUsed /\ nodeFile' = NoFiles
    /\ UNCHANGED <<recordVars, chargeVars, rowVars, round, carried, faults, edits>>

DrainFiles_Wrong(c) ==
    /\ c.kind = "usage" /\ c.at = "pruning" /\ c.left = {}
    /\ Finished(c, [kind |-> "usage", at |-> "answered", waited |-> TRUE,
                    pruned |-> c.pruned, used |-> nodeUsed, file |-> nodeFile])
    /\ lost' = IF c.waited THEN lost ELSE Plus(lost, nodeUsed)
    /\ nodeUsed' = NoUse /\ nodeFile' = nodeFile
    /\ UNCHANGED <<recordVars, chargeVars, rowVars, round, carried, faults, edits>>

\* Drain, customers and files read and zeroed in one transaction. The answer to
\* a call nobody waits for takes the bytes with it.
Drain(c) ==
    /\ c.kind = "usage" /\ c.at = "pruning" /\ c.left = {}
    /\ Finished(c, [kind |-> "usage", at |-> "answered", waited |-> TRUE,
                    pruned |-> c.pruned, used |-> nodeUsed, file |-> nodeFile])
    /\ lost' = IF c.waited THEN lost ELSE Plus(lost, nodeUsed)
    /\ nodeUsed' = NoUse /\ nodeFile' = NoFiles
    /\ UNCHANGED <<recordVars, chargeVars, rowVars, round, carried, faults, edits>>

\* The transaction is rolled back.
NodeFails(c) ==
    /\ "node" \in Allowed /\ Fault
    /\ c.at \in {"sent", "pruning"}
    /\ Refuse(c)
    /\ UNCHANGED <<recordVars, chargeVars, rowVars, usageVars, round, carried, edits>>

\* The node's traffic writer counts a byte of a file it has a row for, which the
\* kernel may still carry after the customer was disabled.
Carry(d) ==
    /\ d \in nodeDevices
    /\ SumOf(carried, Customers) < MaxCarried
    /\ carried' = [carried EXCEPT ![Owner[d]] = @ + 1]
    /\ nodeUsed' = [nodeUsed EXCEPT ![Owner[d]] = @ + 1]
    /\ nodeFile' = [nodeFile EXCEPT ![d] = @ + 1]
    /\ UNCHANGED <<recordVars, chargeVars, rowVars, lost, wireVars, faults, edits>>

-----------------------------------------------------------------------------
(* Between them.                                                           *)

\* syncTimeout, or the connection breaks, before the call is carried out. It
\* may be carried out later.
GiveUp(c) ==
    /\ Fault
    /\ c.waited /\ c.at \in {"sent", "pruning"}
    /\ \/ calls' = calls \ {c}
       \/ /\ "late" \in Allowed
          /\ calls' = (calls \ {c}) \cup {[c EXCEPT !.waited = FALSE]}
    /\ round' = Idle
    /\ UNCHANGED <<recordVars, chargeVars, rowVars, usageVars, carried, edits>>

\* The same, after it was.
AnswerLost(c) ==
    /\ Fault
    /\ c.waited /\ c.at = "answered"
    /\ calls' = calls \ {c} /\ round' = Idle
    /\ lost' = IF c.kind = "usage" THEN Plus(lost, c.used) ELSE lost
    /\ UNCHANGED <<recordVars, chargeVars, rowVars, nodeUsed, nodeFile, carried, edits>>

\* The node sees that the panel has hung up.
Dropped(c) ==
    /\ ~c.waited
    /\ calls' = calls \ {c}
    /\ UNCHANGED <<recordVars, chargeVars, rowVars, usageVars, round,
                   carried, faults, edits>>

-----------------------------------------------------------------------------
Handle(c) == Apply(c) \/ PruneReads(c) \/ PruneOne(c) \/ Drain(c)

Edits ==
    \/ \E t \in Tunnels : AddTunnel(t) \/ DeleteTunnel(t)
    \/ \E d \in Devices : AddDevice(d) \/ RemoveDevice(d)
    \/ \E c \in Customers : Switch(c)
    \/ MonthEnds

Panel ==
    \/ RoundBegins
    \/ \E t \in Tunnels : Push(t)
    \/ AskUsage
    \/ \E c \in calls : PushAnswered(c) \/ UsageAnswered(c) \/ RoundFails(c)

Awaited == \E c \in calls : c.waited /\ Handle(c)
Unawaited == \E c \in calls : ~c.waited /\ (Handle(c) \/ Dropped(c))

Trouble ==
    \E c \in calls : PruneFails(c) \/ NodeFails(c) \/ GiveUp(c) \/ AnswerLost(c)

Next ==
    \/ Edits \/ Panel \/ Awaited \/ Unawaited \/ Trouble
    \/ \E d \in Devices : Carry(d)

Spec == Init /\ [][Next]_vars

\* Rounds go on for as long as the panel runs, a node that is up answers, and
\* what the network holds arrives or is lost.
LiveSpec == Spec /\ WF_vars(Panel) /\ WF_vars(Awaited) /\ WF_vars(Unawaited)

-----------------------------------------------------------------------------
Rounds ==
    {Idle} \cup [at : {"push"}, tunnels : SUBSET Tunnels, devices : SUBSET Devices,
                on : SUBSET Customers, left : SUBSET Tunnels, clean : BOOLEAN]

Pushes ==
    {p \in [kind : {"sync"}, at : {"sent", "answered", "refused"}, waited : BOOLEAN,
            tunnel : Tunnels, devices : SUBSET Devices, on : SUBSET Customers] :
        \A d \in p.devices : On[d] = p.tunnel}
Questions ==
    [kind : {"usage"}, at : {"sent", "refused"}, waited : BOOLEAN,
     keep : SUBSET Tunnels]
Prunings ==
    [kind : {"usage"}, at : {"pruning", "refused"}, waited : BOOLEAN,
     keep : SUBSET Tunnels, left : SUBSET Tunnels, pruned : BOOLEAN]
Reports ==
    [kind : {"usage"}, at : {"answered"}, waited : {TRUE}, pruned : BOOLEAN,
     used : [Customers -> Nat], file : [Devices -> Nat]]
Calls == Pushes \cup Questions \cup Prunings \cup Reports

RecordsOK ==
    /\ tunnels \subseteq Tunnels /\ devices \subseteq Devices
    /\ \A d \in devices : On[d] \in tunnels
    /\ off \subseteq Customers /\ gone \subseteq Tunnels \cup Devices

\* A device's tunnel is on the node, and a customer has a row while they have a
\* device there.
RowsOK ==
    /\ nodeTunnels \subseteq Tunnels /\ nodeDevices \subseteq Devices
    /\ \A d \in nodeDevices : On[d] \in nodeTunnels
    /\ nodeStatus \in [Customers -> {"none", "active", "disabled"}]
    /\ \A c \in Customers : nodeStatus[c] = "none" <=> c \notin Owners(nodeDevices)

UsageOK == nodeUsed \in [Customers -> Nat] /\ nodeFile \in [Devices -> Nat]

CountsOK ==
    /\ carried \in [Customers -> Nat]
    /\ told \in [Customers -> Nat] /\ lost \in [Customers -> Nat]

\* One call at a time is waited for, in a round; only a call waited for comes to
\* an answer.
WireOK ==
    /\ round \in Rounds /\ calls \subseteq Calls
    /\ \A c \in calls : ~c.waited => c.at \in {"sent", "pruning"}
    /\ \A c, d \in calls : c.waited /\ d.waited => c = d
    /\ Waiting => round.at = "push"

TypeOK ==
    /\ RecordsOK /\ RowsOK /\ UsageOK /\ CountsOK /\ WireOK
    /\ hostUsed \in Nat /\ monthOver \in BOOLEAN
    /\ bill \in [Customers -> Nat] /\ fileBill \in [Devices -> Nat]

Answers == {c \in calls : c.kind = "usage" /\ c.at = "answered"}

\* What is on its way to the panel: at most one answer.
Reported(c) ==
    IF Answers = {} THEN 0 ELSE (CHOOSE a \in Answers : TRUE).used[c]

\* Every byte counted on the node is in its records, in the answer to a call,
\* charged, or known to be lost; none is reported twice. A lost answer, a late
\* drain and a withdrawn row are what loses bytes. (NodeSync.Drain)
Conserved ==
    \A c \in Customers :
        carried[c] = nodeUsed[c] + Reported(c) + told[c] + lost[c]

\* A round that began with no call outstanding and came to its answer has left
\* the node as the panel was when the round began, whatever it was before and
\* whichever rounds failed: each tunnel's devices, who may connect, and no other
\* tunnel unless the node failed to take it down. (sync.go: "the next
\* successful push is the whole truth")
SuccessIsTruth ==
    round.at = "push" /\ round.clean =>
        \A a \in Answers :
            /\ round.tunnels \subseteq nodeTunnels
            /\ a.pruned => nodeTunnels = round.tunnels
            /\ \A t \in round.tunnels :
                 OnTunnel(nodeDevices, t) = OnTunnel(round.devices, t)
            /\ \A c \in Owners(round.devices) :
                 nodeStatus[c] = IF c \in round.on THEN "active" ELSE "disabled"

\* What the node has of a tunnel is what the round read.
AsRead(t) ==
    /\ t \in nodeTunnels
    /\ OnTunnel(nodeDevices, t) = OnTunnel(round.devices, t)
    /\ \A c \in Owners(OnTunnel(round.devices, t)) :
         nodeStatus[c] = IF c \in round.on THEN "active" ELSE "disabled"

\* What makes SuccessIsTruth inductive: the call waited for is the round's, and
\* in a clean round, where there is no other, each tunnel whose push was
\* answered is as the round read it, and what is to be pruned is what is left.
RoundOnCourse ==
    round.at = "push" =>
        /\ round.left \subseteq round.tunnels
        /\ \A d \in round.devices : On[d] \in round.tunnels
        /\ round.clean => \A c \in calls : c.waited
        /\ \A c \in calls : c.waited =>
             /\ c.kind = "sync" => /\ c.tunnel \in round.left
                                  /\ c.devices = OnTunnel(round.devices, c.tunnel)
                                  /\ c.on = round.on
             /\ c.kind = "usage" => round.left = {}
             /\ c.kind = "usage" /\ c.at \in {"sent", "pruning"}
                  => c.keep = round.tunnels
             /\ round.clean /\ c.at = "pruning"
                  => /\ c.left \subseteq nodeTunnels \ round.tunnels
                     /\ c.pruned => c.left = nodeTunnels \ round.tunnels
             /\ round.clean /\ c.kind = "usage" /\ c.at = "answered" /\ c.pruned
                  => nodeTunnels = round.tunnels
             /\ round.clean /\ c.kind = "sync" /\ c.at = "answered"
                  => AsRead(c.tunnel)
        /\ round.clean => \A t \in round.tunnels \ round.left : AsRead(t)

\* Whatever the price: when what a customer's files carried adds up to what the
\* customer did, so do the charges, to the byte, each within a byte of its exact
\* part. (report.go: chargeReport, share)
ChargesAddUp ==
    \A a \in Answers, c \in Customers, over, under \in 1 .. 4 :
        LET files == {d \in DevicesOf(c) : a.file[d] > 0}
        IN  FairCharge(a.used[c], a.file, files, <<over, under>>)

\* Over many reports too: while nothing failed and nothing was withdrawn, each
\* customer's bill is the sum of their files', no byte is lost, and the host's
\* count is the bytes themselves and not their price.
BillsAgree ==
    faults = 0 /\ gone = {} =>
        /\ lost = NoUse
        /\ \A c \in Customers : bill[c] = SumOf(fileBill, DevicesOf(c))
        /\ edits = 0 => hostUsed = SumOf(told, Customers)

\* Something of the panel's cannot be stored on the node, for a row of
\* something the panel has deleted.
Blocked ==
    \/ \E t \in tunnels, u \in nodeTunnels \ tunnels : Slot[u] = Slot[t]
    \/ \E d \in devices, e \in nodeDevices \ devices : SameAddress(d, e)

InStep ==
    /\ nodeTunnels = tunnels /\ nodeDevices = devices
    /\ \A c \in Owners(devices) :
         nodeStatus[c] = IF c \in off \/ Over THEN "disabled" ELSE "active"

AllTold == nodeUsed = NoUse

\* Once faults and edits are over, the node is as the panel says and everything
\* counted there was reported, or it is blocked.
CatchesUp == <>[](Blocked \/ (InStep /\ AllTold))
=============================================================================
