# w-ui, specified

These TLA+ modules model the parts of w-ui where several things happen at once
and the outcome matters to a customer's money or access: how traffic is counted
and cut off, how plans start, renew and end, how a plan's connections are held to
their number, how the stealth gateway refuses replayed openings, how tunnel
addresses are handed out and taken back, how a panel keeps its nodes in step
and charges for what they carried, how operators come, go and are suspended,
how exits are put into the kernel, and how the panel replaces its data and
itself. TLC checks them on small instances; TLAPS proves the main invariants for
every value of the constants. Paths are those of the repository, under `src/`.

Run from this directory:

    tlc -workers 2 -config MCMetering_faults.cfg MCMetering
    tlapm AddressesProofs.tla

## 1. The system

w-ui is a panel for VPN servers. One process (`cmd/wui`) serves an HTTP API and
web interface, keeps its records in SQLite, PostgreSQL or MySQL, and makes the
server match them. Customers ("clients") own accounts, one per device and tunnel,
which the code and these modules also call files. A panel can manage other servers,
its nodes, over HTTP.

| Component | State | Operations | What is hard |
|---|---|---|---|
| metering: `reconciler`, `enforce` | kernel counters and quotas; a buffer in memory; usage, allowance and status in the database | tick (drain, submit, renew, sweep, expire, apply), flush, packets | four actors and no common lock; counters zeroed as they are read; faults and shutdown at every step |
| stealth gateway: `stealthgw` | replay floor, limit and salts; sessions; sources | judge, record, claim, raise the limit, expire | readers and a ticker side by side; a restart remembers one number |
| address pools: `ipam`, `service/clients.go`, `service/interfaces.go` | a bitset per tunnel; a column in the database | reserve, insert, delete, release, move, rebuild | pool and rows change in separate steps |
| customers' lifecycle: `service`, `reconciler/renew.go`, `activation.go` | status, expiry, allowance, groups | update, bulk edits, reset, extend, trash; activate, renew, expire | edits race the tick's writes; months of unequal length |
| concurrency limits: `reconciler/concurrency.go` | live sessions, holds, nodes' reports | observe, enforce, hold | three clocks: 75 s activity, 30 s reports, 2 min holds |
| nodes: `nodes`, `fleet`, `api/node.go` | desired state, reported usage | push, prune, drain, charge, hold | a lost answer after the node has zeroed what it reported |
| drivers: `backend` | an open driver per tunnel | open, reopen, close | a reopen that fails |
| L2TP and PPTP: `l2tpagent`, `pptpd`, `l2tpconf` | a state file, what the agent applied, live sessions | apply, end sessions, report | a pass that fails part way |
| routing and egress: `routing`, `egress` | outbounds, balancers; devices and processes; a marking program, rules, tables | edit, probe, bring up, apply | the kernel and what the panel remembers of it part; a plan of many statements |
| shaping: `shaper` | tc classes | render and apply | |
| operators: `operators`, `membership`, `scope`, `totp`, `api/throttle.go` | accounts, terms, ceilings, sessions, lock-outs | sign in, edit, suspend, remove | parallel attempts; a term that starts once; a removal in three steps |
| oversight: `oversight` | audit log | wraps every service | |
| API, web, bots: `api`, `web`, `tgbot`, `notify` | sessions, conversations, schedules | requests, messages, notices | retries of scheduled deliveries |
| stealth transport: `stealth` | keys, counters | seal, open, rekey | |
| RADIUS: `radiusd` | duplicate cache | answer | |
| DNS: `dnsproxy`, `tunneldns` | none shared | forward | |
| backup: `backup` | archives, a staged restore | take, stage, apply at start | a crash while applying |
| update: `update` | staged release, request, result | hand over, await | a late answer |
| endpoints, settings: `endpoints`, `panelconf` | settings rows | edit | |
| database: `database` | schema | migrate, connect | external |
| host: `fwsync`, `nftstate`, `single`, `logger`, `sysinfo` | | | |
| formats: `wgconf`, `ovpnconf`, `ikev2conf`, `occonf`, `devguide`, `i18n` | none | render | |

**How they meet.** The API calls services (through `oversight`), which write the
database and the address pools. The reconciler's tick reads the database and
makes drivers, firewall, shaper and routes agree with it; it writes back usage
and status. Nothing but the database and the kernel is shared between services
and the tick, and neither waits for the other. A node is a panel of its own that
is sent its rows and asked for its usage and its sessions; it is told which
devices to hold off, and decides for itself when nobody asks any more. The
stealth gateway is its own goroutines with its own file. A helper that runs as
root and the panel speak through a directory of files. `cmd/wui` starts all of it
under a supervisor (systemd restarts the process), applies a restore that was
staged, and rebuilds the pools from the rows at start.

**What makes each correct**, in a sentence, where it is modelled:

- metering: every byte carried is billed once, to the file and its customer
  together; the kernel stops a customer at their allowance and nobody who has
  some left; who is switched off stays off.
- replay: an opening starts one session, ever; honest clients are refused only
  for a bounded time after a restart.
- addresses: what a device holds is never handed out again, what nobody holds
  becomes free, and the panel can start on what it stored.
- nodes: a round that succeeds leaves the node as the panel was, a node that
  missed any number of rounds comes back in step, and what it counted is charged
  at most once, to the customer and to their files alike.
- concurrency: only a customer over their plan is held off, never altogether, and
  a device that walks from one network onto another is left alone.
- customers: a plan starts with its first use and ends on its day, renews without
  giving a period twice, and nobody stays on past their end.
- upkeep: the panel serves data of one state; a restore that was marked ready and
  a release that was installed take effect in spite of any crash.
- operators: a term starts once; nobody is served through an operator who is
  suspended, and no customer is left with one who is gone.
- exits: what is marked for an exit goes by it or is refused; an exit that is up
  is used.

## 2. Modules

| Module | What it is |
|---|---|
| `Metering` | kernel, tick, traffic writer, operators' edits, process |
| `Ledger` | what metering promises, without any of those; `Metering` implements it |
| `Replay` | the gateway's replay rule and its readers |
| `Addresses` | pools, rows, requests |
| `NodeSync` | a panel, a node, the calls between them |
| `Charging` | what a node's report is charged as; `NodeSync` extends it |
| `Concurrency` | one plan's connections, on a panel and a node |
| `Customers` | one tick and the requests that change a plan |
| `Upkeep` | restore, start, update helper |
| `Operators` | operators, their customers and what the tick serves |
| `Exits` | outbounds and balancers, devices, a pass over the kernel |
| `MC...` | the instances TLC checks |
| `MeteringProofs`, `AddressesProofs`, `NodeSyncProofs`, `OperatorsProofs`, `CustomersProofs`, `ExitsProofs`, `ConcurrencyProofs` | theorems about the module of the name |
| `RestartProofs` | theorems about `Replay` and, through an instance, about `Upkeep` |

The modules divide the state of one process by what is shared in it. Two subjects
that meet in a column meet in the model of the one that writes it: a node's
report is an action of `Metering`, usage grows by itself in `Customers`, and the
restart that an update brings comes in the middle of a restore in `Upkeep`.

A definition whose name ends in `_Wrong` is not part of a specification. It is
the definition of the same name with a mistake a careless change could make, and
stands beside it so that the properties can be seen to tell the two apart.

Each module has a constant `Allowed` (or a switch such as `MayLag`, `MayOverlap`
and `MayRepeat`) naming what else may happen in an instance besides normal work. It keeps one run to one
question: a run lists the happenings it is about, and where one of them breaks a
property, section 3 says so, with a run of its own for the gravest.

### 2.1 Metering

*State.* `table`, `limit`, `tally`, `blocked`, `counter` are the kernel's: the
nftables table, each customer's quota object and each file's counter. `known`, `seen`
and `applies` are `NFTables.state`, `clientState.seen` and `NFTables.applies`.
`pc` and the variables after it are the locals of one pass of
`Reconciler.reconcile`. `usage`, `devices`, `takenUsage` and `takenDevices` are
the maps of `trafficWriter` and the ones a flush took. `used`, `fileUsed`,
`quota` and `status` are columns; `due` and `ended` stand for dates compared
with the clock: customers whose period has ended and whose term has passed.
`served`, `lost` and `forgiven` are history for the properties.

*Actions.* A packet passes or is dropped (`PacketPasses`, `PacketDropped`: the
quota rule comes before the counter, and older kernels drop the packet that
lands on the limit). A pass is `TickBegins`, one `DrainCounter` per file,
`TickSubmit`, `TickRenew`, `RenewOne` and `RenewFiles`, `TickNear`, `TickAsk`,
`TickSweep`, `TickExpire`, `TickRead`, and one of the `Apply` actions (in place,
or the whole table). A flush takes the buffer and commits or fails; at shutdown
it takes it a last time. Operators reset (`BulkReset`, one statement and its files;
`ResetReads` and `ResetWrites`, which is `ResetTraffic`: a status read and then
written by), extend, switch off and on; nodes report; terms and periods end. Each can fall between any two of the others.
Faults (`wipe`, `nft`, `db`, `crash`, `stop`) are what the code handles: a
firewall reload, an nft or netlink failure, a failing statement, a kill, a
shutdown.

*Abstractions.* A byte is any unit of traffic. The drift margins
(`driftStoredAheadMin` and so on) are constants. Directions, rates, IPv4 and
IPv6 chains are left out: a rate changes how fast bytes come, not where they go.

`Ledger` has four variables (what is owed, the two bills, whether something has
failed) and four actions: `Carry`, `Bill`, `Forgive`, `Lose`. The refinement
takes `owed` for everything a file carried that is in a counter, a dump, a
buffer or a flush. Bytes may be lost, but only once something has failed.

### 2.2 Replay

*State.* `streams` says which gateway an instance is of: the datagram one has one
reader and the stream one several (`Active`), and the run starts from both.
`floor`, `limit`, `salts`, `askLimit` are the fields of `replay`; `disk`
is the limit in its file. `tick` and `reader` are the ticker's and the readers'
program counters with the clock each has looked at.

*Actions.* `Receive` takes a copy of any opening, at any time: a network that
loses, repeats and delays needs no more. The datagram reader judges under one
hold of the lock and records under another (there is one reader, so nothing
comes between but the ticker); the stream reader claims in one step, and waits for a
raise when it needs one. The ticker works out a raise (`WriteDue`), writes the
file (`WriteLimit`, `WriteFails`), puts the limit in force (`InForce`), and
expires salts (`TickExpires`). `Crash`, `FileLost` and `Listen` are the
process's end, the file's loss and `openReplay`.

*Abstractions.* A salt is the opening it belongs to. The clock is in seconds and
never steps back. The early return of `expireLocked` on `oldest` is taken as
exact. A rename is durable once it has returned (`syncDir`).

### 2.3 Addresses

*State.* `pool` is the `Allocator` of one tunnel (`subnet`, `used`, `cursor`);
`ip` is the `accounts.ip` column, `subnet` the tunnel's; `job` is where each
request under way stands and what it read. `replaced` counts the allocators of
this run, so that a request knows whether the one it took from is still there.

*Actions.* Adding: `ReserveAddress`, then `InsertRow` or `InsertFails`.
Removing: `LoadDevice` or `LoadClient`, `DeleteRow` or `DeleteRows` or
`DeleteFails`, then one `ReleaseAddress` per address. Moving (`readdress`):
`LoadMove`, `MoveRows` or `MoveFails`, `ReplacePool`, `ReplayAddress` per row.
`Crash` ends them all; `Start` is `loadPools`.

*Abstractions.* An address is an offset from a base; IPv6 and IPv4 do not
differ. One tunnel: an account on another has another pool. `ReserveAddress`
takes the next unused device id, as the database's key does.

### 2.4 NodeSync and Charging

*State.* `tunnels`, `devices` and `off` are the panel's rows for one node; `gone`
is what was deleted, since ids never return. `round` holds the locals of
`Syncer.one`: what `desired` read and which payloads are left. `calls` are HTTP
calls under way, at the point their handler has reached; `waited` says whether
the panel still waits for one. `nodeTunnels`, `nodeDevices`, `nodeStatus`,
`nodeUsed` and `nodeFile` are the node's rows. `bill` and `fileBill` add up what
`onReport` was handed, `hostUsed` is `nodes.used_bytes`. `carried`, `told` and
`lost` are history.

*Actions.* A round is `RoundBegins`, a `Push` and `PushAnswered` per tunnel, then
`AskUsage` and `UsageAnswered`, which records what the host will bill and
charges; `RoundFails` ends it early. The node answers a push in one transaction
(`Apply`: it refuses what its unique indexes refuse, saves what it was sent,
withdraws this tunnel's other rows) and a usage call in several (`PruneReads`,
`PruneOne` per tunnel it is no longer told of, `Drain`). `GiveUp` is a call lost
or timed out before it was carried out, which may happen later; `AnswerLost` is
the same afterwards. Devices and tunnels come and go, customers are switched off
and on, the host's month ends, at any point of a round.

*Charging.* `chargeReport`, `share` and `atLeastOne` are operators: a customer's
total is converted once, and shared among their files by largest remainder.
`FairCharge` is what they owe: the parts add up, each is within a byte of its
exact part, and traffic is never free.

*Abstractions.* One of the two directions of traffic, which are charged alike.
`desired` reads the panel's rows at one point. A transaction is one step: the
node keeps its records in SQLite over one connection. The node's usage goes
straight to its rows; how it gets there is `Metering`. Prices are fractions and
multiplication is exact, where the code uses floating point. Nothing is renamed.

### 2.5 Concurrency

*State.* `using` is which hosts each device's traffic comes from, `served` which
devices their server lets in. `acts` is `activity` (when a device last moved
bytes, since when it is live, from which address, how often that flipped), `held`
the holds of each server. `report`, `answer` and `holdCalls` are what passes
between the two; `heard` is when the node last heard the panel. `push` says that
the node's only database connection is waiting for itself.
`excused` and `crossed` record, for the properties, what section 3 tells of.

*Actions.* `Pass` is a unit of time. `Tick` is a
server's pass: it reads its own traffic (`Moved`, `Remembered`), adds what the
other reports while that is fresh, and holds off the connections beyond the limit,
oldest first to stay (`Lookup`, `Enforce`). `Sessions` and `SetRemote` carry the
node's report, `HoldArrives` and `Push` the panel's decisions. The link goes down or
deaf (the node is heard no longer, or hears no longer), calls and answers are
lost, either process restarts and forgets.

*Abstractions.* One customer. What a driver says of a session of its own
protocol is taken as traffic (`overlapping` is left out). `limit_hold` keeps the code's
order of a report's life (30 s), the panel's silence (45 s), the activity window (75 s)
and a hold (2 min), as 1, 2, 3 and 4 units; the proofs take them as they come.

### 2.6 Customers

*State.* `row` has the columns a plan is made of; `tick`, `due` are where the tick
is and what it read; `request` is what each request in flight asks and has read.

*Actions.* A tick is `TickStart`, `ActivateOne` per customer with a first
handshake, `RenewRead` and `RenewOne` (or `RenewSkip` between two looks), `Sweep`
and `Expire`. `Ask` reads a customer, `Answer` writes what `Update`, `Adjust`,
`Enable`, `Disable` and the resets work out from the read; `Bulk`, `ExtendTime` and
`ExtendTraffic` are single statements over many rows. Requests come between any two
statements of a tick.

*Abstractions.* Months are as long as `MonthStart` says, so that short ones are
two days against three and not 28 against 31. The two statements of a renewal
(customer, then files) are one, since files are in `Metering`. Hours do not exist:
a plan by length ends a number of days after the day it began.

### 2.7 Upkeep

*State.* `data`, `wal`, `staged`, `import` are the data directory, the staging
directory and the dump waiting to be loaded, each file by the archive it is from.
`restore` and `start` are the steps of the request and of the start. `stage` is
the directory shared with the helper, `asking` and `helper` the two sides of it.

*Actions.* A restore clears the staging directory, unpacks a file at a time, marks
it ready and ends the process. A start moves file by file, or, with a dump, loads
it into the database it has; then it puts this server's addresses back. The panel
leaves a release, its signature and a request, in that order; the helper takes the
request, reads, replaces the program, cleans, records and restarts the panel. The panel
gives up after a while; the helper may answer later. A dump is loaded whole or, when the
database refuses it, set aside (`setAside`), and the panel serves the database it had.
`Crash` ends the panel
anywhere, and the helper's restart does so too.

*Abstractions.* A rename is atomic and durable. An archive is whole. One panel.

### 2.8 Operators

*State.* `op` and `cust` are rows, `req` the requests being served and what each
has read, `suspended` is `lastSuspended`, `served` who is on the tunnels.

*Actions.* `CreateOperator`; `EditRead` and `EditWrite` (one at a time or in bulk:
the row is read and the columns are written later); `SignIn` and `SignedIn` (one
conditional statement); `PlanCheck` and `PlanWrite` (a sale); `DeleteCount`,
`DeleteCustomers` and `HandOver` (the three steps of a removal). `TickKnows` and
`TickGuesses` are the tick with and without an answer to who is suspended.

*Abstractions.* The tick's two reads, of operators and of customers, are one step.
A customer's own plan is a switch. Charges come one unit at a time.

### 2.9 Exits

*State.* `row` are outbounds and balancers. `up` and `proc` are `HopManager`'s maps;
`applied`, `appliedP` and `prunedKey` are what `Applier` remembers; `dev`, `marks`,
`rule`, `floor` and `route` are the kernel's. A device, a mark and a table are all
made of an id, and stand as that id.

*Actions.* A pass is `Begin`, then for each device `LeaveAlone`, `TakeDown`,
`BringDevice` or `BringProcess`; `ReadPolicy`; `LoadProgram`; `Compare`, `Look`; then,
when there is something to do, `Remove` per hop and `AddFloor`, `AddRoute`,
`AddRule` per live hop, and `Carried`. Each statement may fail as it is taken to:
a removal is ignored, a route makes the hop "down", the rest end the pass. The
operator switches, edits, deletes, pins; checks come in. The kernel drops every
route through a device that goes, a balancer's whole; processes end and
connect late; other programs remove the rules or the program.

*Abstractions.* Devices are visited in the order of their ids, where the code
ranges over a map. Bringing one device up is one step. Every hop has a rule of the
operator's that sends somebody to it. What rules match, address translation, the
panel's own mark and the block lists are left out. Between reading the policy
and its end a pass reads no row, so edits are made only outside it.

## 3. Runs

Every passing run explores the whole state space of its instance.

| Run | Instance | Shows |
|---|---|---|
| `metering_cutoff` | quota 3, 4 bytes, 1 period's end, bulk enable or term's end, node reports, 1 failed statement or nft call, fair | `CutOffOnlyWhenSpent`, `RefusalsEnd` |
| `metering_allowance` | quota 3, 6 bytes, usage trailing by 0, 1 or 2, margins of 1 and 2, 1 edit (a reset in one step or two, a raise, a bulk switch, a term's end), 1 reload of the firewall or crash | `WithinAllowance` |
| `metering_faults` | 2 files, quota 2 raised by 1 or cut by 3, switched off, reset in one step or two, node reports, 2 edits, 1 fault of any kind incl. stop and crash, fair | `BytesConserved`, `FilesMatchCustomer`, `ImplementsLedger`, `StaysOff`, `EverythingIsBilled`, `BlockedInTheEnd` |
| `replay_gateways` | both gateways, 2 openings, 2 readers of the stream one, window and cache of 1, clock 2..5, 2 faults, fair | `NeverAgain`, `PauseIsBounded`, `LimitKeepsUp` |
| `addresses_pools` | 4 devices, 2 customers, 3 requests at a time, 2 overlapping subnets with room for 5 and 2, 2 moves, 2 faults | `HeldIsUsed`, `UsedIsHeld`, `OneOwner`, `StartsAgain` |
| `node_rounds` | 3 tunnels, 3 devices, 2 customers, 2 bytes at a price of 3/2, an allowance of the host of 2, 2 edits, 1 fault of any kind, fair | `Conserved`, `SuccessIsTruth`, `ChargesAddUp`, `BillsAgree`, `CatchesUp` |
| `limit_hold` | limit 1; windows of 1, 2, 3 and 4 over 6 units; three devices at once, or one carried about with restarts, deaf links and a one-connection database | `SomebodyStays`, `EndsInTime`, `AMoveIsFree`, `OnlyOverLimit` |
| `customers_plans` | 1 customer, by date or by first use, months of 3 and 2 days, 5 days, 2 requests of 9 kinds, fair | `StartedPlansEnd`, `RenewalsGoForward`, `KeepsItsDay`, `OverdueCutOff`, `UsedPlansStart` |
| `upkeep_restarts` | the database and one other file, releases 2 and 3, 1 restore, its dump loaded or refused, 2 requests, 2 crashes, fair | `OneState`, `StagedIsApplied`, `RunsWhatIsInstalled` |
| `operators_standing` | an admin (limit 3, allowance 1) and their reseller (limit 3, a term of 1 day), 1 customer of 2 or 4 seats, 2 requests, 2 edits, 1 unread tick, fair | `NoOrphans`, `TermStartsOnce`, `StaysSuspended`, `FollowsStanding` |
| `exits_passes` | a WireGuard exit, an OpenVPN one, a balancer of both (random or by ping) falling back to the first, 2 edits, 1 crash, wipe or failed statement, fair | `MarksAreCarried`, `NothingStale`, `ExitsComeBack` |
| `exits_restart` | the two exits; a process ends or is edited once, fair | a counterexample to `ExitsComeBack` |

**Why the bounds are enough.** Metering: each property speaks of one customer
and the sum of their files, and customers share no state but the table, so one
customer with one or two files meets every case; the quotas are chosen so that
the near margin, the limit itself and a packet past it are all reached, and
`MaxServed` exceeds the quota wherever the kernel's refusal is the question (in
`metering_faults` it equals it: what matters there is where
a byte is, and who is off). The quota of 3 in `metering_cutoff` is the smallest
for which being near the limit does not by itself justify a cut-off: `Agree` is
then 1 and `Near` 2. In `metering_allowance` the file carries two allowances, the stored usage
may trail by as much as the margin and by more, and the margins are within what is
carried: so `NeedsReseed` comes true, and quotas are written again from usage that trails,
for each of its reasons (drift, a fall in what is stored, another allowance, a new table). Replay: the
clock runs past twice the window, so openings arrive above the limit, inside the
window, at its edge and after it, and are old enough to be let go; the cache is
smaller than the number of openings, and two faults let one fall in the recovery
from another. Addresses: the second subnet has less room
than there are devices, so the pool fills and a move can be refused, and the
cursor comes round; three requests are enough for one to release what a second
is to insert while a third reserves. In this run the tunnel moves only while
no other request is under way and two requests never remove one device or
customer: `astride`, `twice` and `late` in `Allowed` lift these limits, and what
they break is below. Nodes: two of the tunnels share a slot, and two devices of
different customers share an address, so both unique indexes can refuse; one
customer has devices on two tunnels, so that withdrawing one must leave the
other. Two edits are a deletion and what takes its place; one fault is enough to
leave a round half done, or a call behind that is carried out during a later
round. The price is one at which rounding leaves a byte over, and
`ChargesAddUp` asks the same of every price up to 4/1 and down to 1/4.
Concurrency: the windows are in the code's order, and time runs long enough for a link to be
lost once somebody is live, the panel's silence to be waited out, and the bound of
`EndsInTime` to be passed if the node did not decide then; the instance's `CONSTRAINT` keeps to two situations, three devices from
one place each with at most one switch and no process restarted, and one device
carried about, because both at once are some hundred times as many states. One
device, one report or one hold more adds no new order of events; a limit above
one would. Customers: a long and a short month in turn let a day exist and not
exist, two requests let one come between another and the tick, and a plan of two
days ends inside the run. Upkeep: two files are enough for data of two states; two
requests for a late answer to meet the next; two crashes for one in the recovery
from another. Operators: one sale and one removal at once, one operator above
another, a ceiling that the second size of plan exceeds. Exits: two edits are an exit
switched off and on, or two checks; the second exit connects late, fails or ends at any
point of a pass, and a balancer whose route goes with either device is the
case one exit alone does not have.

Deadlock is checked wherever a model cannot stop. The runs of `Addresses`,
`Concurrency`, `Customers`, `Upkeep` and `Operators` can, when ids, days, time or
requests have run out.

**Fairness.** `Metering!Fairness` is weak fairness of the tick (a loop on a
timer that outlives errors), of a flush being taken and committed (a ticker
of its own; a commit is retried for ever), of a stopping panel exiting and of a
dead one being started (the systemd unit restarts it). No fairness is assumed of
packets, operators, nodes or faults. `Replay!LiveSpec` assumes the same of the
ticker's steps, of `Listen`, and that time goes by. `NodeSync!LiveSpec` assumes
that rounds go on (a ticker of the panel), that a node answers a call it
has received, or it comes to nothing, and that the network does not hold a call
for ever; nothing of edits, faults and traffic. `Customers!Fairness`: ticks go on,
a request that has read a customer is answered, and the hourly look for renewals
is taken again and again (strong fairness, as ticks in between leave it disabled).
`Upkeep!Fairness`: a start, the helper and a restore go on to their end; nobody has
to ask for anything, and crashes are bounded. `Operators!FairSpec`: a tick that can
read the operators comes, and a request that began ends. `Exits!FairSpec`: passes
begin every two seconds and each statement returns (`cmdTimeout`); no process has to
connect, and no device to stay.

### Where the code and its words part

One run is kept for a counterexample. In `exits_restart` an OpenVPN or Xray exit ends, or its
profile is edited; the next pass brings it up with a new tun. The kernel dropped the
default route of its table with the old one, and `Apply` does not put it back: the plan
is the text it carried out last, and `rulesPresent` looks at rules, not at tables. The
exit stays refused by its own floor until some plan changes, where
`hopproc_linux.go:511-513` says it comes back. `PROJECT.json` has the quotation.

The models show more of the same kind to whoever adds the happening to `Allowed`
(or, where one is needed, states the property); no run is kept for these.

*Metering.*

- A renewal zeroes a customer and their files in two statements (`renew.go:130`,
  `:137`); a flush that commits between them parts files and total.
- A reset of one customer reads their status and writes "active" later
  (`clients.go:1472-1481`), over a switch-off made in between; so does a renewal
  (`renew.go:126`), where `renew.go:17-19` says of customers that "their switch" is
  "theirs and not touched". `StaysOff` makes an exception of a reset or a renewal that
  had read the customer as run out before, and TLC finds both without it.
- A stopping panel exits without waiting for the traffic writer's last flush
  (`LastFlushTakes` races `Exit`), and what was buffered is lost: to say that an
  orderly stop loses nothing would be false.
- `reset` in `metering_cutoff`: a reset by hand between the kernel's answer and
  the sweep is cut off at zero usage (`reconciler.go:510`); `CutOffOnlyWhenSpent`
  fails.
- Whatever writes a quota again starts it from stored usage, and hands out a second time
  what is buffered: a changed allowance or a reset (`incremental.go:173`), a reload of
  the firewall, a crash, and drift past the margin (`incremental.go:93`). That is more than the
  one packet of `enforce.go:12`. `WithinAllowance` bounds it by what the stored usage trails by,
  and by nothing where only drift could do it and the margin covers the trail.
- `reset` and `node` together: a fall in stored usage that later usage hides from
  `needsReseed` (`incremental.go:93`) leaves a refusal in place, inside the drift
  margin. `RefusalsEnd` is stated outside it.

*Replay.*

- With `MayLag`, the second turns between a reader's look at the clock and its use
  (`gateway.go:287`, `:308`), and an opening is accepted twice (`replay.go:16` says never).
- A client whose clock runs ahead makes the pause after a restart up to
  the window and a step long, where `replay.go:26` says a step. `PauseIsBounded`
  states what the code does.

*Addresses.*

- `astride`: a device added while its tunnel moves keeps an address of the old
  subnet (`interfaces.go:1198-1208`), and the panel does not start (`main.go:546`).
- `twice` in `addresses_pools`: two removals of one device both give its address
  back, the second when it may be another's (`clients.go:809`); `HeldIsUsed` fails.
- `late`: the address of a device added while its customer is being deleted is
  never given back (`clients.go:1522`); `UsedIsHeld` fails.

*Nodes.*

- A tunnel is deleted and another made with its name before the next round: the node
  refuses the new one for the old one's row (`idx_node_ifname`), the round ends there,
  and the call that would remove the old row comes after the pushes
  (`nodes/sync.go:227`). The node stays out of date for every tunnel, although nothing
  failed (`fleet/nodesync.go:19-21` says it catches up on its own). A device given
  the address of a deleted one of another customer is refused alike:
  `upsertAccounts` saves before stale rows are deleted. `CatchesUp` makes an exception
  of these (`Blocked`).
- Usage that a node has zeroed is gone when the answer is lost, and so is what a
  withdrawn row had not reported (`api/node.go:74`, `nodesync.go:357`). `Conserved`
  counts it as `lost`.

*Concurrency.*

- A push that carries a hold calls `Reconciler.Hold` inside its transaction
  (`fleet/nodesync.go:412`, `reconciler.go:1143`), which asks the same database: with
  SQLite's one connection (`database.go:97`) it waits for itself, and the push is
  rolled back, against `sync.go:163-165`. `EndsInTime` is stated for the others.
- After a restart of the panel, which forgets its holds and not the node's, both servers
  may hold what the other lets in (`excused`); after a restart or over a link that carries
  one way, too many may be let in.
- After an outage everybody of one customer may be held off, where `concurrency.go:21-22`
  says "the newest are held off". While the link is down the panel, which believes the node's last
  report for 30 s more, holds off its own device and one of the node's, and the call is lost. The
  node, 45 s without the panel, decides alone: it keeps that very device and holds off
  another, which came back later. Once the link is up the next push carries the panel's hold
  again (`fleet/nodesync.go:412`), and nobody is let in until one of the three ends
  (`crossed`). `panelSilence` is longer than `remoteTTL` "so the two do not both decide at
  once" (`:56-57`), but holds outlast both. With `~crossed` taken out of `SomebodyStays`, TLC finds
  this along two outages with windows of the code's ratio (in units of 7.5 s: 10, 16, 4, 6, 4),
  nobody restarting and the clocks agreeing.
- The holds cross in a second way: a node that decided alone
  still reports as live the devices it holds off (`concurrency.go:432` asks for connections,
  not for holds). The panel takes one of them for the oldest and has the node hold off
  the others. `SomebodyStays` holds until such a crossing, and is proved.
- Reports travel as ages, "so two machines' clocks need not agree" (`:422`), holds as
  times of day: a node whose clock is behind holds a device off for longer than the
  panel reckons. `SomebodyStays` is stated for a node level with the panel or ahead.

*Customers.*

- With `MayOverlap`: an `Update` that read a plan before its first use puts it back to
  waiting, and `StartedPlansEnd` fails; a renewal writes "active" over a switch-off
  made since it read (`renew.go:20-22`).
- An allowance set to unlimited by `Update` does not revive an exhausted customer,
  where `Adjust` does; a plan deferred on an expired customer stays expired; days
  that `Adjust` gives to a waiting plan are overwritten at its first use.
- A plan renewed on the 31st moves to a later day in a short month and stays there:
  `KeepsItsDay` speaks of days every month has.

*Upkeep.*

- `awaitResult` takes a late answer of the helper's for that of the request after
  (`staged.go:152`); a request the panel gave up on stays for the helper to find.
- With `MayRepeat`, a second restore asked for within `restartDelay` is unpacked
  into what the start is about to apply, and `OneState` fails.
- An import that fails leaves the panel "running on the data it had"
  (`start.go:67`) beside the archive's other files, which the same start has put in place;
  `OneState` allows the database that difference and no other.
- A crash between the import and `ApplyLocalAddresses` leaves the other server's
  addresses in the database; one file that cannot be moved is logged and skipped.

*Operators.*

- With "plan" in `MayOverlap`, a sale checked before a removal and written after it
  leaves a customer of nobody (`NoOrphans` fails), and two sales at once pass the ceiling.
- With "edit", a bulk extension that read an operator before their first sign-in puts a term that
  started back on hold.
- An admin removed with their customers kept leaves their stamp on the
  customers of their resellers, who stay suspended with the former admin's
  standing, and a parent that is gone.

*Exits.*

- The counterexample of `exits_restart` has relatives, all in "lost": an exit switched off and on
  between the two reads of a pass, or around a program that could not be loaded, loses
  its route for good; so may a tick and a Save at once (`reconciler.go:687`), which
  can leave the older route with the newer plan remembered.
- An empty plan and no plan remembered are the same text, "" (`applier_linux.go:90`, `:122`,
  `:132`). When every exit is switched off after a start, a pass with an exit down or a
  failed statement, `Apply` returns at `:102` and the rules of the exits stay, where
  `plan.go:69-73` has them removed. Nothing is marked for them by then, so
  `NothingStale` asks of such a pass only that no rule is of an exit that is gone.
- While any exit is down, every pass removes the rules of all and puts them back:
  for a moment what is marked goes by the main table, where `plan.go:107-112` says it is
  refused. `ExitsComeBack` says "time and again" for this reason. A rule that
  cannot be added leaves the later exits without theirs until the next tick.
- "unswept": `prunedKey` is set before the rules are listed (`applier_linux.go:92`), so a
  rule that could not be swept is not looked for again; nor is one whose removal failed.
- `HopSpec.fingerprint` takes keys and passwords by their length
  (`hop_linux.go:283-286`), and a WireGuard key has but one: a rotated key is never applied.
- A random balancer with one member's device missing keeps its old route or its floor;
  `RunChecks` measures nothing while only random ones exist.

## 4. Proofs

All proofs are checked by TLAPS with Z3, Zenon and LS4. They assume only the
modules' named assumptions on their constants, and what a theorem states in its
`ASSUME`.

**`MeteringProofs`.** `TypeCorrect` is inductive as `TypeOK` stands. It says
more than types: an extension that takes traffic back never makes an allowance
negative, and no subtraction of a dump or flush goes below zero. `Conservation`
follows one file's bytes through every action; it needs `TypeOK` for the sums
to be of naturals, and that a flush which is not writing holds nothing
(`IdleHoldsNothing`): otherwise the next would overwrite it. `CutOffs` is an action
property, and holds where no operator resets or edits: its invariant `CutOffInv` says
that what `TickNear` kept for a customer, and what the kernel said of them, still
describe them when the sweep comes, because in between usage only grows.

`SwitchedOffStaysOff` assumes nothing: of the steps that write over "disabled" only an
operator's switch, and a reset or a renewal that had read the customer before it
was switched off, may do so, and `plan` and `resetting` hold what those two had read.

The rest is for panels where no plan renews (`"period" \notin Allowed`): a renewal
writes the customer and their files in two statements, and what it does to each
property is in section 3. `FilesAgree`
compares two sums. A sum over a set is defined by recursion, so nothing about it
comes by induction in this prover; each lemma about sums is proved instead by taking a
smallest set for which it would fail, which a finite set's subsets have (`Smallest`),
and looking at the member it takes first. The order of the members then turns out not to
matter (`SumWithout`), and sums are taken term by term (`SumPlus`). The invariant
`FilesAddUp` says of each of the four places where a byte can be, and not only of the
database, that the customer's figure there is the sum of their files'.
`MeteringRefinesLedger` maps every step to one of `Ledger`'s or to none. It needs
`FilesAddUp`, `BytesConserved`, that what is carried stays within its bound, and
`LossNeedsAFault`: a panel that is not running, or a table the enforcer has forgotten, is
there only after a fault, so a step that loses bytes has one to show for it.

`AllowanceKept` is `WithinAllowance` for one server (`"node" \notin Allowed`: what a node
reports was served under that node's quota) whose allowances are not taken back (a customer
may have had more than what is left of one). It has two halves. `Overshoot` is invariant while
the stored usage trails by at most `m`: what a customer owes is at most `m` past what the
kernel counts against them, and the kernel's limit, the one about to be written
included, is never above their allowance. A quota written again starts from usage that
trails by `m` at the most, so it may be written again for any reason and as often as anything
asks for it, and the difference is `m` each time and not one more each time. The sharp half says
that nothing is handed out twice while nothing was edited, nothing failed and the drift
margin covers `m` (`Quietly`): `TallyLeads` says the kernel's tally is what the customer
owes or has reached the allowance, and stays so because a quota is then never written
again. `AllowanceHolds` and `SmallAllowanceHolds` say the same of servers on which the
database may fail and customers be switched (`Calm`), with the lag as a condition on
behaviours, and without it for allowances within the margin (a gigabyte, or a tenth of the
allowance).

**`RestartProofs`, of `Replay`.** The theorems but the first assume `~MayLag`: a reader uses
its look at the clock before the clock moves. `ReplayInv` strengthens
`NeverAgain`: an opening that started a session is at or below the floor, or its
salt is held, or the window is past it for every look at the clock a reader
holds; the limit in force is on disk or about to be replaced by a higher one
that is; a raise under way is not beyond the cap; and the datagram gateway's
other readers do nothing (`OthersIdle`). `NoOpeningTwice`,
`FloorCovers` and `PauseBounded` follow from it.

**`AddressesProofs`.** The theorems assume `Allowed \subseteq {"move"}`, as the run does:
requests for one device or one customer do not overlap, and the tunnel moves while
nothing else is under way (section 3 says how the code breaks the invariant
otherwise). `AddressesInv` has two shapes. While no move is under way it is
`QuietInv`: rows hold distinct, usable addresses; an address on its way to a
row is in use and nobody else's; what a removal will give back is exactly what the
rows it will delete hold; every offset in use has one of these reasons. While one is,
it is `MoveInv`: what was drawn fits the subnet the rows are of or go to, and the
allocator has in use the rows' addresses but for those still to be put in, and no
others. A crash in a move leaves rows of one subnet, and the tunnel's own row
says which. There is one lemma per action; the steps that only move a request on share
`JobKeeps` and the two deletions share `RowsGoKeeps`. That no two rows are drawn
one address (`Drawn`) is an argument about the cardinalities of what lies below each; that
`Min` of a set of free offsets is a free offset rests on the well-foundedness of the naturals.

**`NodeSyncProofs`.** `IInv` is the shape of the records and of the calls with
`RoundOnCourse`. `SuccessIsTruth` speaks of the end of a round only;
`RoundOnCourse` says what holds on the way there: the call waited for is the
round's own, each tunnel whose push was answered is on the node as the
round read it, what is to be pruned is what the round did not name, and, in a
round that began with nothing outstanding, no other call can undo this. That a
push keeps the other tunnels as they are is the step that takes the work, since it
sets the status of customers they share: it sets it as the same round read it.
`BytesAreConserved` stands on `IInv`: there is at most one answer on its way, and
each action moves a customer's bytes between two of the terms.

`ChargesAreFair` is about arithmetic and not about steps: that the shares of a total by
largest remainder add up to it (`Shares`). The whole parts fall short of the total by less
than the number of files with a remainder, because remainders below `m` sum to less than
`m` for each (`SumBelow`); and one byte for each of the first so many in line adds exactly
that (`FirstOnesAddUp`), by taking away the last in line (`LastInLine`). The sums are treated
as in `MeteringProofs`. `BillsAddUp` carries the equality over any number of reports. Its
invariant `BInv` holds while nothing failed and nothing was withdrawn, as the property
does: then every call is waited for, nothing is there to be pruned and no row is deleted
(`NoRowDeleted`), so usage is of files the panel knows, and each report raises a customer's
bill by what it raises their files' (`ReportBilled`). `TypesHold` adds that bills, bounds and
counts are naturals. The bounds and the price are arbitrary.

**`OperatorsProofs`.** `TypeCorrect` carries the fact the rest needs: a row has an
end date or a term on hold, never both (`Sound`), which each of the edits keeps
whatever it read. `OneStart` and `NoneBack` are action properties over it.
`NobodyIsOrphaned` assumes that a sale has the panel to itself between its check and
its write; the other requests overlap as they like. Its `IInv` adds `Sellers`: a sale
under way is for an operator who is there.

**`RestartProofs`, of `Upkeep`.** `DataIsOfOneState`, where no second restore is asked for while one
is about to be applied. It is stated of `U`, an instance of `Upkeep` over its variables, with
`UpkeepAssumption` as a hypothesis, since an instance brings no assumptions with it. The work is in naming what the data is of while a start is half
way: `Top` is what the database will be of once its log is replayed and a waiting dump is
loaded, `Settled` says the other files are of the same or of the archive whose dump was set aside, and `Half` that each file of a
marked restore is still staged or already in place. `Staging` and `Phases` follow the
request and the start from step to step, `Crash` included: each step must leave `Half`
or `Settled` true for the start that comes after it.

**`CustomersProofs`.** `BegunPlansEnd` assumes `~MayOverlap` (section 3 says what happens
otherwise) and that days are given and not taken. `Current` says that what a request has read
is what its row still is; with the types of the columns, every edit then leaves
a plan that has begun with an end, unless it clears one. `PeriodsAreGivenOnce` and
`RenewalsKeepTheirDay` assume neither: requests may overtake each other and the tick. Their
`DInv` says that the days in the books have been, and that a plan on the tick's list has
a boundary behind it. `dueRenewal` steps from one boundary to the next; here
they are the least set that has the first and is closed under the step, so that what holds of
the first and is kept by a step holds of the one it stops at (`LastBoundaryIsOne`,
`BoundariesKeepTheDay`). The calendar is any sequence of months.

**`ExitsProofs`.** `EveryMarkIsCarried` and `NoRuleIsStale` assume that passes come one at a
time and that rules which are to go can be listed and removed (the two things section 3
shows to matter). `Program` ties the marking program in the kernel to the one remembered,
`LastPlan` says what the plan last carried out left behind (nothing, of the empty one, which
is also what is remembered when none was), `Swept` what the last sweep did,
`Course` what a pass has done so far. A crash
forgets both memories at once, so the next pass takes nothing as done; a wipe takes rules or the
program away and adds none, and `Look` sees what is missing.

**`ConcurrencyProofs`.** The devices, hosts, limit, windows and the clocks' difference are
arbitrary; nothing is assumed of which faults occur. `HistoryInv` says that what the servers
know is true: by `used`, when each device last moved bytes from each host, a device counts
only if it did within the window, counts twice only if it did from two hosts within two
(`SeenOK`), and through a report only within the time that was waited for the answer
and the answer then believed (`ToldOK`). `NobodyWronged` follows by adding up: what
`enforce` counts is at most the pairs of device and host that were used (`SumIsCovered`),
so a hold means that those were more than the limit. `LoneInv`, for `AWalkIsFree`: a
device that moved once and is alone counts one wherever it is counted, and is never
held. `StaysInv`, for `EnoughAreLetIn`, is about each server's book by itself: by the
panel's, enough of all devices are let in, since a decision keeps as many as the plan has and
the ones let in before are counted first (`DecisionLeavesEnough`); a hold on its way to the
node is no longer than the panel's; and while the node holds any off by itself, enough
of its own are let in. A hold of the node's that is not its own is then in
the panel's book too, if the clocks agree or the node's is ahead, so the two together leave enough
as well. The property ends with the first crossing because there the argument does (section 3).
`TypeCorrect` adds to `HistoryInv` that nothing is from the future.

| Theorem | Property |
|---|---|
| `MeteringProofs!TypeCorrect` | `TypeOK` (no run lists it) |
| `MeteringProofs!Conservation` | `BytesConserved` |
| `MeteringProofs!CutOffs` | `CutOffOnlyWhenSpent` |
| `MeteringProofs!SwitchedOffStaysOff` | `StaysOff` |
| `MeteringProofs!FilesAgree` | `FilesMatchCustomer` |
| `MeteringProofs!MeteringRefinesLedger` | `ImplementsLedger` |
| `MeteringProofs!AllowanceKept` | `WithinAllowance` |
| `MeteringProofs!AllowanceHolds`, `SmallAllowanceHolds` | `NobodyBeyond` (no run lists it) |
| `RestartProofs!TypeCorrect` | `TypeOK` (no run lists it) |
| `RestartProofs!NoOpeningTwice` | `NeverAgain` |
| `RestartProofs!FloorCovers` | `NextFloorCovers` (no run lists it) |
| `RestartProofs!PauseBounded` | `PauseIsBounded` |
| `AddressesProofs!HeldAddressesAreUsed` | `HeldIsUsed` |
| `AddressesProofs!NoAddressIsLost` | `UsedIsHeld` |
| `AddressesProofs!AddressesHaveOneOwner` | `OneOwner` |
| `AddressesProofs!PanelStartsAgain` | `StartsAgain` |
| `NodeSyncProofs!RecordsKeepShape`, `TypesHold` | `TypeOK` (no run lists it) |
| `NodeSyncProofs!SuccessLeavesTruth` | `SuccessIsTruth` |
| `NodeSyncProofs!BytesAreConserved` | `Conserved` |
| `NodeSyncProofs!ChargesAreFair` | `ChargesAddUp` |
| `NodeSyncProofs!BillsAddUp` | `BillsAgree` |
| `OperatorsProofs!TypeCorrect` | `TypeOK` (no run lists it) |
| `OperatorsProofs!OneStart` | `TermStartsOnce` |
| `OperatorsProofs!NoneBack` | `StaysSuspended` |
| `OperatorsProofs!NobodyIsOrphaned` | `NoOrphans` |
| `RestartProofs!DataIsOfOneState` | `OneState` |
| `ConcurrencyProofs!TypeCorrect` | `TypeOK` (no run lists it) |
| `ConcurrencyProofs!KnowledgeIsTrue` | `HistoryInv` (no run lists it) |
| `ConcurrencyProofs!NobodyWronged` | `OnlyOverLimit` |
| `ConcurrencyProofs!AWalkIsFree` | `AMoveIsFree` |
| `ConcurrencyProofs!EnoughAreLetIn` | `SomebodyStays` |
| `CustomersProofs!BegunPlansEnd` | `StartedPlansEnd` |
| `CustomersProofs!PeriodsAreGivenOnce` | `RenewalsGoForward` |
| `CustomersProofs!RenewalsKeepTheirDay` | `KeepsItsDay` |
| `ExitsProofs!EveryMarkIsCarried` | `MarksAreCarried` |
| `ExitsProofs!NoRuleIsStale` | `NothingStale` |

**Only model-checked.**

- Liveness, since fairness and ENABLED are out of the prover's reach: `RefusalsEnd`,
  `EverythingIsBilled`, `BlockedInTheEnd`, `LimitKeepsUp`, `CatchesUp`, `OverdueCutOff`,
  `UsedPlansStart`, `StagedIsApplied`, `RunsWhatIsInstalled`, `FollowsStanding`,
  `ExitsComeBack`.
- `EndsInTime`, the one invariant without a theorem. It bounds how long something takes, from a
  device's first byte through a reading, a round, a tick and a hold on its way, or through the
  silence that makes a node decide alone; what is left of each stretch depends on where
  every reading, answer and call is within its unit, on the state of the link since, and
  on what `enforce` keeps while earlier holds run out. Its inductive form would be a bound for
  each of these places, for any order of the windows, and it is not true for every order.

Each run's instance meets the hypotheses of the theorems about its properties. What they
exclude, no run includes: those happenings break the properties, as section 3 shows.

## 5. What is left out of the modelled parts

- Metering: rate limits; the owners' and operators' own totals; traffic samples
  and liveness records; accounts removed while they are counted; kernels without
  named quotas; a commit whose outcome is unknown; traffic that flows while the
  table is gone, which nothing counts; `verify`'s periodic look at the
  table's objects.
- Replay: a clock that steps back; a directory sync that is lost after it
  returned; the gateway's sessions, handshakes and relays.
- Addresses: one account per device and tunnel; foreign keys other than the
  customer's; addresses leased to nodes; imports.
- Nodes: several nodes; handing a tunnel over; renames; what
  `OnRemoveInterface` closes on the node; servers of other kinds than w-ui; the
  panel's own storing of charges, which `Metering` has as a node's report.
- Concurrency: several customers, several nodes; the drivers' own lists of sessions.
- Customers: groups, the trash and its clearing, names and notes, moves between
  operators; hours of a day.
- Upkeep: how an archive is made and checked, schedules and retention; looking for and
  downloading a release, the signature's arithmetic; a torn file.
- Operators: passwords, sessions and tokens, the throttle of sign-ins, what an admin
  may hand down, grants of inbounds.
- Exits: what a rule matches, address translation, the resolver, the panel's own
  mark, block lists and split tunnel; an outbound or balancer deleted while a rule naming
  it is written (`balancers.go:290`), since rules are not in the model.

## 6. Not modelled, and what could follow

In this order, by what they could break:

1. The pool of drivers (`backend/pool.go`): a reopen that fails records an entry without a
   driver over the one still open (`:271`), and what closes it then.
2. The L2TP and PPTP agent (`l2tpagent/agent.go:258`): a pass that fails after its first steps.
3. Rekeying of stealth sessions (`stealthgw/session.go`), and the throttle of sign-ins
   (`api/throttle.go`): counters and timers under one lock each.
4. Scheduled notices (`notify`): a delivery that is repeated or skipped across a restart.

The rest of the repository does not keep state that two steps share: adapters to other panels,
sources of exits, the text of rulesets, configurations, guides and interfaces, requests decoded
and answered one at a time, packaging. `PROJECT.json` lists each with its reason.
