----------------------------- MODULE Concurrency -----------------------------
(***************************************************************************)
(* Holding one customer to the connections their plan allows, on a panel   *)
(* and one of its nodes (src/internal/reconciler/concurrency.go and the    *)
(* tick around it). Each server sees traffic on its own tunnels; the node  *)
(* reports what is live on it; the panel adds the two, decides which       *)
(* devices to hold off, and tells the node. A node decides for itself once *)
(* its panel has been silent for a while.                                  *)
(*                                                                         *)
(* Time is counted in units, the last of which a duration may end in: the  *)
(* windows of the code are multiples of 15 s. A device is one file; it can *)
(* be used from several hosts at a time, which is two people sharing it.   *)
(*                                                                         *)
(* An operator whose name ends in _Wrong is the definition after it with a *)
(* mistake made, for seeing that the properties tell the two apart.        *)
(***************************************************************************)
EXTENDS Integers, FiniteSets, FiniteSetsExt

CONSTANTS
    Devices,        \* the customer's files, by their ids
    OnNode,         \* those on the node's tunnels; the rest are the panel's
    Hosts,          \* where a device's traffic can come from
    Limit,          \* the plan's connections at once
    Window,         \* activeWindow: how long a quiet session counts as live
    HoldFor,        \* how long a hold lasts
    RemoteTTL,      \* how long a node's report is believed
    PanelSilence,   \* how long a node waits before it decides itself
    GiveUp,         \* syncTimeout: how long a call to a node may take
    Ahead,          \* how far the node's clock is ahead of the panel's
    Allowed,        \* what else happens: a set of Happenings
    MaxTime,        \* bound: time units
    MaxSwitches,    \* bound: devices starting and stopping
    MaxFaults       \* bound: links going down, calls lost, restarts

\* "deaf": the node hears the panel while its answers are lost.
\* "restart": the panel's process starts again, and forgets.
Happenings == {"deaf", "restart"}

NoHost == "nowhere"

ASSUME ConcurrencyAssumption ==
    /\ Devices \subseteq Nat /\ IsFiniteSet(Devices)
    /\ OnNode \subseteq Devices
    /\ IsFiniteSet(Hosts) /\ NoHost \notin Hosts
    /\ Limit \in Nat \ {0}
    /\ {Window, HoldFor, RemoteTTL, PanelSilence, GiveUp} \subseteq Nat \ {0}
    /\ Ahead \in Int
    /\ Allowed \subseteq Happenings
    /\ {MaxTime, MaxSwitches, MaxFaults} \subseteq Nat

Servers == {"panel", "node"}
Home == [d \in Devices |-> IF d \in OnNode THEN "node" ELSE "panel"]

\* A time of the year 1, by any clock: every window since has passed.
Never == -(1 + 2 * (Window + HoldFor + RemoteTTL + PanelSilence + GiveUp)
             + (IF Ahead < 0 THEN -Ahead ELSE Ahead))

VARIABLES
    now,        \* the panel's clock
    using,      \* the hosts each device's traffic comes from, now
    served,     \* devices whose peer or session their server lets in
    fresh,      \* those whose counters started over since the last reading
    acts,       \* what its own server has seen of each device
    held,       \* each server's holds: until when
    report,     \* the node's last report, as the panel keeps it
    heard,      \* when the node last heard from the panel
    link,       \* "up", "down" or "deaf"
    answer,     \* the node's answer on its way to the panel
    holdCalls,  \* holds on their way to the node
    oneConnection,  \* whether the node's database is SQLite, with one connection
    push,       \* since when the node's database waits for itself, if it does
    done,       \* what has been done in this time unit: ticks, and the push
    \* what only the properties read
    used,       \* when each device last carried anything from each host
    starts,     \* how often each was started; at least 3 if from two hosts at once
    excused,    \* what less can be promised after: a server that has restarted,
                \* or a node whose answers did not get through
    crossed,    \* whether the panel's holds reached a node that held others off by itself
    tooMany,    \* time units too many have been let through, since one last came back
    switches, faults

userVars == <<using, used, starts, switches>>
serverVars == <<served, fresh, acts, held>>
linkVars == <<report, heard, link, answer, holdCalls, push, excused, crossed>>
vars == <<now, using, served, fresh, acts, held, report, heard, link, answer,
          holdCalls, oneConnection, push, done, used, starts, excused, crossed,
          tooMany, switches, faults>>

Faulty == faults < MaxFaults
elseUnchanged == UNCHANGED <<now, userVars, tooMany, oneConnection>>

Clock(s) == IF s = "node" THEN now + Ahead ELSE now

-----------------------------------------------------------------------------
(* What a server has seen of a device.                                     *)

Unseen == [seen |-> FALSE, moved |-> Never, since |-> Never, addr |-> NoHost,
           flips |-> 0, flipAt |-> Never, addrs |-> [h \in Hosts |-> Never]]

\* Traffic moved, from host h. The count of flips stops at two, from where on
\* two devices are fighting over one file.
Moved(a, h, t) ==
    LET wasLive == t - a.moved < Window
        flipped == a.addr # NoHost /\ h # a.addr
        before  == IF ~wasLive \/ (flipped /\ t - a.flipAt > Window)
                   THEN 0 ELSE a.flips
    IN  [seen   |-> TRUE,
         moved  |-> t,
         since  |-> IF wasLive THEN a.since ELSE t,
         addr   |-> h,
         flips  |-> IF flipped /\ before < 2 THEN before + 1 ELSE before,
         flipAt |-> IF flipped THEN t ELSE a.flipAt,
         addrs  |-> [g \in Hosts |->
                        IF g = h THEN t
                        ELSE IF t - a.addrs[g] >= Window THEN Never
                        ELSE a.addrs[g]]]

Readings_Wrong(d, t) ==
    IF d \notin served THEN {acts[d]}
    ELSE IF ~acts[d].seen
    THEN {Moved([acts[d] EXCEPT !.seen = TRUE], h, t) :
             h \in IF using[d] = {} THEN {NoHost} ELSE using[d]}
    ELSE IF using[d] = {} THEN {acts[d]}
    ELSE {Moved(acts[d], h, t) : h \in using[d]}
         \union (IF d \in fresh THEN {acts[d]} ELSE {})

\* What one reading can make of a device. A device that is not let in is not
\* read; one seen for the first time is remembered and not counted; counters
\* that started over are not traffic until they pass the last reading.
Readings(d, t) ==
    IF d \notin served THEN {acts[d]}
    ELSE IF ~acts[d].seen
    THEN {[acts[d] EXCEPT !.seen = TRUE, !.addr = h] :
             h \in IF using[d] = {} THEN {NoHost} ELSE using[d]}
    ELSE IF using[d] = {} THEN {acts[d]}
    ELSE {Moved(acts[d], h, t) : h \in using[d]}
         \union (IF d \in fresh THEN {acts[d]} ELSE {})

\* A device that went quiet a window ago has gone.
Remembered(a, t) ==
    IF a.since # Never /\ a.moved # Never /\ t - a.moved >= Window
    THEN [a EXCEPT !.since = Never, !.moved = Never] ELSE a

Connections_Wrong(a, t) ==
    LET live == {h \in Hosts : a.addrs[h] # Never}
    IN  IF t - a.moved >= Window THEN 0
        ELSE IF a.flips >= 1 /\ t - a.flipAt < Window /\ Cardinality(live) > 1
        THEN Cardinality(live) ELSE 1

\* How many connections a file carries at t.
Connections(a, t) ==
    LET live == {h \in Hosts : a.addrs[h] # Never}
    IN  IF t - a.moved >= Window THEN 0
        ELSE IF a.flips >= 2 /\ t - a.flipAt < Window /\ Cardinality(live) > 1
        THEN Cardinality(live) ELSE 1

Silent == [n |-> 0, since |-> Never]
NoReport == [at |-> Never, of |-> [d \in OnNode |-> Silent]]

Own(seen, d, t) ==
    IF Connections(seen[d], t) = 0 THEN Silent
    ELSE [n |-> Connections(seen[d], t), since |-> seen[d].since]

\* What server s knows of device d, having seen seen on its own tunnels.
Lookup(s, seen, d) ==
    IF s = Home[d] THEN Own(seen, d, Clock(s))
    ELSE IF Clock(s) - report.at > RemoteTTL THEN Silent
    ELSE report.of[d]

InForce(s, d) == Clock(s) < held[s][d]

\* Whose accounts s has: the panel has them all.
Accounts(s) == IF s = "panel" THEN Devices ELSE OnNode

Enforce_Wrong(s, seen) ==
    LET known == [d \in Accounts(s) |-> Lookup(s, seen, d)]
        live  == {d \in Accounts(s) : known[d].n > 0 /\ ~InForce(s, d)}
        Before(d, e) == \/ known[d].since < known[e].since
                        \/ known[d].since = known[e].since /\ d < e
        kept  == {d \in live : known[d].n = 1
                    /\ Cardinality({e \in live : known[e].n = 1 /\ Before(e, d)}) + 1 < Limit}
    IN  IF SumFunction([d \in live |-> known[d].n]) <= Limit THEN {} ELSE live \ kept

\* The devices s holds off, given what it has seen: all of those over the
\* limit, the oldest connections kept, and every file that is fought over.
Enforce(s, seen) ==
    LET known == [d \in Accounts(s) |-> Lookup(s, seen, d)]
        live  == {d \in Accounts(s) : known[d].n > 0 /\ ~InForce(s, d)}
        Before(d, e) == \/ known[d].since < known[e].since
                        \/ known[d].since = known[e].since /\ d < e
        kept  == {d \in live : known[d].n = 1
                    /\ Cardinality({e \in live : known[e].n = 1 /\ Before(e, d)}) < Limit}
    IN  IF SumFunction([d \in live |-> known[d].n]) <= Limit THEN {} ELSE live \ kept

PanelSilent_Wrong == Clock("node") - heard > Window

\* The panel decides for its customers; the node for the panel's, while the
\* panel is silent.
PanelSilent == Clock("node") - heard > PanelSilence
Decides(s) == s = "panel" \/ PanelSilent

-----------------------------------------------------------------------------
Init ==
    /\ now = 0
    /\ using \in [Devices -> SUBSET Hosts]
    /\ served = Devices
    /\ fresh = {}
    /\ acts = [d \in Devices |-> Unseen]
    /\ held = [s \in Servers |-> [d \in Devices |-> Never]]
    /\ report = NoReport
    /\ heard = Never
    /\ link = "up"
    /\ answer = [at |-> Never]
    /\ holdCalls = {}
    /\ push = Never
    /\ done = {}
    /\ used = [d \in Devices |-> [h \in Hosts |-> IF h \in using[d] THEN 0 ELSE Never]]
    /\ starts = [d \in Devices |-> IF using[d] = {} THEN 0
                                ELSE IF Cardinality(using[d]) = 1 THEN 1 ELSE 3]
    /\ excused = {} /\ crossed = FALSE
    /\ oneConnection \in BOOLEAN
    /\ tooMany = 0
    /\ switches = 0 /\ faults = 0

\* Customers start and stop using a device somewhere, as a time unit begins.
Switch(d, h) ==
    /\ switches < MaxSwitches
    /\ done = {}
    /\ using' = [using EXCEPT ![d] = IF h \in @ THEN @ \ {h} ELSE @ \union {h}]
    /\ used' = IF h \notin using[d] /\ d \in served THEN [used EXCEPT ![d][h] = now]
               ELSE used
    /\ starts' = [starts EXCEPT ![d] = IF h \in using[d] THEN @
                                      ELSE IF using[d] = {} THEN @ + 1 ELSE @ + 3]
    /\ switches' = switches + 1
    /\ tooMany' = 0
    /\ UNCHANGED <<now, serverVars, linkVars, done, faults, oneConnection>>

\* Whether the node's database waits for itself: the transaction that stores a
\* pushed state has its only connection, and applies the hold that came with
\* it through another.
Stuck == push # Never

Carrying(d) == using[d] # {} /\ d \in served

\* More devices carry traffic than the plan allows, where somebody can see it.
OverLimit ==
    LET at(s) == Cardinality({d \in Devices : Home[d] = s /\ Carrying(d)})
    IN  IF link = "up" THEN at("panel") + at("node") > Limit
        ELSE at("panel") > Limit \/ at("node") > Limit

\* Time passes once the servers have done, and once the node has answered
\* if it can; a call to a node does not outlive its timeout.
Pass ==
    /\ now < MaxTime
    /\ "panel" \in done
    /\ ~Stuck => "node" \in done
    /\ link = "up" /\ ~Stuck => report.at = now /\ "push" \in done
    /\ \A at \in {push, answer.at} \union {c.at : c \in holdCalls} :
          at # Never => now - at < GiveUp
    /\ now' = now + 1
    /\ done' = {}
    /\ used' = [d \in Devices |-> [h \in Hosts |->
                    IF d \in served /\ h \in using[d] THEN now + 1 ELSE used[d][h]]]
    /\ tooMany' = IF OverLimit THEN tooMany + 1 ELSE 0
    /\ IF holdCalls = {} /\ answer.at = Never THEN UNCHANGED faults
       ELSE Faulty /\ faults' = faults + 1
    /\ UNCHANGED <<using, starts, serverVars, linkVars, switches, oneConnection>>

\* Within a unit the node ticks first and its state is pushed last: what happens
\* the other way round is what happens a unit later.

\* What server s can see of the devices in one reading of its tunnels: what
\* went quiet has gone, and the other server's devices are not its to see.
Seen(s) ==
    LET outcomes(d) == IF Home[d] = s
                       THEN {Remembered(a, Clock(s)) : a \in Readings(d, Clock(s))}
                       ELSE {acts[d]}
    IN  {f \in [Devices -> UNION {outcomes(d) : d \in Devices}] :
            \A d \in Devices : f[d] \in outcomes(d)}

\* A tick of server s: what its tunnels carried is read, the limit is enforced,
\* and the peers are made to match. A hold that is over leaves the records
\* here, and the device starts afresh. The node is told of its holds at once,
\* aside from the tick.
Tick(s) ==
    /\ s \notin done
    /\ IF s = "node" THEN ~Stuck ELSE Stuck \/ "node" \in done
    /\ \E seen \in Seen(s) :
        LET t     == Clock(s)
            mine  == {d \in Devices : Home[d] = s}
            off   == IF Decides(s) THEN Enforce(s, seen) ELSE {}
            until == [d \in Devices |-> IF d \in off THEN t + HoldFor ELSE held[s][d]]
            over  == {d \in mine : until[d] # Never /\ t > until[d]}
            in    == {d \in mine : until[d] = Never} \union over
        IN  /\ held' = [held EXCEPT ![s] = [d \in Devices |->
                             IF d \in over THEN Never ELSE until[d]]]
            /\ acts' = [d \in Devices |->
                             IF d \in over THEN [seen[d] EXCEPT !.moved = Never]
                             ELSE seen[d]]
            /\ served' = (served \ mine) \union in
            /\ fresh' = (fresh \ mine) \union (in \ served)
            /\ holdCalls' = holdCalls \union
                  {[dev |-> d, until |-> until[d], at |-> now] : d \in off \ mine}
            /\ tooMany' = IF in \subseteq served THEN tooMany ELSE 0
    /\ done' = done \union {s}
    /\ UNCHANGED <<report, heard, link, answer, push, excused, crossed, faults>>
    /\ UNCHANGED <<now, userVars, oneConnection>>

-----------------------------------------------------------------------------
(* Between the panel and the node.                                         *)


\* A round asks the node what is live on it. The node answers with every such
\* device and for how long it has been.
Sessions ==
    /\ "panel" \notin done /\ answer.at = Never /\ report.at < now
    /\ link # "down" /\ ~Stuck
    /\ heard' = Clock("node")
    /\ answer' = [at |-> now,
                  of |-> [d \in OnNode |->
                            LET own == Own(acts, d, Clock("node"))
                            IN  [n |-> own.n, age |-> Clock("node") - own.since]]]
    /\ UNCHANGED <<serverVars, report, link, holdCalls, push, excused, crossed, faults>>
    /\ UNCHANGED done /\ elseUnchanged

\* An answer says ages, so that the two clocks need not agree.
SetRemote ==
    /\ answer.at # Never /\ link = "up"
    /\ report' = [at |-> now,
                  of |-> [d \in OnNode |->
                            IF answer.of[d].n = 0 THEN Silent
                            ELSE [n |-> answer.of[d].n,
                                  since |-> now - answer.of[d].age]]]
    /\ answer' = [at |-> Never]
    /\ UNCHANGED <<serverVars, heard, link, holdCalls, push, excused, crossed, faults>>
    /\ UNCHANGED done /\ elseUnchanged

\* The panel gives the node up for this round.
AnswerLost ==
    /\ answer.at # Never
    /\ link # "up" \/ now - answer.at >= GiveUp
    /\ answer' = [at |-> Never]
    /\ UNCHANGED <<serverVars, report, heard, link, holdCalls, push, excused, crossed, faults>>
    /\ UNCHANGED done /\ elseUnchanged

\* The devices the node holds off by its own decision, and whether, while it does,
\* holds of the panel's reach it for devices that it lets in.
OwnHolds == {d \in OnNode : InForce("node", d) /\ held["node"][d] > held["panel"][d]}
Crosses(devs) == OwnHolds # {} /\ \E d \in devs : ~InForce("node", d)

\* A hold applied on the node: the longer of two is kept.
Longer(old, until) == IF old > until THEN old ELSE until

HoldArrives(c) ==
    /\ link # "down" /\ ~Stuck
    /\ holdCalls' = holdCalls \ {c}
    /\ held' = [held EXCEPT !["node"][c.dev] = Longer(@, c.until)]
    /\ heard' = Clock("node")
    /\ crossed' = (crossed \/ Crosses({d \in {c.dev} : Clock("node") < c.until}))
    /\ UNCHANGED <<served, fresh, acts, report, link, answer, push, excused, faults>>
    /\ UNCHANGED done /\ elseUnchanged

HoldLost(c) ==
    /\ holdCalls' = holdCalls \ {c}
    /\ IF link # "up" \/ now - c.at >= GiveUp THEN UNCHANGED faults
       ELSE Faulty /\ faults' = faults + 1
    /\ UNCHANGED <<serverVars, report, heard, link, answer, push, excused, crossed>>
    /\ UNCHANGED done /\ elseUnchanged

\* Each round pushes the state, with the holds in force, and the node stores
\* it in one transaction and applies the holds from inside it.
Push ==
    /\ "panel" \in done /\ "push" \notin done /\ link # "down" /\ ~Stuck
    /\ heard' = Clock("node")
    /\ LET due == {d \in OnNode : /\ InForce("panel", d)
                                  /\ Clock("node") < held["panel"][d]}
       IN  /\ held' = [held EXCEPT !["node"] = [d \in Devices |->
                          IF d \in due THEN Longer(@[d], held["panel"][d]) ELSE @[d]]]
           /\ push' = IF due # {} /\ oneConnection THEN now ELSE Never
           /\ crossed' = (crossed \/ Crosses(due))
    /\ UNCHANGED <<served, fresh, acts, report, link, answer, holdCalls, excused, faults>>
    /\ done' = done \union {"push"}
    /\ elseUnchanged

\* The panel gives the call up, and nothing of what it carried is stored.
PushFails ==
    /\ Stuck /\ now - push >= GiveUp
    /\ push' = Never
    /\ UNCHANGED <<serverVars, report, heard, link, answer, holdCalls, excused, crossed, faults>>
    /\ UNCHANGED done /\ elseUnchanged

LinkChanges(l) ==
    /\ l # link /\ done = {}
    /\ l = "deaf" => "deaf" \in Allowed
    /\ IF l = "up" THEN UNCHANGED faults ELSE Faulty /\ faults' = faults + 1
    /\ link' = l
    /\ excused' = IF l = "deaf" THEN excused \union {"deaf"} ELSE excused
    /\ UNCHANGED <<serverVars, report, heard, answer, holdCalls, push, crossed>>
    /\ tooMany' = 0
    /\ UNCHANGED <<now, userVars, done, oneConnection>>

\* A process starts again with nothing remembered, and what it was doing ends.
PanelRestarts ==
    /\ "restart" \in Allowed /\ Faulty
    /\ held' = [held EXCEPT !["panel"] = [d \in Devices |-> Never]]
    /\ acts' = [d \in Devices |-> IF d \in OnNode THEN acts[d] ELSE Unseen]
    /\ report' = NoReport
    /\ answer' = [at |-> Never]
    /\ holdCalls' = {}
    /\ push' = Never
    /\ faults' = faults + 1
    /\ excused' = excused \union {"panel"}
    /\ UNCHANGED <<served, fresh, heard, link, crossed>>
    /\ UNCHANGED done /\ elseUnchanged

NodeRestarts ==
    /\ "restart" \in Allowed /\ Faulty
    /\ held' = [held EXCEPT !["node"] = [d \in Devices |-> Never]]
    /\ acts' = [d \in Devices |-> IF d \in OnNode THEN Unseen ELSE acts[d]]
    /\ heard' = Never
    /\ answer' = [at |-> Never]
    /\ push' = Never
    /\ faults' = faults + 1
    /\ excused' = excused \union {"node"}
    /\ UNCHANGED <<served, fresh, report, link, holdCalls, crossed>>
    /\ UNCHANGED done /\ elseUnchanged

Next ==
    \/ Pass
    \/ \E d \in Devices, h \in Hosts : Switch(d, h)
    \/ \E s \in Servers : Tick(s)
    \/ Sessions \/ SetRemote \/ AnswerLost
    \/ \E c \in holdCalls : HoldArrives(c) \/ HoldLost(c)
    \/ Push \/ PushFails
    \/ \E l \in {"up", "down", "deaf"} : LinkChanges(l)
    \/ PanelRestarts \/ NodeRestarts

Spec == Init /\ [][Next]_vars

-----------------------------------------------------------------------------
(* Properties.                                                             *)

TypeOK ==
    /\ now \in 0..MaxTime
    /\ using \in [Devices -> SUBSET Hosts]
    /\ served \subseteq Devices /\ fresh \subseteq served
    /\ \A d \in Devices :
          /\ acts[d].since <= acts[d].moved \/ acts[d].moved = Never
          /\ acts[d].flips \in 0..2
    /\ held \in [Servers -> [Devices -> Int]]
    /\ report.at <= now
    /\ link \in {"up", "down", "deaf"}
    /\ \A c \in holdCalls : c.dev \in OnNode
    /\ push <= now /\ answer.at <= now
    /\ ~oneConnection => ~Stuck
    /\ done \subseteq Servers \union {"push"}

\* How long ago what a decision was taken on can have happened: a device counts
\* for a window, an address of one that is fought over for two, and the answer
\* saying so was waited for and then believed.
Stale(d) == (IF starts[d] <= 2 THEN Window ELSE 2 * Window) + GiveUp + RemoteTTL

\* A customer who keeps to their plan is left alone: whoever decides to hold
\* anything off, the customer's devices really carried more connections than
\* the plan has, near enough at one time. (concurrency.go: enforce, lookup.)
NewHolds(s) == {d \in Devices : s \in done' \ done /\ held'[s][d] > held[s][d]}

OnlyOverLimit ==
    [][\A s \in Servers : NewHolds(s) # {} =>
        Cardinality({p \in Devices \X Hosts : now - used[p[1]][p[2]] < Stale(p[1])}) > Limit]_vars

\* A phone that walks from one network onto another is not a second person: a
\* customer's only device is not held off for having moved once. (moved.)
AMoveIsFree ==
    \A d \in Devices :
        starts[d] <= 2 /\ (\A e \in Devices \ {d} : starts[e] = 0) => d \in served

\* As long as no device was used from two places, the customer always has as many
\* let in as the plan allows (all of them, where there are fewer): what the two
\* servers hold off together is never more, whether they hear each other or not.
\* That is, unless the panel has restarted and forgotten its holds; or they reached
\* the node while it held off others by itself; or the node's clock is behind,
\* since a hold travels as a time of day. (concurrency.go: enforce, lookup.)
SomebodyStays ==
    "panel" \notin excused /\ ~crossed /\ Ahead >= 0 /\ (\A d \in Devices : starts[d] <= 2)
      => Cardinality({d \in Devices : d \in served \/ ~InForce(Home[d], d)})
            >= Min({Limit, Cardinality(Devices)})

\* More connections than the plan allows do not last. While the servers hear each
\* other: two readings before a device counts, the round that reports it, the tick
\* after, which holds off. While they do not: the node waits out the panel's silence
\* and decides alone, by what it sees itself. Each device let back in, and each
\* change of the link, begins this anew. With one connection to the node's database
\* no pushed hold is stored. (panelSilent, enforce, sessionsRound.)
EndsInTime ==
    excused = {} /\ ~oneConnection
      => tooMany <= IF link = "up" THEN 4 ELSE Max({3, PanelSilence + 1})

=============================================================================
