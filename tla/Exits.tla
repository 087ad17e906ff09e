--------------------------------- MODULE Exits ---------------------------------
(***************************************************************************)
(* Where a customer's traffic leaves the server: the outbounds an operator *)
(* keeps, the devices they are dialled through (routing/hop_linux.go,      *)
(* hopproc_linux.go), the policy worked out of both (egress/routing.go,    *)
(* balancers.go) and what is put into the kernel for it: a program that    *)
(* marks packets, and for each mark a rule and a table                     *)
(* (routing/plan.go, applier_linux.go).                                    *)
(*                                                                         *)
(* A pass brings the devices up, reads the policy and makes the kernel     *)
(* match, a statement at a time.  It compares what it is about to write    *)
(* with what it wrote before; the kernel, meanwhile, drops a route with    *)
(* the device it leads through, and a process takes its device with it.    *)
(*                                                                         *)
(* An outbound stands for its device, its mark and its table too, all of   *)
(* which are made from its id; a balancer for its mark and its table.      *)
(* Every one of them has a routing rule of the operator's that sends       *)
(* somebody's traffic to it.                                               *)
(***************************************************************************)
EXTENDS Integers, FiniteSets, FiniteSetsExt

CONSTANTS
    Outbounds,      \* the outbounds that are dialled, by their ids
    Owned,          \* those whose device is the tun of a process
    Slow,           \* those whose process may go on connecting: openvpn
    Balancers,      \* by their ids, above the outbounds'
    Members,        \* each balancer's outbounds
    Fallback,       \* and the one it falls back to, or None
    Pings,          \* what a check may find: Failed, or milliseconds
    Passes,         \* what runs a pass: the tick, and the Save button
    Allowed,        \* what else happens: a set of Happenings
    MaxEdits,       \* bound: edits and checks
    MaxFaults       \* bound: crashes, wipes, failed statements

\* "crash": the panel's process ends. "wipe": something else on the server
\* removes the rules or the program. "ip", "nft": a statement fails. "look":
\* listing the rules does. Two more say when these and the edits may come:
\* "lost", also where a route goes with its device though the plan that put it
\* there is not carried out again (a process that has its device ends or is
\* replaced, an edit comes between the two reads of a pass, the program cannot
\* be loaded after a device was taken down); "unswept", also where what failed
\* was the removal of a rule nobody will look for again.
Happenings == {"crash", "wipe", "ip", "nft", "look", "lost", "unswept"}

Hops == Outbounds \cup Balancers
None == 0
Failed == -1

ASSUME ExitsAssumption ==
    /\ Hops \subseteq Nat \ {0} /\ IsFiniteSet(Hops)
    /\ \A o \in Outbounds, b \in Balancers : o < b
    /\ Slow \subseteq Owned /\ Owned \subseteq Outbounds
    /\ Members \in [Balancers -> SUBSET Outbounds]
    /\ Fallback \in [Balancers -> Outbounds \cup {None}]
    /\ Pings \subseteq Nat \cup {Failed}
    /\ Allowed \subseteq Happenings
    /\ {MaxEdits, MaxFaults} \subseteq Nat

VARIABLES
    row,            \* the operator's rows
    up,             \* HopManager.up: what each device was last brought up with
    proc,           \* HopManager.procs: "none", "alive" or "dead"
    dev,            \* the devices that are up
    marks,          \* the marks the loaded program sets, or NoProgram
    rule,           \* the hops with an ip rule from their mark to their table
    floor,          \* the tables with an unreachable route of last resort
    route,          \* the devices each table's default route leads through
    applied,        \* Applier.applied: the program last written, or NoProgram
    appliedP,       \* Applier.appliedP: the plan last carried out, or NoPlan
    prunedKey,      \* Applier.prunedKey: the hops of the last sweep, or NoHops
    pass,           \* where each pass is, and what it has read
    settled,        \* "yes" after a pass that saw all there was to see
    edits, faults

memory == <<up, proc, applied, appliedP, prunedKey>>
kernel == <<dev, marks, rule, floor, route>>
bounds == <<edits, faults>>
vars == <<row, memory, kernel, pass, settled, bounds>>

NoProgram == {None}
NoHops == {None}
Idle == [at |-> "idle"]

Faulty(kind) == kind \in Allowed /\ faults < MaxFaults /\ faults' = faults + 1

-------------------------------------------------------------------------------
(* The policy. *)

\* An id is not given twice.
There(h) == row[h].there
On(o) == o \in Outbounds /\ There(o) /\ row[o].on

\* A member a balancer may use: on, and its last check did not fail.
Usable(o) == On(o) /\ row[o].ping # Failed

\* The fastest of those that have answered; the first of them on a tie.
Fastest(S) ==
    LET timed == {o \in S : row[o].ping > 0}
    IN  IF timed = {} THEN {}
        ELSE LET least == Min({row[o].ping : o \in timed})
             IN  {Min({o \in timed : row[o].ping = least})}

\* Where a balancer's traffic goes now: the override, else the members, else
\* the fallback.
Picked(b) ==
    LET usable == {o \in Members[b] : Usable(o)}
        chosen == IF row[b].fastest THEN Fastest(usable) ELSE usable
    IN  IF Usable(row[b].pin) THEN {row[b].pin}
        ELSE IF chosen # {} THEN chosen
        ELSE {o \in {Fallback[b]} : Usable(o)}

\* The devices each hop is to lead through: none for one that is switched off.
Policy == [h \in {g \in Hops : There(g)} |->
              IF ~row[h].on THEN {}
              ELSE IF h \in Outbounds THEN {h} ELSE Picked(h)]

\* The plan's Add statements, and the program: of the hops that lead anywhere.
Live(policy) == {h \in DOMAIN policy : policy[h] # {}}
Plan(policy) == [h \in Live(policy) |-> policy[h]]

\* No plan is remembered as the plan that adds nothing: both have the empty
\* fingerprint.
NoPlan == [h \in {} |-> {}]

-------------------------------------------------------------------------------
Init ==
    /\ \E fastest \in BOOLEAN :
         row = [h \in Hops |->
                  IF h \in Outbounds THEN [there |-> TRUE, on |-> TRUE, config |-> 1, ping |-> 0]
                  ELSE [there |-> TRUE, on |-> TRUE, pin |-> None, fastest |-> fastest]]
    /\ up = [o \in Outbounds |-> None]
    /\ proc = [o \in Outbounds |-> "none"]
    /\ dev = {} /\ marks = NoProgram /\ rule = {} /\ floor = {}
    /\ route = [h \in Hops |-> {}]
    /\ applied = NoProgram /\ appliedP = NoPlan /\ prunedKey = NoHops
    /\ pass = [p \in Passes |-> Idle]
    /\ settled = "no"
    /\ edits = 0 /\ faults = 0

-------------------------------------------------------------------------------
(* The operator, and the checks of the outbounds. *)

\* Once a pass has read the policy it reads no row again: an edit then is as
\* good as one after the pass.
Edit == /\ edits < MaxEdits /\ edits' = edits + 1
        /\ \A p \in Passes : pass[p] = Idle \/ (pass[p].at = "sync" /\ "lost" \in Allowed)
        /\ UNCHANGED <<memory, kernel, pass, settled, faults>>

Switch(h) ==
    /\ There(h)
    /\ row' = [row EXCEPT ![h].on = ~@]
    /\ Edit

\* A changed profile, outbound or peer.
Reconfigure(o) ==
    /\ There(o) /\ (proc[o] = "alive" => "lost" \in Allowed)
    /\ row' = [row EXCEPT ![o].config = 3 - @]
    /\ Edit

\* One that a balancer lists stays. Its rules are taken to be gone.
Delete(h) ==
    /\ There(h)
    /\ h \in Outbounds => \A b \in Balancers : There(b) => h \notin Members[b]
    /\ row' = [row EXCEPT ![h].there = FALSE]
    /\ Edit

SetOverride(b, o) ==
    /\ There(b) /\ o # row[b].pin
    /\ o \in Members[b] \cup {Fallback[b], None}
    /\ row' = [row EXCEPT ![b].pin = o]
    /\ Edit

\* A check's answer; one under a millisecond counts for none.
Checked(o, ping) ==
    /\ There(o) /\ row[o].ping # ping
    /\ row' = [row EXCEPT ![o].ping = ping]
    /\ Edit

Operator ==
    \/ \E h \in Hops : Switch(h) \/ Delete(h)
    \/ \E b \in Balancers, o \in Outbounds \cup {None} : SetOverride(b, o)
    \/ \E o \in Outbounds : Reconfigure(o) \/ \E ping \in Pings : Checked(o, ping)

-------------------------------------------------------------------------------
(* What goes on in the server besides. *)

\* The kernel takes every route that leads through a device away with it.
Gone(o) ==
    /\ dev' = dev \ {o}
    /\ route' = [h \in Hops |-> IF o \in route[h] THEN {} ELSE route[h]]

\* A process ends, and its tun with it.
ProcessEnds(o) ==
    /\ proc[o] = "alive" /\ (o \in dev => "lost" \in Allowed)
    /\ edits < MaxEdits /\ edits' = edits + 1
    /\ proc' = [proc EXCEPT ![o] = "dead"]
    /\ Gone(o)
    /\ UNCHANGED <<row, up, applied, appliedP, prunedKey, marks, rule, floor, pass,
                   settled, faults>>

\* The far side has let it in.
Connected(o) ==
    /\ proc[o] = "alive" /\ o \notin dev
    /\ dev' = dev \cup {o}
    /\ UNCHANGED <<row, memory, marks, rule, floor, route, pass, settled, bounds>>

\* The panel ends and is started again. Its processes die with it; the kernel
\* keeps the rest.
Crash ==
    /\ Faulty("crash")
    /\ up' = [o \in Outbounds |-> None]
    /\ proc' = [o \in Outbounds |-> "none"]
    /\ dev' = dev \ Owned
    /\ route' = [h \in Hops |-> IF route[h] \cap Owned # {} THEN {} ELSE route[h]]
    /\ applied' = NoProgram /\ appliedP' = NoPlan /\ prunedKey' = NoHops
    /\ pass' = [p \in Passes |-> Idle]
    /\ settled' = "no"
    /\ UNCHANGED <<row, marks, rule, floor, edits>>

Wipe ==
    /\ Faulty("wipe")
    /\ \/ rule' = {} /\ UNCHANGED marks
       \/ marks' = NoProgram /\ UNCHANGED rule
    /\ settled' = "no"
    /\ UNCHANGED <<row, memory, dev, floor, route, pass, edits>>

-------------------------------------------------------------------------------
(* A pass: first the devices (HopManager.Sync). *)

Goes(p, next) == pass' = [pass EXCEPT ![p] = next]

\* It reads which hops are to be up, and looks over those it has up.
Begin(p) ==
    /\ pass[p] = Idle
    /\ LET want == [o \in {q \in Outbounds : On(q)} |-> row[o].config]
       IN  Goes(p, [at |-> "sync", want |-> want, had |-> up,
                    left |-> DOMAIN want \cup {o \in Outbounds : up[o] # None}])
    /\ settled' = "while it lasts"
    /\ UNCHANGED <<row, memory, kernel, bounds>>

\* The next device: those to be taken down come first.
Next1(p) ==
    LET unwanted == pass[p].left \ DOMAIN pass[p].want
    IN  IF unwanted # {} THEN Min(unwanted) ELSE Min(pass[p].left)

Visited(p, o) == Goes(p, [pass[p] EXCEPT !.left = @ \ {o}])

Syncing(p, o) == pass[p].at = "sync" /\ pass[p].left # {} /\ o = Next1(p)

\* Brought up as it is wanted, and its process still runs.
Unchanged(p, o) ==
    o \in DOMAIN pass[p].want
    /\ pass[p].had[o] = pass[p].want[o] /\ (o \in Owned => proc[o] = "alive")

LeaveAlone(p, o) ==
    /\ Syncing(p, o) /\ Unchanged(p, o)
    /\ Visited(p, o)
    /\ UNCHANGED <<row, memory, kernel, settled, bounds>>

TakeDown(p, o) ==
    /\ Syncing(p, o) /\ o \notin DOMAIN pass[p].want
    /\ Gone(o)
    /\ proc' = [proc EXCEPT ![o] = "none"]
    /\ up' = [up EXCEPT ![o] = None]
    /\ Visited(p, o)
    /\ UNCHANGED <<row, applied, appliedP, prunedKey, marks, rule, floor, settled, bounds>>

ToBring(p, o) == Syncing(p, o) /\ o \in DOMAIN pass[p].want /\ ~Unchanged(p, o)

\* A WireGuard device is made if it is not there, and configured where it is;
\* setting it up is the last of it.
BringDevice(p, o) ==
    /\ ToBring(p, o) /\ o \notin Owned
    /\ \/ dev' = dev \cup {o} /\ up' = [up EXCEPT ![o] = pass[p].want[o]]
       \/ UNCHANGED <<dev, up>>
    /\ Visited(p, o)
    /\ UNCHANGED <<row, proc, applied, appliedP, prunedKey, marks, rule, floor, route,
                   settled, bounds>>

\* The old process is stopped, and its tun goes; the new one makes its own, is
\* still at it when the wait is over, or fails.
BringProcess(p, o) ==
    /\ ToBring(p, o) /\ o \in Owned
    /\ route' = [h \in Hops |-> IF o \in route[h] THEN {} ELSE route[h]]
    /\ LET running == /\ proc' = [proc EXCEPT ![o] = "alive"]
                      /\ up' = [up EXCEPT ![o] = pass[p].want[o]]
       IN  \/ running /\ dev' = dev \cup {o}
           \/ o \in Slow /\ running /\ dev' = dev \ {o}
           \/ proc' = [proc EXCEPT ![o] = "none"] /\ dev' = dev \ {o} /\ UNCHANGED up
    /\ Visited(p, o)
    /\ UNCHANGED <<row, applied, appliedP, prunedKey, marks, rule, floor, settled, bounds>>

Sync(p) == \E o \in Outbounds : LeaveAlone(p, o) \/ TakeDown(p, o)
                                \/ BringDevice(p, o) \/ BringProcess(p, o)

-------------------------------------------------------------------------------
(* Then the policy (Applier.Apply). *)

ReadPolicy(p) ==
    /\ pass[p].at = "sync" /\ pass[p].left = {}
    /\ Goes(p, [at |-> "program", policy |-> Policy])
    /\ UNCHANGED <<row, memory, kernel, settled, bounds>>

EndsBadly(p) == Goes(p, Idle) /\ UNCHANGED settled
EndsWell(p) ==
    /\ Goes(p, Idle)
    /\ settled' = IF settled = "while it lasts" /\ \A q \in Passes \ {p} : pass[q] = Idle
                  THEN "yes" ELSE "no"

\* The program is written when it is another than the last, or not there.
LoadProgram(p) ==
    /\ pass[p].at = "program"
    /\ LET script == Live(pass[p].policy)
       IN  IF applied = script /\ marks # NoProgram THEN UNCHANGED <<marks, applied>>
           ELSE marks' = script /\ applied' = script
    /\ Goes(p, [pass[p] EXCEPT !.at = "compare"])
    /\ UNCHANGED <<row, up, proc, appliedP, prunedKey, dev, rule, floor, route, settled, bounds>>

\* Loading the program fails, or the address translation that follows it.
ProgramFails(p) ==
    /\ pass[p].at \in {"program", "compare"} /\ Faulty("nft")
    /\ appliedP # NoPlan => "lost" \in Allowed
    /\ EndsBadly(p)
    /\ UNCHANGED <<row, memory, kernel, edits>>

\* The rules of hops that are gone are swept when the set of hops is another
\* than at the last sweep.
Compare(p) ==
    /\ pass[p].at = "compare"
    /\ LET policy == pass[p].policy
       IN  /\ Goes(p, [at |-> "look", policy |-> policy, same |-> Plan(policy) = appliedP,
                       prune |-> DOMAIN policy # prunedKey])
           /\ prunedKey' = DOMAIN policy
    /\ UNCHANGED <<row, up, proc, applied, appliedP, kernel, settled, bounds>>

ToRemove(p) == Goes(p, [at |-> "remove", policy |-> pass[p].policy,
                        left |-> DOMAIN pass[p].policy])

RulesPresent_Wrong(policy) == TRUE

\* Every rule of the plan is there; its routes are not looked at.
RulesPresent(policy) == Live(policy) \subseteq rule

\* Nothing more to do when the plan is the last one and its rules are there.
Look(p) ==
    /\ pass[p].at = "look"
    /\ LET stale == IF pass[p].prune THEN rule \ DOMAIN pass[p].policy ELSE {}
       IN  /\ rule' = rule \ stale
           /\ floor' = floor \ stale
           /\ route' = [h \in Hops |-> IF h \in stale THEN {} ELSE route[h]]
    /\ IF pass[p].same /\ RulesPresent(pass[p].policy) THEN EndsWell(p)
       ELSE ToRemove(p) /\ UNCHANGED settled
    /\ UNCHANGED <<row, memory, dev, marks, bounds>>

\* What cannot be listed is not swept, and is taken to be there.
LookFails(p) ==
    /\ pass[p].at = "look" /\ Faulty("look")
    /\ pass[p].prune => "unswept" \in Allowed
    /\ IF pass[p].same THEN EndsBadly(p) ELSE ToRemove(p) /\ UNCHANGED settled
    /\ UNCHANGED <<row, memory, kernel, edits>>

Remove_Wrong(p) ==
    /\ pass[p].at = "remove" /\ pass[p].left # {}
    /\ LET h == Min(pass[p].left)
           off == {h} \ Live(pass[p].policy)
       IN  /\ rule' = rule \ ({h} \ off)
           /\ floor' = floor \ off
           /\ route' = [g \in Hops |-> IF g \in off THEN {} ELSE route[g]]
           /\ Goes(p, [pass[p] EXCEPT !.left = @ \ {h}])
    /\ UNCHANGED <<row, memory, dev, marks, settled, bounds>>

\* Every hop's rule, and the table of one that leads nowhere.
Remove(p) ==
    /\ pass[p].at = "remove" /\ pass[p].left # {}
    /\ LET h == Min(pass[p].left)
           off == {h} \ Live(pass[p].policy)
       IN  /\ rule' = rule \ {h}
           /\ floor' = floor \ off
           /\ route' = [g \in Hops |-> IF g \in off THEN {} ELSE route[g]]
           /\ Goes(p, [pass[p] EXCEPT !.left = @ \ {h}])
    /\ UNCHANGED <<row, memory, dev, marks, settled, bounds>>

\* A removal that fails is taken for one that had nothing to remove.
RemoveFails(p) ==
    /\ pass[p].at = "remove" /\ pass[p].left # {} /\ Faulty("ip")
    /\ LET h == Min(pass[p].left)
       IN  /\ h \in Live(pass[p].policy) \/ "unswept" \in Allowed
           /\ Goes(p, [pass[p] EXCEPT !.left = @ \ {h}])
    /\ UNCHANGED <<row, memory, kernel, settled, edits>>

ToAdd(p) ==
    /\ pass[p].at = "remove" /\ pass[p].left = {}
    /\ Goes(p, [at |-> "floor", policy |-> pass[p].policy, left |-> Live(pass[p].policy),
                down |-> FALSE])
    /\ UNCHANGED <<row, memory, kernel, settled, bounds>>

\* Then, for each that leads somewhere, the table's floor...
AddFloor(p) ==
    /\ pass[p].at = "floor" /\ pass[p].left # {}
    /\ floor' = floor \cup {Min(pass[p].left)}
    /\ Goes(p, [pass[p] EXCEPT !.at = "route"])
    /\ UNCHANGED <<row, memory, dev, marks, rule, route, settled, bounds>>

\* ...its route, which goes in when all its devices are there...
AddRoute(p) ==
    /\ pass[p].at = "route"
    /\ LET h == Min(pass[p].left)
           to == pass[p].policy[h]
       IN  IF to \subseteq dev
           THEN route' = [route EXCEPT ![h] = to] /\ Goes(p, [pass[p] EXCEPT !.at = "rule"])
           ELSE UNCHANGED route /\ Goes(p, [pass[p] EXCEPT !.at = "rule", !.down = TRUE])
    /\ UNCHANGED <<row, memory, dev, marks, rule, floor, settled, bounds>>

\* ...and its rule. One that is there already is refused.
AddRule(p) ==
    /\ pass[p].at = "rule"
    /\ LET h == Min(pass[p].left)
       IN  IF h \in rule
           THEN EndsBadly(p) /\ appliedP' = NoPlan /\ UNCHANGED rule
           ELSE /\ rule' = rule \cup {h}
                /\ Goes(p, [pass[p] EXCEPT !.at = "floor", !.left = @ \ {h}])
                /\ UNCHANGED <<appliedP, settled>>
    /\ UNCHANGED <<row, up, proc, applied, prunedKey, dev, marks, floor, route, bounds>>

\* A failed route is a hop that is down; any other failure ends the pass, and
\* the next carries the plan out from the start.
StatementFails(p) ==
    /\ \/ pass[p].at \in {"floor", "rule"} /\ pass[p].left # {}
          /\ EndsBadly(p) /\ appliedP' = NoPlan
       \/ pass[p].at = "route" /\ Goes(p, [pass[p] EXCEPT !.at = "rule", !.down = TRUE])
          /\ UNCHANGED <<appliedP, settled>>
    /\ Faulty("ip")
    /\ UNCHANGED <<row, up, proc, applied, prunedKey, kernel, edits>>

Carried_Wrong(p) ==
    /\ pass[p].at = "floor" /\ pass[p].left = {}
    /\ appliedP' = Plan(pass[p].policy)
    /\ EndsWell(p)
    /\ UNCHANGED <<row, up, proc, applied, prunedKey, kernel, bounds>>

\* Carried out; with a hop that is down, to be carried out again.
Carried(p) ==
    /\ pass[p].at = "floor" /\ pass[p].left = {}
    /\ appliedP' = IF pass[p].down THEN NoPlan ELSE Plan(pass[p].policy)
    /\ EndsWell(p)
    /\ UNCHANGED <<row, up, proc, applied, prunedKey, kernel, bounds>>

Apply(p) == \/ ReadPolicy(p) \/ LoadProgram(p) \/ ProgramFails(p) \/ Compare(p)
            \/ Look(p) \/ LookFails(p) \/ Remove(p) \/ RemoveFails(p) \/ ToAdd(p)
            \/ AddFloor(p) \/ AddRoute(p) \/ AddRule(p) \/ StatementFails(p) \/ Carried(p)

-------------------------------------------------------------------------------
Next ==
    \/ Operator
    \/ \E o \in Outbounds : ProcessEnds(o) \/ Connected(o)
    \/ Crash \/ Wipe
    \/ \E p \in Passes : Begin(p) \/ Sync(p) \/ Apply(p)

Spec == Init /\ [][Next]_vars

\* A pass runs every two seconds, and each of its statements returns.
FairSpec == Spec /\ \A p \in Passes : WF_vars(Begin(p) \/ Sync(p) \/ Apply(p))

-------------------------------------------------------------------------------
Stages == {"idle", "sync", "program", "compare", "look", "remove", "floor", "route", "rule"}
TypeOK ==
    /\ dev \subseteq Outbounds /\ {rule, floor} \subseteq SUBSET Hops
    /\ route \in [Hops -> SUBSET dev]
    /\ \A o \in Outbounds : o \in Owned \cap dev => proc[o] = "alive"
    /\ \A p \in Passes : pass[p].at \in Stages
    /\ settled \in {"no", "while it lasts", "yes"}
    /\ edits \in 0..MaxEdits /\ faults \in 0..MaxFaults

\* A hop is ready when the devices it is to lead through are all up.
Ready(h) == There(h) /\ Policy[h] # {} /\ Policy[h] \subseteq dev
Carries(h) == There(h) /\ h \in rule /\ route[h] = Policy[h]

(***************************************************************************)
(* A hop whose devices stay up is put to use: time and again its rule is   *)
(* there and its table leads through exactly what the policy says, however *)
(* often the panel was restarted, rules were removed by others, statements *)
(* failed and devices came late (Applier.Apply: samePlan, rulesPresent and *)
(* the tolerant route).  Not for good: while any hop is down, every pass   *)
(* takes the rules of all of them away and puts them back.                 *)
(***************************************************************************)
ExitsComeBack == \A h \in Hops : []<>~Ready(h) \/ []<>Carries(h)

(***************************************************************************)
(* After a pass that ended well nothing the program marks goes by the main *)
(* table: every mark has its rule, and behind the rule a table that refuses*)
(* what has no route (plan.go, the table's floor; rulesPresent).           *)
(***************************************************************************)
MarksAreCarried == settled = "yes" => marks \ {None} \subseteq rule \cap floor

(***************************************************************************)
(* And no rule is left of a hop that is gone, nor, while any hop leads     *)
(* somewhere, of one that was switched off or found without members,       *)
(* whenever the panel ended or a statement failed (BuildPlan, pruneRules). *)
(* With no hop that leads anywhere there is nothing to add, which is what  *)
(* the panel also remembers after a start, a hop that was down and a failed*)
(* statement: it then takes no rule away of the hops it still has.         *)
(***************************************************************************)
NothingStale ==
    settled = "yes" => rule \subseteq (IF marks = {} THEN prunedKey ELSE marks)
=============================================================================
