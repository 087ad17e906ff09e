------------------------------- MODULE ExitsProofs -------------------------------
(***************************************************************************)
(* For any outbounds and balancers, whatever crashes and wipes there are   *)
(* and whichever statements fail: after a pass that ended well every mark  *)
(* is carried, and no rule is left over while any hop leads somewhere, nor *)
(* of a hop that is gone, if passes come one at a time and the rules that  *)
(* are to go can be listed and removed.                                    *)
(***************************************************************************)
EXTENDS Exits, WellFoundedInduction, TLAPS

\* The tick runs the passes; the Save button's are left to the runs.
OnePass == \A p, q \in Passes : p = q

Working == {"remove", "floor", "route", "rule"}
Planned == {"program", "compare", "look"} \cup Working

\* Every function has its domain, and a policy is of the hops.
Shape ==
    /\ pass = [p \in Passes |-> pass[p]]
    /\ rule \subseteq Hops /\ floor \subseteq Hops
    /\ \A p \in Passes :
          /\ pass[p].at \in {"idle", "sync"} \cup Planned /\ "at" \in DOMAIN pass[p]
          /\ pass[p].at \in {"sync"} \cup Working => "left" \in DOMAIN pass[p]
          /\ pass[p].at \in Planned => "policy" \in DOMAIN pass[p]
          /\ pass[p].at \in {"floor", "route", "rule"} => "down" \in DOMAIN pass[p]
          /\ pass[p].at = "idle" => pass[p] = Idle
          /\ pass[p].at \in Planned => DOMAIN pass[p].policy \subseteq Hops
          /\ pass[p].at \in Working => pass[p].left \subseteq DOMAIN pass[p].policy
          /\ pass[p].at \in {"route", "rule"} => pass[p].left # {}
          /\ pass[p].at \in {"floor", "route", "rule"} => pass[p].left \subseteq Live(pass[p].policy)

\* The program in the kernel is the one last written, or none, and from its
\* being written to the pass's end that is the pass's own.
Program ==
    /\ marks = NoProgram \/ applied = NoProgram \/ marks = applied
    /\ applied = NoProgram \/ applied \subseteq Hops
    /\ \A p \in Passes : pass[p].at \in Planned \ {"program"} =>
          /\ applied = Live(pass[p].policy)
          /\ marks \in {applied, NoProgram}
          /\ settled = "while it lasts" => marks = applied

\* The plan last carried out has its floors, and no rule is there but its own,
\* until a pass begins to take rules away.
LastPlan ==
    /\ appliedP # NoPlan => DOMAIN appliedP \subseteq Hops
    /\ (\A p \in Passes : pass[p].at \notin Working) /\ appliedP # NoPlan =>
          DOMAIN appliedP \subseteq floor /\ rule \subseteq DOMAIN appliedP

\* No rule is there but of a hop of the last sweep, unless a sweep is due.
Swept ==
    /\ prunedKey # NoHops =>
          \/ rule \subseteq prunedKey
          \/ \E p \in Passes : pass[p].at = "look" /\ pass[p].prune
    /\ \A p \in Passes : pass[p].at \in {"look"} \cup Working => prunedKey = DOMAIN pass[p].policy

\* What a pass has done so far.
Course ==
    \A p \in Passes :
        LET live == Live(pass[p].policy)
            done == live \ pass[p].left
        IN  /\ pass[p].at = "look" /\ pass[p].same => Plan(pass[p].policy) = appliedP
            /\ pass[p].at = "remove" => rule \subseteq live \cup pass[p].left
            /\ pass[p].at \in {"floor", "route", "rule"} => rule \subseteq live
            /\ pass[p].at \in {"floor", "route", "rule"} => done \subseteq floor
            /\ pass[p].at \in {"route", "rule"} => Min(pass[p].left) \in floor
            /\ pass[p].at \in {"floor", "route", "rule"} /\ settled = "while it lasts" =>
                  done \subseteq rule

Results == MarksAreCarried /\ NothingStale /\ (settled = "yes" => \A p \in Passes : pass[p] = Idle)

IInv == Shape /\ Program /\ LastPlan /\ Swept /\ Course /\ Results

LEMMA NotHops == None \notin Hops /\ ~(NoProgram \subseteq Hops)
  BY ExitsAssumption DEF NoProgram, None

LEMMA Initially == Init => IInv
<1> SUFFICES ASSUME Init PROVE IInv
  OBVIOUS
<1> USE DEF Init
<1>1. Shape
  BY DEF Shape, Idle, Planned, Working
<1>2. Program /\ LastPlan /\ Swept
  BY DEF Program, LastPlan, Swept, Idle, Planned, Working
<1>3. Course
  BY DEF Course, Idle
<1>4. Results
  BY DEF Results, MarksAreCarried, NothingStale
<1>5. QED
  BY <1>1, <1>2, <1>3, <1>4 DEF IInv

LEMMA MinIn ==
  ASSUME NEW S \in SUBSET Nat, S # {}
  PROVE  Min(S) \in S
<1> DEFINE R == OpToRel(<, Nat)
<1>1. IsWellFoundedOn(R, Nat) /\ \A x, y \in Nat : y < x => <<y, x>> \in R
  BY NatLessThanWellFounded DEF OpToRel
<1> HIDE DEF R
<1>2. PICK x \in S : \A y \in S : ~(<<y, x>> \in R)
  BY <1>1, WFMin
<1>3. \A y \in S : y \in Nat /\ x \in Nat /\ ~(y < x)
  BY <1>1, <1>2
<1>4. \A y \in S : x <= y
  BY <1>3
<1>5. QED
  BY <1>4 DEF Min

\* The hop a pass is at is one it has left.
LEMMA NextHop ==
  ASSUME IInv, NEW p \in Passes, pass[p].at \in Working, pass[p].left # {}
  PROVE  Min(pass[p].left) \in pass[p].left /\ pass[p].left \subseteq Hops
<1>1. pass[p].left \in SUBSET Nat /\ pass[p].left \subseteq Hops
  BY ExitsAssumption DEF IInv, Shape, Planned, Working
<1>2. QED
  BY <1>1, MinIn

\* What an operator, a process or a device does is beside the point.
LEMMA BesideKeeps ==
  ASSUME IInv, UNCHANGED <<marks, applied, appliedP, prunedKey, rule, floor, pass, settled>>
  PROVE  IInv'
<1>1. Shape' /\ Program'
  BY DEF IInv, Shape, Program, Live
<1>2. LastPlan' /\ Swept'
  BY DEF IInv, LastPlan, Swept
<1>3. Course'
  BY DEF IInv, Course, Live, Plan
<1>4. Results'
  BY DEF IInv, Results, MarksAreCarried, NothingStale
<1>5. QED
  BY <1>1, <1>2, <1>3, <1>4 DEF IInv

LEMMA CrashKeeps ==
  ASSUME IInv, Crash
  PROVE  IInv'
<1> USE DEF Crash
<1>1. pass' = [p \in Passes |-> Idle] /\ settled' = "no" /\ \A p \in Passes : pass'[p].at = "idle"
  BY DEF Idle
<1>2. Shape'
  BY <1>1 DEF IInv, Shape, Idle, Planned, Working
<1>3. Program'
  BY <1>1 DEF Program, Planned, Working
<1>4. LastPlan' /\ Swept'
  BY <1>1 DEF LastPlan, Swept, Idle, Working
<1>5. Course'
  BY <1>1 DEF Course, Idle
<1>6. Results'
  BY <1>1 DEF Results, MarksAreCarried, NothingStale
<1>7. QED
  BY <1>2, <1>3, <1>4, <1>5, <1>6 DEF IInv

LEMMA WipeKeeps ==
  ASSUME IInv, Wipe
  PROVE  IInv'
<1>1. /\ UNCHANGED <<applied, appliedP, prunedKey, floor, pass>> /\ settled' = "no"
      /\ rule' \subseteq rule /\ marks' \in {marks, NoProgram}
  BY DEF Wipe, memory
<1>2. Shape'
  BY <1>1 DEF IInv, Shape, Live
<1>3. Program'
  BY <1>1 DEF IInv, Program, Live
<1>4. LastPlan' /\ Swept'
  BY <1>1 DEF IInv, LastPlan, Swept
<1>5. Course'
  BY <1>1 DEF IInv, Course, Live, Plan
<1>6. Results'
  BY <1>1 DEF Results, MarksAreCarried, NothingStale
<1>7. QED
  BY <1>2, <1>3, <1>4, <1>5, <1>6 DEF IInv

\* A pass that begins, looks over the devices or ends having changed nothing
\* the invariant speaks of.
LEMMA AsideKeeps ==
  ASSUME IInv, OnePass, NEW p \in Passes, NEW next,
         UNCHANGED <<marks, applied, appliedP, prunedKey, rule, floor>>,
         pass' = [pass EXCEPT ![p] = next],
         pass[p].at \notin {"look"} \cup Working \/ (pass[p].at = "look" /\ ~pass[p].prune),
         next.at \in {"idle", "sync"}, "at" \in DOMAIN next,
         next.at = "idle" => next = Idle, next.at = "sync" => "left" \in DOMAIN next,
         settled' \in {settled, "while it lasts"}, settled' # "yes"
  PROVE  IInv'
<1>1. \A q \in Passes : q = p /\ pass'[q] = next
  BY DEF OnePass, IInv, Shape
<1>2. Shape'
  BY <1>1 DEF IInv, Shape, Planned, Working
<1>3. Program'
  BY <1>1 DEF IInv, Program, Planned, Working
<1>4. LastPlan' /\ Swept'
  BY <1>1 DEF IInv, LastPlan, Swept, Working
<1>5. Course'
  BY <1>1 DEF Course
<1>6. Results'
  BY DEF Results, MarksAreCarried, NothingStale
<1>7. QED
  BY <1>2, <1>3, <1>4, <1>5, <1>6 DEF IInv

\* While a pass is under way nothing is settled.
LEMMA Unsettled ==
  ASSUME IInv, NEW p \in Passes, pass[p].at # "idle"
  PROVE  settled # "yes"
  BY DEF IInv, Results, Idle

LEMMA BeginKeeps ==
  ASSUME IInv, OnePass, NEW p \in Passes, Begin(p)
  PROVE  IInv'
<1>1. PICK next : /\ pass' = [pass EXCEPT ![p] = next]
                  /\ next.at = "sync" /\ {"at", "left"} \subseteq DOMAIN next
  <2> DEFINE want == [o \in {q \in Outbounds : On(q)} |-> row[o].config]
             next == [at |-> "sync", want |-> want, had |-> up,
                      left |-> DOMAIN want \cup {o \in Outbounds : up[o] # None}]
  <2>1. pass' = [pass EXCEPT ![p] = next]
    BY DEF Begin, Goes
  <2>2. next.at = "sync" /\ {"at", "left"} \subseteq DOMAIN next
    OBVIOUS
  <2>3. QED
    BY <2>1, <2>2
<1>2. pass[p].at \notin {"look"} \cup Working
  <2>1. pass[p] = Idle
    BY DEF Begin
  <2>2. Idle.at = "idle"
    BY DEF Idle
  <2>3. QED
    BY <2>1, <2>2 DEF Working
<1>3. QED
  BY <1>1, <1>2, AsideKeeps DEF Begin, memory, kernel

LEMMA SyncKeeps ==
  ASSUME IInv, OnePass, NEW p \in Passes, Sync(p)
  PROVE  IInv'
<1>1. PICK o \in Outbounds : LeaveAlone(p, o) \/ TakeDown(p, o)
                             \/ BringDevice(p, o) \/ BringProcess(p, o)
  BY DEF Sync
<1> DEFINE next == [pass[p] EXCEPT !.left = @ \ {o}]
<1>2. pass[p].at = "sync" /\ pass' = [pass EXCEPT ![p] = next]
  <2>1. Syncing(p, o) /\ Visited(p, o)
    BY <1>1 DEF LeaveAlone, TakeDown, BringDevice, BringProcess, ToBring
  <2>2. QED
    BY <2>1 DEF Syncing, Visited, Goes
<1>3. {"at", "left"} \subseteq DOMAIN pass[p]
  BY <1>2 DEF IInv, Shape
<1>4. next.at = "sync" /\ "at" \in DOMAIN next /\ "left" \in DOMAIN next
  BY <1>2, <1>3
<1>5. UNCHANGED <<marks, applied, appliedP, prunedKey, rule, floor, settled>>
  BY <1>1 DEF LeaveAlone, TakeDown, BringDevice, BringProcess, memory, kernel
<1>6. settled # "yes"
  BY <1>2, Unsettled
<1>7. pass[p].at \notin {"look"} \cup Working
  BY <1>2 DEF Working
<1> HIDE DEF next
<1>8. QED
  BY <1>2, <1>4, <1>5, <1>6, <1>7, AsideKeeps

LEMMA ProgramFailsKeeps ==
  ASSUME IInv, OnePass, NEW p \in Passes, ProgramFails(p)
  PROVE  IInv'
<1>1. pass[p].at \in {"program", "compare"} /\ pass' = [pass EXCEPT ![p] = Idle]
      /\ UNCHANGED <<marks, applied, appliedP, prunedKey, rule, floor, settled>>
  BY DEF ProgramFails, EndsBadly, Goes, memory, kernel
<1>2. Idle.at = "idle" /\ "at" \in DOMAIN Idle
  BY DEF Idle
<1>3. settled # "yes" /\ pass[p].at \notin {"look"} \cup Working
  BY <1>1, Unsettled DEF Working
<1>4. QED
  BY <1>1, <1>2, <1>3, AsideKeeps

\* A policy is of the hops there are.
LEMMA PolicyOfHops == DOMAIN Policy \subseteq Hops
  BY DEF Policy

LEMMA ReadPolicyKeeps ==
  ASSUME IInv, OnePass, NEW p \in Passes, ReadPolicy(p)
  PROVE  IInv'
<1> DEFINE policy == Policy
           next == [at |-> "program", policy |-> policy]
<1>1. pass[p].at = "sync" /\ pass' = [pass EXCEPT ![p] = next]
      /\ UNCHANGED <<marks, applied, appliedP, prunedKey, rule, floor, settled>>
  BY DEF ReadPolicy, Goes, memory, kernel
<1>2. DOMAIN policy \subseteq Hops
  BY PolicyOfHops
<1> HIDE DEF policy
<1>3. next.at = "program" /\ next.policy = policy /\ {"at", "policy"} \subseteq DOMAIN next
  OBVIOUS
<1> HIDE DEF next
<1>4. \A q \in Passes : q = p /\ pass'[q] = next
  BY <1>1 DEF OnePass, IInv, Shape
<1>5. Shape'
  BY <1>1, <1>2, <1>3, <1>4 DEF IInv, Shape, Planned, Working
<1>6. Program'
  BY <1>1, <1>3, <1>4 DEF IInv, Program, Planned, Working
<1>7. LastPlan' /\ Swept'
  BY <1>1, <1>3, <1>4 DEF IInv, LastPlan, Swept, Working
<1>8. Course'
  BY <1>3, <1>4 DEF Course
<1>9. Results'
  BY <1>1, Unsettled DEF Results, MarksAreCarried, NothingStale
<1>10. QED
  BY <1>5, <1>6, <1>7, <1>8, <1>9 DEF IInv

LEMMA LoadProgramKeeps ==
  ASSUME IInv, OnePass, NEW p \in Passes, LoadProgram(p)
  PROVE  IInv'
<1> DEFINE script == Live(pass[p].policy)
<1>1. /\ pass[p].at = "program" /\ pass' = [pass EXCEPT ![p] = [pass[p] EXCEPT !.at = "compare"]]
      /\ IF applied = script /\ marks # NoProgram THEN UNCHANGED <<marks, applied>>
         ELSE marks' = script /\ applied' = script
      /\ UNCHANGED <<appliedP, prunedKey, rule, floor, settled>>
  BY DEF LoadProgram, Goes
<1>2. {"at", "policy"} \subseteq DOMAIN pass[p] /\ DOMAIN pass[p].policy \subseteq Hops
  BY <1>1 DEF IInv, Shape, Planned
<1>3. \A q \in Passes :
        /\ q = p /\ pass'[q].at = "compare" /\ pass'[q].policy = pass[p].policy
        /\ {"at", "policy"} \subseteq DOMAIN pass'[q]
  BY <1>1, <1>2 DEF OnePass, IInv, Shape
<1>4. script \subseteq Hops /\ script # NoProgram
  BY <1>2, NotHops DEF Live
<1>5. Shape'
  BY <1>1, <1>2, <1>3 DEF IInv, Shape, Planned, Working
<1>6. applied' = script /\ marks' = script
  BY <1>1, <1>4 DEF IInv, Program
<1>7. Program'
  BY <1>3, <1>4, <1>6 DEF Program
<1>8. LastPlan' /\ Swept'
  BY <1>1, <1>3 DEF IInv, LastPlan, Swept, Working
<1>9. Course'
  BY <1>3 DEF Course
<1>10. Results'
  BY <1>1, Unsettled DEF Results, MarksAreCarried, NothingStale
<1>11. QED
  BY <1>5, <1>7, <1>8, <1>9, <1>10 DEF IInv

LEMMA CompareKeeps ==
  ASSUME IInv, OnePass, NEW p \in Passes, Compare(p)
  PROVE  IInv'
<1> DEFINE policy == pass[p].policy
           next == [at |-> "look", policy |-> policy, same |-> Plan(policy) = appliedP,
                    prune |-> DOMAIN policy # prunedKey]
<1>1. /\ pass[p].at = "compare" /\ pass' = [pass EXCEPT ![p] = next]
      /\ prunedKey' = DOMAIN policy
      /\ UNCHANGED <<marks, applied, appliedP, rule, floor, settled>>
  BY DEF Compare, Goes, kernel
<1>2. DOMAIN policy \subseteq Hops
  BY <1>1 DEF IInv, Shape, Planned
<1>3. /\ next.at = "look" /\ next.policy = policy /\ {"at", "policy"} \subseteq DOMAIN next
      /\ next.same <=> Plan(policy) = appliedP
      /\ next.prune <=> DOMAIN policy # prunedKey
  OBVIOUS
<1> HIDE DEF next
<1>4. \A q \in Passes : q = p /\ pass'[q] = next
  BY <1>1 DEF OnePass, IInv, Shape
<1>5. Shape'
  BY <1>1, <1>2, <1>3, <1>4 DEF IInv, Shape, Planned, Working
<1>6. Program'
  BY <1>1, <1>3, <1>4 DEF IInv, Program, Planned, Working
<1>7. LastPlan'
  BY <1>1, <1>3, <1>4 DEF IInv, LastPlan, Working
<1>8. Swept'
  <2>1. DOMAIN policy # NoHops
    BY <1>2, NotHops DEF NoHops, NoProgram
  <2>2. ~next.prune => rule \subseteq DOMAIN policy
    BY <1>1, <1>3, <1>4, <2>1 DEF IInv, Swept
  <2>3. QED
    BY <1>1, <1>3, <1>4, <2>2 DEF Swept, Working
<1>9. Course'
  BY <1>1, <1>3, <1>4 DEF Course
<1>10. Results'
  BY <1>1, Unsettled DEF Results, MarksAreCarried, NothingStale
<1>11. QED
  BY <1>5, <1>6, <1>7, <1>8, <1>9, <1>10 DEF IInv

\* The plan is the last one, and its rules are there: the pass ends having swept.
LEMMA LookEndsKeeps ==
  ASSUME IInv, OnePass, NEW p \in Passes, Look(p),
         pass[p].same, RulesPresent(pass[p].policy)
  PROVE  IInv'
<1> DEFINE policy == pass[p].policy
           stale == IF pass[p].prune THEN rule \ DOMAIN policy ELSE {}
<1>1. /\ pass[p].at = "look" /\ pass' = [pass EXCEPT ![p] = Idle]
      /\ settled' \in {"yes", "no"} /\ (settled' = "yes" => settled = "while it lasts")
      /\ rule' = rule \ stale /\ floor' = floor \ stale
      /\ UNCHANGED <<marks, applied, appliedP, prunedKey>>
  BY DEF Look, EndsWell, Goes, memory
<1>2. \A q \in Passes : /\ q = p /\ pass'[q] = Idle
                       /\ pass'[q].at = "idle" /\ "at" \in DOMAIN pass'[q]
  <2>1. Idle.at = "idle" /\ "at" \in DOMAIN Idle
    BY DEF Idle
  <2>2. QED
    BY <1>1, <2>1 DEF OnePass, IInv, Shape
<1>3. /\ DOMAIN policy \subseteq Hops /\ Live(policy) \subseteq DOMAIN policy
      /\ Plan(policy) = appliedP /\ prunedKey = DOMAIN policy
      /\ applied = Live(policy)
  BY <1>1 DEF IInv, Shape, Course, Swept, Program, Planned, Live
<1>4. Live(policy) \subseteq rule
  BY DEF RulesPresent
<1>5. rule' \subseteq DOMAIN policy
  <2>1. DOMAIN policy # NoHops
    BY <1>3, NotHops DEF NoHops, NoProgram
  <2>2. ~pass[p].prune => rule \subseteq DOMAIN policy
    BY <1>3, <2>1 DEF IInv, Swept, OnePass
  <2>3. QED
    BY <1>1, <2>2
<1>6. CASE Live(policy) = {}
  <2>1. appliedP = NoPlan
    BY <1>3, <1>6 DEF Plan, NoPlan
  <2>2. Shape'
    BY <1>1, <1>2 DEF IInv, Shape, Planned, Working
  <2>3. Program'
    BY <1>1, <1>2 DEF IInv, Program, Planned, Working
  <2>4. LastPlan' /\ Swept' /\ Course'
    BY <1>1, <1>2, <1>3, <1>5, <2>1 DEF LastPlan, Swept, Course, Working
  <2>5. settled' = "yes" => marks = {}
    BY <1>1, <1>3, <1>6 DEF IInv, Program, Planned
  <2>6. Results'
    BY <1>1, <1>2, <1>3, <1>5, <2>5 DEF Results, MarksAreCarried, NothingStale
  <2>7. QED
    BY <2>2, <2>3, <2>4, <2>6 DEF IInv
<1>7. CASE Live(policy) # {}
  <2>1. DOMAIN appliedP = Live(policy) /\ DOMAIN NoPlan = {}
    BY <1>3 DEF Plan, NoPlan
  <2>2. appliedP # NoPlan
    BY <1>7, <2>1
  <2>3. Live(policy) \subseteq floor /\ rule \subseteq Live(policy)
    BY <1>1, <2>1, <2>2 DEF OnePass, IInv, LastPlan, Working
  <2>4. rule' = rule /\ floor' = floor
    BY <1>1, <1>3, <2>3
  <2>5. Shape'
    BY <1>1, <1>2, <2>4 DEF IInv, Shape, Planned, Working
  <2>6. Program'
    BY <1>1, <1>2 DEF IInv, Program, Planned, Working
  <2>7. LastPlan'
    BY <1>1, <2>1, <2>2, <2>3, <2>4 DEF IInv, LastPlan
  <2>8. Swept' /\ Course'
    BY <1>1, <1>2, <1>3, <1>5 DEF Swept, Course, Working
  <2>9. settled' = "yes" => marks = Live(policy)
    BY <1>1, <1>3 DEF IInv, Program, Planned
  <2>10. Results'
    BY <1>1, <1>2, <1>4, <1>7, <2>3, <2>4, <2>9 DEF Results, MarksAreCarried, NothingStale
  <2>11. QED
    BY <2>5, <2>6, <2>7, <2>8, <2>10 DEF IInv
<1>8. QED
  BY <1>6, <1>7

\* The plan is to be carried out: nothing that no hop of the policy has is there.
LEMMA ToRemoveKeeps ==
  ASSUME IInv, OnePass, NEW p \in Passes, pass[p].at = "look", ToRemove(p),
         UNCHANGED <<marks, applied, appliedP, prunedKey, settled>>,
         rule' \subseteq rule, rule' \subseteq DOMAIN pass[p].policy, floor' \subseteq floor
  PROVE  IInv'
<1> DEFINE policy == pass[p].policy
           next == [at |-> "remove", policy |-> policy, left |-> DOMAIN policy]
<1>1. /\ pass' = [pass EXCEPT ![p] = next]
      /\ next.at = "remove" /\ next.policy = policy /\ next.left = DOMAIN policy
      /\ {"at", "policy", "left"} \subseteq DOMAIN next
  BY DEF ToRemove, Goes
<1> HIDE DEF next
<1>2. \A q \in Passes : q = p /\ pass'[q] = next
  BY <1>1 DEF OnePass, IInv, Shape
<1>3. DOMAIN policy \subseteq Hops /\ prunedKey = DOMAIN policy
  BY DEF IInv, Shape, Swept, Planned
<1>4. Shape'
  BY <1>1, <1>2, <1>3 DEF IInv, Shape, Planned, Working
<1>5. Program'
  BY <1>1, <1>2 DEF IInv, Program, Planned, Working
<1>6. LastPlan'
  BY <1>1, <1>2 DEF IInv, LastPlan, Working
<1>7. Swept'
  BY <1>1, <1>2, <1>3 DEF Swept, Working
<1>8. Course'
  BY <1>1, <1>2 DEF Course
<1>9. Results'
  BY Unsettled DEF Results, MarksAreCarried, NothingStale
<1>10. QED
  BY <1>4, <1>5, <1>6, <1>7, <1>8, <1>9 DEF IInv

LEMMA LookKeeps ==
  ASSUME IInv, OnePass, NEW p \in Passes, Look(p)
  PROVE  IInv'
<1>1. CASE pass[p].same /\ RulesPresent(pass[p].policy)
  BY <1>1, LookEndsKeeps
<1>2. CASE ~(pass[p].same /\ RulesPresent(pass[p].policy))
  <2> DEFINE policy == pass[p].policy
             stale == IF pass[p].prune THEN rule \ DOMAIN policy ELSE {}
  <2>1. /\ pass[p].at = "look" /\ ToRemove(p)
        /\ rule' = rule \ stale /\ floor' = floor \ stale
        /\ UNCHANGED <<marks, applied, appliedP, prunedKey, settled>>
    BY <1>2 DEF Look, memory
  <2>2. ~pass[p].prune => rule \subseteq DOMAIN policy
    <3>1. prunedKey = DOMAIN policy /\ DOMAIN policy \subseteq Hops
      BY <2>1 DEF IInv, Swept, Shape, Planned
    <3>2. prunedKey # NoHops
      BY <3>1, NotHops DEF NoHops, NoProgram
    <3>3. QED
      BY <3>1, <3>2 DEF IInv, Swept, OnePass
  <2>3. rule' \subseteq DOMAIN policy
    BY <2>1, <2>2
  <2>4. QED
    BY <2>1, <2>3, ToRemoveKeeps
<1>3. QED
  BY <1>1, <1>2

LEMMA LookFailsKeeps ==
  ASSUME IInv, OnePass, "unswept" \notin Allowed, NEW p \in Passes, LookFails(p)
  PROVE  IInv'
<1>1. /\ pass[p].at = "look" /\ ~pass[p].prune
      /\ UNCHANGED <<marks, applied, appliedP, prunedKey, rule, floor, settled>>
      /\ pass' = [pass EXCEPT ![p] = Idle] \/ ToRemove(p)
  BY DEF LookFails, EndsBadly, Goes, memory, kernel
<1>2. CASE pass' = [pass EXCEPT ![p] = Idle]
  <2>1. Idle.at = "idle" /\ "at" \in DOMAIN Idle
    BY DEF Idle
  <2>2. settled # "yes"
    BY <1>1, Unsettled
  <2>3. QED
    BY <1>1, <1>2, <2>1, <2>2, AsideKeeps
<1>3. CASE ToRemove(p)
  <2>1. prunedKey = DOMAIN pass[p].policy /\ DOMAIN pass[p].policy \subseteq Hops
    BY <1>1 DEF IInv, Swept, Shape, Planned
  <2>2. rule \subseteq DOMAIN pass[p].policy
    BY <1>1, <2>1, NotHops DEF IInv, Swept, OnePass, NoHops, NoProgram
  <2>3. QED
    BY <1>1, <1>3, <2>2, ToRemoveKeeps
<1>4. QED
  BY <1>1, <1>2, <1>3

-----------------------------------------------------------------------------
(* The plan is carried out.                                                *)

\* A step within the plan: the pass goes on with the same policy.
LEMMA WorkKeeps ==
  ASSUME IInv, OnePass, NEW p \in Passes, pass[p].at \in Working, NEW next,
         pass' = [pass EXCEPT ![p] = next],
         next.at \in Working, next.policy = pass[p].policy,
         {"at", "policy", "left"} \subseteq DOMAIN next,
         next.at # "remove" => "down" \in DOMAIN next,
         next.left \subseteq DOMAIN next.policy,
         next.at \in {"route", "rule"} => next.left # {},
         next.at # "remove" => next.left \subseteq Live(next.policy),
         UNCHANGED <<marks, applied, prunedKey, settled>>, UNCHANGED appliedP,
         rule' \subseteq Hops, floor' \subseteq Hops, rule' \subseteq DOMAIN next.policy,
         next.at = "remove" => rule' \subseteq Live(next.policy) \cup next.left,
         next.at # "remove" => rule' \subseteq Live(next.policy)
                               /\ Live(next.policy) \ next.left \subseteq floor',
         next.at \in {"route", "rule"} => Min(next.left) \in floor',
         next.at # "remove" /\ settled = "while it lasts" =>
               Live(next.policy) \ next.left \subseteq rule'
  PROVE  IInv'
<1>1. \A q \in Passes : q = p /\ pass'[q] = next
  BY DEF OnePass, IInv, Shape
<1>2. DOMAIN next.policy \subseteq Hops /\ prunedKey = DOMAIN next.policy
  BY DEF IInv, Shape, Swept, Planned
<1>3. Shape'
  <2>1. pass' = [q \in Passes |-> pass'[q]]
    BY DEF IInv, Shape
  <2>2. QED
    BY <1>1, <1>2, <2>1 DEF Shape, Planned, Working
<1>4. Program'
  BY <1>1 DEF IInv, Program, Planned, Working
<1>5. LastPlan'
  BY <1>1 DEF IInv, LastPlan
<1>6. Swept'
  BY <1>1, <1>2 DEF Swept
<1>7. Course'
  BY <1>1 DEF Course, Working
<1>8. Results'
  <2>1. settled # "yes"
    BY Unsettled DEF Working
  <2>2. QED
    BY <2>1 DEF Results, MarksAreCarried, NothingStale
<1>9. QED
  BY <1>3, <1>4, <1>5, <1>6, <1>7, <1>8 DEF IInv

\* What is known where a pass is within its plan.
LEMMA AtWork ==
  ASSUME IInv, NEW p \in Passes, pass[p].at \in Working
  PROVE  /\ {"at", "policy", "left"} \subseteq DOMAIN pass[p]
         /\ pass[p].at # "remove" => "down" \in DOMAIN pass[p]
         /\ DOMAIN pass[p].policy \subseteq Hops /\ prunedKey = DOMAIN pass[p].policy
         /\ pass[p].left \subseteq DOMAIN pass[p].policy
         /\ Live(pass[p].policy) \subseteq DOMAIN pass[p].policy
         /\ pass[p].at # "remove" => pass[p].left \subseteq Live(pass[p].policy)
         /\ rule \subseteq Hops /\ floor \subseteq Hops /\ rule \subseteq DOMAIN pass[p].policy
<1>1. prunedKey = DOMAIN pass[p].policy /\ DOMAIN pass[p].policy \subseteq Hops
  BY DEF IInv, Shape, Swept, Planned, Working
<1>2. Live(pass[p].policy) \subseteq DOMAIN pass[p].policy
  BY DEF Live
<1>3. rule \subseteq DOMAIN pass[p].policy
  <2>1. pass[p].left \subseteq DOMAIN pass[p].policy
    BY DEF IInv, Shape
  <2>2. rule \subseteq Live(pass[p].policy) \cup pass[p].left
    BY DEF IInv, Course, Working
  <2>3. QED
    BY <1>2, <2>1, <2>2
<1>4. QED
  BY <1>1, <1>2, <1>3 DEF IInv, Shape, Planned, Working

LEMMA RemoveKeeps ==
  ASSUME IInv, OnePass, "unswept" \notin Allowed, NEW p \in Passes, Remove(p) \/ RemoveFails(p)
  PROVE  IInv'
<1> DEFINE h == Min(pass[p].left)
           live == Live(pass[p].policy)
           next == [pass[p] EXCEPT !.left = @ \ {h}]
<1>1. /\ pass[p].at = "remove" /\ pass[p].left # {}
      /\ pass' = [pass EXCEPT ![p] = next]
      /\ UNCHANGED <<marks, applied, appliedP, prunedKey, settled>>
  BY DEF Remove, RemoveFails, Goes, memory, kernel
<1>2. /\ rule' = rule \ {h} \/ (rule' = rule /\ h \in live)
      /\ floor' \subseteq floor
  BY DEF Remove, RemoveFails, kernel
<1>3. pass[p].at \in Working
  BY <1>1 DEF Working
<1>4. /\ next.at = "remove" /\ next.policy = pass[p].policy /\ next.left = pass[p].left \ {h}
      /\ {"at", "policy", "left"} \subseteq DOMAIN next
  BY <1>1, <1>3, AtWork
<1>5. rule \subseteq live \cup pass[p].left
  BY <1>1 DEF IInv, Course
<1> HIDE DEF next
<1>6. rule' \subseteq live \cup next.left
  BY <1>2, <1>4, <1>5
<1>7. QED
  BY <1>1, <1>2, <1>3, <1>4, <1>6, AtWork, WorkKeeps

LEMMA ToAddKeeps ==
  ASSUME IInv, OnePass, NEW p \in Passes, ToAdd(p)
  PROVE  IInv'
<1> DEFINE policy == pass[p].policy
           next == [at |-> "floor", policy |-> policy, left |-> Live(policy), down |-> FALSE]
<1>1. /\ pass[p].at = "remove" /\ pass[p].left = {}
      /\ pass' = [pass EXCEPT ![p] = next]
      /\ UNCHANGED <<marks, applied, appliedP, prunedKey, settled, rule, floor>>
  BY DEF ToAdd, Goes, memory, kernel
<1>2. /\ next.at = "floor" /\ next.policy = policy /\ next.left = Live(policy)
      /\ {"at", "policy", "left", "down"} \subseteq DOMAIN next
  OBVIOUS
<1> HIDE DEF next
<1>3. rule \subseteq Live(policy)
  BY <1>1 DEF IInv, Course
<1>4. pass[p].at \in Working /\ next.at \in Working
  BY <1>1, <1>2 DEF Working
<1>5. QED
  BY <1>1, <1>2, <1>3, <1>4, AtWork, WorkKeeps

LEMMA AddFloorKeeps ==
  ASSUME IInv, OnePass, NEW p \in Passes, AddFloor(p)
  PROVE  IInv'
<1> DEFINE h == Min(pass[p].left)
           next == [pass[p] EXCEPT !.at = "route"]
<1>1. /\ pass[p].at = "floor" /\ pass[p].left # {}
      /\ pass' = [pass EXCEPT ![p] = next] /\ floor' = floor \cup {h}
      /\ UNCHANGED <<marks, applied, appliedP, prunedKey, settled, rule>>
  BY DEF AddFloor, Goes, memory
<1>2. pass[p].at \in Working
  BY <1>1 DEF Working
<1>3. /\ next.at = "route" /\ next.policy = pass[p].policy /\ next.left = pass[p].left
      /\ {"at", "policy", "left", "down"} \subseteq DOMAIN next
  BY <1>1, <1>2, AtWork
<1> HIDE DEF next
<1>4. h \in pass[p].left /\ pass[p].left \subseteq Hops
  BY <1>1, <1>2, NextHop
<1>5. /\ rule \subseteq Live(pass[p].policy)
      /\ Live(pass[p].policy) \ pass[p].left \subseteq floor
      /\ settled = "while it lasts" => Live(pass[p].policy) \ pass[p].left \subseteq rule
  BY <1>1 DEF IInv, Course
<1>6. next.at \in Working
  BY <1>3 DEF Working
<1>7. QED
  BY <1>1, <1>2, <1>3, <1>4, <1>5, <1>6, AtWork, WorkKeeps

\* Whether the route goes in or not, the rule is next.
LEMMA AddRouteKeeps ==
  ASSUME IInv, OnePass, NEW p \in Passes,
         AddRoute(p) \/ (StatementFails(p) /\ pass[p].at = "route")
  PROVE  IInv'
<1>1. PICK down \in BOOLEAN :
        pass' = [pass EXCEPT ![p] = IF down THEN [pass[p] EXCEPT !.at = "rule", !.down = TRUE]
                                    ELSE [pass[p] EXCEPT !.at = "rule"]]
  BY DEF AddRoute, StatementFails, Goes
<1> DEFINE next == IF down THEN [pass[p] EXCEPT !.at = "rule", !.down = TRUE]
                   ELSE [pass[p] EXCEPT !.at = "rule"]
<1>2. /\ pass[p].at = "route"
      /\ UNCHANGED <<marks, applied, appliedP, prunedKey, settled, rule, floor>>
  BY DEF AddRoute, StatementFails, memory, kernel
<1>3. pass[p].at \in Working /\ pass[p].left # {}
  BY <1>2 DEF Working, IInv, Shape
<1>4. /\ next.at = "rule" /\ next.policy = pass[p].policy /\ next.left = pass[p].left
      /\ {"at", "policy", "left", "down"} \subseteq DOMAIN next
  BY <1>2, <1>3, AtWork
<1>5. pass' = [pass EXCEPT ![p] = next]
  BY <1>1
<1> HIDE DEF next
<1>6. /\ rule \subseteq Live(pass[p].policy)
      /\ Live(pass[p].policy) \ pass[p].left \subseteq floor
      /\ settled = "while it lasts" => Live(pass[p].policy) \ pass[p].left \subseteq rule
      /\ Min(pass[p].left) \in floor
  BY <1>2 DEF IInv, Course
<1>7. next.at \in Working
  BY <1>4 DEF Working
<1>8. QED
  BY <1>2, <1>3, <1>4, <1>5, <1>6, <1>7, AtWork, WorkKeeps

\* A pass that ends short of its plan's end remembers none.
LEMMA BrokenOffKeeps ==
  ASSUME IInv, OnePass, NEW p \in Passes, pass[p].at \in Working,
         pass' = [pass EXCEPT ![p] = Idle], appliedP' = NoPlan,
         UNCHANGED <<marks, applied, prunedKey, rule, floor, settled>>
  PROVE  IInv'
<1>1. Idle.at = "idle" /\ "at" \in DOMAIN Idle
  BY DEF Idle
<1>2. \A q \in Passes : /\ q = p /\ pass'[q] = Idle
                       /\ pass'[q].at = "idle" /\ "at" \in DOMAIN pass'[q]
  BY <1>1 DEF OnePass, IInv, Shape
<1>3. Shape'
  BY <1>2 DEF IInv, Shape, Planned, Working
<1>4. Program'
  BY <1>2 DEF IInv, Program, Planned, Working
<1>5. rule \subseteq prunedKey
  BY AtWork
<1>6. LastPlan' /\ Swept' /\ Course'
  BY <1>2, <1>5 DEF LastPlan, Swept, Course, Working
<1>7. settled # "yes"
  BY Unsettled DEF Working
<1>8. Results'
  BY <1>7 DEF Results, MarksAreCarried, NothingStale
<1>9. QED
  BY <1>3, <1>4, <1>6, <1>8 DEF IInv

LEMMA StatementFailsKeeps ==
  ASSUME IInv, OnePass, NEW p \in Passes, StatementFails(p)
  PROVE  IInv'
<1>1. CASE pass[p].at = "route"
  BY <1>1, AddRouteKeeps
<1>2. CASE pass[p].at # "route"
  <2>1. /\ pass[p].at \in Working
        /\ pass' = [pass EXCEPT ![p] = Idle] /\ appliedP' = NoPlan
        /\ UNCHANGED <<marks, applied, prunedKey, rule, floor, settled>>
    BY <1>2 DEF StatementFails, EndsBadly, Goes, kernel, Working
  <2>2. QED
    BY <2>1, BrokenOffKeeps
<1>3. QED
  BY <1>1, <1>2

LEMMA AddRuleKeeps ==
  ASSUME IInv, OnePass, NEW p \in Passes, AddRule(p)
  PROVE  IInv'
<1> DEFINE h == Min(pass[p].left)
           live == Live(pass[p].policy)
           next == [pass[p] EXCEPT !.at = "floor", !.left = @ \ {h}]
<1>1. pass[p].at = "rule" /\ pass[p].at \in Working /\ pass[p].left # {}
  BY DEF AddRule, Working, IInv, Shape
<1>2. CASE h \in rule
  <2>1. /\ pass' = [pass EXCEPT ![p] = Idle] /\ appliedP' = NoPlan
        /\ UNCHANGED <<marks, applied, prunedKey, rule, floor, settled>>
    BY <1>2 DEF AddRule, EndsBadly, Goes
  <2>2. QED
    BY <1>1, <2>1, BrokenOffKeeps
<1>3. CASE h \notin rule
  <2>1. /\ pass' = [pass EXCEPT ![p] = next] /\ rule' = rule \cup {h}
        /\ UNCHANGED <<marks, applied, appliedP, prunedKey, floor, settled>>
    BY <1>3 DEF AddRule, Goes
  <2>2. /\ next.at = "floor" /\ next.policy = pass[p].policy /\ next.left = pass[p].left \ {h}
        /\ {"at", "policy", "left", "down"} \subseteq DOMAIN next
    BY <1>1, AtWork
  <2> HIDE DEF next
  <2>3. h \in pass[p].left /\ h \in floor /\ pass[p].left \subseteq live
    BY <1>1, NextHop DEF IInv, Course, Shape
  <2>4. /\ rule \subseteq live /\ live \ pass[p].left \subseteq floor
        /\ settled = "while it lasts" => live \ pass[p].left \subseteq rule
    BY <1>1 DEF IInv, Course
  <2>5. next.at \in Working
    BY <2>2 DEF Working
  <2>6. /\ rule' \subseteq live /\ live \ next.left \subseteq floor
        /\ settled = "while it lasts" => live \ next.left \subseteq rule'
    BY <2>1, <2>2, <2>3, <2>4
  <2>7. QED
    BY <1>1, <2>1, <2>2, <2>3, <2>5, <2>6, AtWork, WorkKeeps
<1>4. QED
  BY <1>2, <1>3

LEMMA CarriedKeeps ==
  ASSUME IInv, OnePass, NEW p \in Passes, Carried(p)
  PROVE  IInv'
<1> DEFINE live == Live(pass[p].policy)
<1>1. /\ pass[p].at = "floor" /\ pass[p].left = {} /\ pass[p].at \in Working
      /\ pass' = [pass EXCEPT ![p] = Idle]
      /\ appliedP' \in {NoPlan, Plan(pass[p].policy)}
      /\ settled' \in {"yes", "no"} /\ (settled' = "yes" => settled = "while it lasts")
      /\ UNCHANGED <<marks, applied, prunedKey, rule, floor>>
  BY DEF Carried, EndsWell, Goes, kernel, Working
<1>2. Idle.at = "idle" /\ "at" \in DOMAIN Idle
  BY DEF Idle
<1>3. \A q \in Passes : /\ q = p /\ pass'[q] = Idle
                       /\ pass'[q].at = "idle" /\ "at" \in DOMAIN pass'[q]
  BY <1>1, <1>2 DEF OnePass, IInv, Shape
<1>4. /\ rule \subseteq live /\ live \subseteq floor
      /\ settled = "while it lasts" => live \subseteq rule
  BY <1>1 DEF IInv, Course
<1>5. /\ applied = live /\ marks \in {applied, NoProgram}
      /\ settled = "while it lasts" => marks = applied
  BY <1>1 DEF IInv, Program, Planned
<1>6. Shape'
  BY <1>1, <1>3 DEF IInv, Shape, Planned, Working
<1>7. Program'
  BY <1>1, <1>3 DEF IInv, Program, Planned, Working
<1>8. live \subseteq Hops /\ rule \subseteq prunedKey /\ DOMAIN Plan(pass[p].policy) = live
  BY <1>1, AtWork DEF Plan
<1>9. LastPlan'
  <2>1. appliedP' # NoPlan => DOMAIN appliedP' = live
    BY <1>1, <1>8
  <2>2. QED
    BY <1>1, <1>4, <1>8, <2>1 DEF LastPlan
<1>10. Swept' /\ Course'
  BY <1>1, <1>3, <1>8 DEF Swept, Course, Working
<1>11. Results'
  BY <1>1, <1>3, <1>4, <1>5 DEF Results, MarksAreCarried, NothingStale
<1>12. QED
  BY <1>6, <1>7, <1>9, <1>10, <1>11 DEF IInv

-----------------------------------------------------------------------------
(* Together.                                                               *)

LEMMA Step ==
  ASSUME OnePass, "unswept" \notin Allowed, IInv, [Next]_vars
  PROVE  IInv'
<1>1. CASE Operator
  <2>1. Edit
    BY <1>1 DEF Operator, Switch, Delete, SetOverride, Reconfigure, Checked
  <2>2. QED
    BY <2>1, BesideKeeps DEF Edit, memory, kernel
<1>2. ASSUME NEW o \in Outbounds, ProcessEnds(o) \/ Connected(o) PROVE IInv'
  BY <1>2, BesideKeeps DEF ProcessEnds, Connected, memory
<1>3. CASE Crash \/ Wipe
  BY <1>3, CrashKeeps, WipeKeeps
<1>4. ASSUME NEW p \in Passes, Begin(p) \/ Sync(p) \/ Apply(p) PROVE IInv'
  <2>1. CASE Begin(p) \/ Sync(p)
    BY <2>1, BeginKeeps, SyncKeeps
  <2>2. CASE ReadPolicy(p) \/ LoadProgram(p) \/ ProgramFails(p) \/ Compare(p)
    BY <2>2, ReadPolicyKeeps, LoadProgramKeeps, ProgramFailsKeeps, CompareKeeps
  <2>3. CASE Look(p) \/ LookFails(p)
    BY <2>3, LookKeeps, LookFailsKeeps
  <2>4. CASE Remove(p) \/ RemoveFails(p) \/ ToAdd(p)
    BY <2>4, RemoveKeeps, ToAddKeeps
  <2>5. CASE AddFloor(p) \/ AddRoute(p) \/ AddRule(p)
    BY <2>5, AddFloorKeeps, AddRouteKeeps, AddRuleKeeps
  <2>6. CASE StatementFails(p) \/ Carried(p)
    BY <2>6, StatementFailsKeeps, CarriedKeeps
  <2>7. QED
    BY <1>4, <2>1, <2>2, <2>3, <2>4, <2>5, <2>6 DEF Apply
<1>5. CASE UNCHANGED vars
  BY <1>5, BesideKeeps DEF vars, memory, kernel
<1>6. QED
  BY <1>1, <1>2, <1>3, <1>4, <1>5 DEF Next

LEMMA Inductive ==
  ASSUME OnePass, "unswept" \notin Allowed
  PROVE  Spec => []IInv
<1>1. Init => IInv
  BY Initially
<1>2. IInv /\ [Next]_vars => IInv'
  BY Step
<1>3. QED
  BY <1>1, <1>2, PTL DEF Spec

\* Nothing the program marks goes by the main table after a pass that ended
\* well (applier_linux.go, the comparison with the last plan and with the
\* rules there are; plan.go, the floors): for any hops, policies and edits,
\* whichever statements fail and wherever the panel ends, if passes come one at
\* a time and rules that are to go can be listed and removed.
THEOREM EveryMarkIsCarried ==
  ASSUME OnePass, "unswept" \notin Allowed
  PROVE  Spec => []MarksAreCarried
<1>1. IInv => MarksAreCarried
  BY DEF IInv, Results
<1>2. QED
  BY <1>1, Inductive, PTL

\* And no rule is left of a hop that is gone, nor of one switched off while
\* another leads anywhere (applier_linux.go, pruneRules; plan.go, the removals
\* that begin a plan), under the same assumptions. Where none leads anywhere the
\* empty plan may be taken for the one carried out, and rules of hops the panel
\* still has may stay; nothing is marked for them.
THEOREM NoRuleIsStale ==
  ASSUME OnePass, "unswept" \notin Allowed
  PROVE  Spec => []NothingStale
<1>1. IInv => NothingStale
  BY DEF IInv, Results
<1>2. QED
  BY <1>1, Inductive, PTL

=============================================================================
