---------------------------- MODULE NodeSyncProofs ----------------------------
(***************************************************************************)
(* What holds of NodeSync for any tunnels, devices, customers, prices and  *)
(* bounds: the records of panel and node keep their shape whatever is lost *)
(* or late, a round that succeeds leaves the node as the panel was, every  *)
(* byte is somewhere once, what a report is charged as is fair, and the    *)
(* bills of customers and of their files agree.                            *)
(***************************************************************************)
EXTENDS NodeSync, FiniteSetTheorems, TLAPS

IInv == RecordsOK /\ RowsOK /\ UsageOK /\ WireOK /\ RoundOnCourse

\* What kind a call is says what is in it.
LEMMA CallKinds ==
    ASSUME NEW c \in Calls
    PROVE  /\ c.waited \in BOOLEAN
           /\ c.kind = "sync" => c \in Pushes
           /\ c.kind = "usage" /\ c.at = "sent" => c \in Questions
           /\ c.kind = "usage" /\ c.at = "pruning" => c \in Prunings
           /\ c.kind = "usage" /\ c.at = "answered" => c \in Reports
           /\ c.at = "pruning" => c.kind = "usage"
           /\ c.kind \in {"sync", "usage"}
           /\ ~c.waited => c.at # "answered" \/ c.kind = "sync"
  BY DEF Calls, Pushes, Questions, Prunings, Reports

\* Deleting rows keeps them consistent and figures natural (upsertClients, Prune).
LEMMA KeptRows ==
    ASSUME UsageOK, NEW kept \in SUBSET Devices, KeepRows(kept)
    PROVE  UsageOK' /\ nodeDevices' = kept
  BY NodeSyncAssumption DEF UsageOK, KeepRows

\* The records are as they should be in every state, whatever is lost or late.
THEOREM Inductive == Spec => []IInv
<1>1. Init => IInv
  <2> SUFFICES ASSUME Init PROVE IInv
    OBVIOUS
  <2> USE NodeSyncAssumption DEF Init
  <2>1. RecordsOK
    BY DEF RecordsOK
  <2>2. RowsOK
    BY DEF RowsOK, Owners
  <2>3. UsageOK
    BY DEF UsageOK, NoUse, NoFiles
  <2>4. WireOK
    BY DEF WireOK, Waiting, Rounds, Idle
  <2>5. RoundOnCourse
    BY DEF RoundOnCourse, Idle
  <2>6. QED
    BY <2>1, <2>2, <2>3, <2>4, <2>5 DEF IInv
<1>2. IInv /\ [Next]_vars => IInv'
  <2> SUFFICES ASSUME IInv, [Next]_vars PROVE IInv'
    OBVIOUS
  <2> USE NodeSyncAssumption DEF IInv
  <2>1. ASSUME NEW t \in Tunnels, AddTunnel(t) PROVE IInv'
    BY <2>1 DEF AddTunnel, Edit, chargeVars, rowVars, usageVars, wireVars,
       RecordsOK, RowsOK, UsageOK, WireOK, Waiting, RoundOnCourse, AsRead
  <2>2. ASSUME NEW t \in Tunnels, DeleteTunnel(t) PROVE IInv'
    BY <2>2 DEF DeleteTunnel, Edit, OnTunnel, chargeVars, rowVars, usageVars, wireVars,
       RecordsOK, RowsOK, UsageOK, WireOK, Waiting, RoundOnCourse, AsRead
  <2>3. ASSUME NEW d \in Devices, AddDevice(d) PROVE IInv'
    BY <2>3 DEF AddDevice, Edit, chargeVars, rowVars, usageVars, wireVars,
       RecordsOK, RowsOK, UsageOK, WireOK, Waiting, RoundOnCourse, AsRead
  <2>4. ASSUME NEW d \in Devices, RemoveDevice(d) PROVE IInv'
    BY <2>4 DEF RemoveDevice, Edit, chargeVars, rowVars, usageVars, wireVars,
       RecordsOK, RowsOK, UsageOK, WireOK, Waiting, RoundOnCourse, AsRead
  <2>5. ASSUME NEW c \in Customers, Switch(c) PROVE IInv'
    BY <2>5 DEF Switch, Edit, chargeVars, rowVars, usageVars, wireVars,
       RecordsOK, RowsOK, UsageOK, WireOK, Waiting, RoundOnCourse, AsRead
  <2>6. ASSUME MonthEnds PROVE IInv'
    BY <2>6 DEF MonthEnds, Edit, recordVars, rowVars, usageVars, wireVars,
       RecordsOK, RowsOK, UsageOK, WireOK, Waiting, RoundOnCourse, AsRead
  <2>7. ASSUME RoundBegins PROVE IInv'
    <3> USE <2>7 DEF RoundBegins, recordVars, rowVars, usageVars
    <3>1. ~Waiting
      BY DEF WireOK
    <3>2. RecordsOK' /\ RowsOK' /\ UsageOK'
      BY DEF RecordsOK, RowsOK, UsageOK
    <3>3. WireOK'
      BY <3>1 DEF WireOK, Waiting, Rounds, RecordsOK
    <3>4. RoundOnCourse'
      BY <3>1 DEF RoundOnCourse, Waiting, RecordsOK
    <3>5. QED
      BY <3>2, <3>3, <3>4
  <2>8. ASSUME NEW t \in Tunnels, Push(t) PROVE IInv'
    <3> USE <2>8 DEF Push, recordVars, rowVars, usageVars
    <3> DEFINE new == [kind |-> "sync", at |-> "sent", waited |-> TRUE,
                       tunnel |-> t, on |-> round.on,
                       devices |-> OnTunnel(round.devices, t)]
    <3>1. new \in Calls /\ calls' = calls \cup {new}
      BY DEF WireOK, Rounds, Idle, Calls, Pushes, OnTunnel
    <3>2. RecordsOK' /\ RowsOK' /\ UsageOK'
      BY DEF RecordsOK, RowsOK, UsageOK
    <3>3. WireOK'
      <4>1. new.waited /\ new.at = "sent"
        OBVIOUS
      <4>2. round' = round /\ ~Waiting /\ round.at = "push"
        OBVIOUS
      <4> HIDE DEF new
      <4>3. QED
        BY <3>1, <4>1, <4>2 DEF WireOK, Waiting
    <3>4. RoundOnCourse'
      BY <3>1 DEF RoundOnCourse, Waiting, AsRead
    <3>5. QED
      BY <3>2, <3>3, <3>4
  <2>9. ASSUME NEW c \in calls, PushAnswered(c) PROVE IInv'
    <3> USE <2>9 DEF PushAnswered, recordVars, rowVars, usageVars
    <3>1. c \in Pushes /\ c.waited /\ round.at = "push"
      BY CallKinds DEF WireOK, Waiting
    <3>2. round' \in Rounds /\ round'.at = "push" /\ round'.tunnels = round.tunnels
          /\ round'.devices = round.devices /\ round'.on = round.on
          /\ round'.clean = round.clean /\ round'.left = round.left \ {c.tunnel}
      BY <3>1 DEF WireOK, Rounds, Idle
    <3>3. RecordsOK' /\ RowsOK' /\ UsageOK'
      BY DEF RecordsOK, RowsOK, UsageOK
    <3>4. WireOK'
      BY <3>2 DEF WireOK, Waiting
    <3>5. \A d \in calls' : ~d.waited
      BY <3>1 DEF WireOK
    <3>6. RoundOnCourse'
      BY <3>1, <3>2, <3>5 DEF RoundOnCourse, AsRead
    <3>7. QED
      BY <3>3, <3>4, <3>6
  <2>10. ASSUME AskUsage PROVE IInv'
    <3> USE <2>10 DEF AskUsage, recordVars, rowVars, usageVars
    <3> DEFINE new == [kind |-> "usage", at |-> "sent", waited |-> TRUE,
                       keep |-> round.tunnels]
    <3>1. new \in Calls /\ calls' = calls \cup {new}
      BY DEF WireOK, Rounds, Idle, Calls, Questions
    <3>2. RecordsOK' /\ RowsOK' /\ UsageOK'
      BY DEF RecordsOK, RowsOK, UsageOK
    <3>3. WireOK'
      <4>1. new.waited /\ new.at = "sent"
        OBVIOUS
      <4>2. round' = round /\ ~Waiting /\ round.at = "push"
        OBVIOUS
      <4> HIDE DEF new
      <4>3. QED
        BY <3>1, <4>1, <4>2 DEF WireOK, Waiting
    <3>4. RoundOnCourse'
      BY <3>1 DEF RoundOnCourse, Waiting, AsRead
    <3>5. QED
      BY <3>2, <3>3, <3>4
  <2>11. ASSUME NEW c \in calls, c.waited, calls' = calls \ {c}, round' = Idle,
                RecordsOK', RowsOK', UsageOK'
         PROVE  IInv'
    <3>1. WireOK' /\ RoundOnCourse'
      BY <2>11 DEF WireOK, Waiting, RoundOnCourse, Rounds, Idle
    <3>2. QED
      BY <2>11, <3>1
  <2>12. ASSUME NEW c \in calls, UsageAnswered(c) PROVE IInv'
    <3>1. c.waited
      BY <2>12 DEF UsageAnswered, WireOK
    <3>2. RecordsOK' /\ RowsOK' /\ UsageOK'
      BY <2>12 DEF UsageAnswered, recordVars, rowVars, usageVars, RecordsOK, RowsOK, UsageOK
    <3>3. QED
      BY <2>11, <2>12, <3>1, <3>2 DEF UsageAnswered
  <2>13. ASSUME NEW c \in calls, RoundFails(c) PROVE IInv'
    <3>1. c.waited
      BY <2>13 DEF RoundFails, WireOK
    <3>2. RecordsOK' /\ RowsOK' /\ UsageOK'
      BY <2>13 DEF RoundFails, recordVars, rowVars, usageVars, RecordsOK, RowsOK, UsageOK
    <3>3. QED
      BY <2>11, <2>13, <3>1, <3>2 DEF RoundFails
  <2>14. ASSUME NEW c \in calls, AnswerLost(c) PROVE IInv'
    <3>1. RecordsOK' /\ RowsOK' /\ UsageOK'
      BY <2>14 DEF AnswerLost, recordVars, rowVars, RecordsOK, RowsOK, UsageOK
    <3>2. QED
      BY <2>11, <2>14, <3>1 DEF AnswerLost
  <2>15. ASSUME NEW c \in calls, GiveUp(c) PROVE IInv'
    <3> USE <2>15 DEF GiveUp
    <3>1. RecordsOK' /\ RowsOK' /\ UsageOK'
      BY DEF recordVars, rowVars, usageVars, RecordsOK, RowsOK, UsageOK
    <3>2. CASE calls' = calls \ {c}
      BY <2>11, <3>1, <3>2
    <3>3. CASE calls' = (calls \ {c}) \cup {[c EXCEPT !.waited = FALSE]}
      <4>1. [c EXCEPT !.waited = FALSE] \in Calls
        <5>1. c \in Calls
          BY DEF WireOK
        <5>2. CASE c \in Pushes
          BY <5>2 DEF Calls, Pushes
        <5>3. CASE c \in Questions
          BY <5>3 DEF Calls, Questions
        <5>4. CASE c \in Prunings
          BY <5>4 DEF Calls, Prunings
        <5>5. QED
          BY <5>1, <5>2, <5>3, <5>4 DEF Calls, Reports
      <4>2. [c EXCEPT !.waited = FALSE].waited = FALSE
            /\ [c EXCEPT !.waited = FALSE].at = c.at
        BY DEF WireOK, Calls, Pushes, Questions, Prunings, Reports
      <4>3. WireOK'
        BY <3>3, <4>1, <4>2 DEF WireOK, Waiting, Rounds, Idle
      <4>4. RoundOnCourse'
        BY DEF RoundOnCourse, Idle
      <4>5. QED
        BY <3>1, <4>3, <4>4
    <3>4. QED
      BY <3>2, <3>3
  <2>16. ASSUME NEW c \in calls, Dropped(c) PROVE IInv'
    BY <2>16 DEF Dropped, recordVars, rowVars, usageVars,
       RecordsOK, RowsOK, UsageOK, WireOK, Waiting, RoundOnCourse, AsRead
  <2>17. ASSUME NEW d \in Devices, Carry(d) PROVE IInv'
    BY <2>17 DEF Carry, recordVars, rowVars, wireVars,
       RecordsOK, RowsOK, UsageOK, WireOK, Waiting, RoundOnCourse, AsRead
  <2>18. ASSUME NEW c \in calls, NEW n \in Calls, n.waited = c.waited,
                n.kind = c.kind, c.at \in {"sent", "pruning"},
                ~c.waited => n.at \in {"sent", "pruning"},
                calls' \in {(calls \ {c}) \cup {n}, calls \ {c}}, round' = round
         PROVE  WireOK'
    BY <2>18, CallKinds DEF WireOK, Waiting
  <2>19. ASSUME NEW c \in calls, c.at \in {"sent", "pruning"}, Refuse(c),
                UNCHANGED <<rowVars, round>>, RecordsOK', RowsOK', UsageOK'
         PROVE  IInv'
    <3> DEFINE n == [c EXCEPT !.at = "refused"]
    <3>1. c \in Calls
      BY DEF WireOK
    <3>2. n \in Calls /\ n.waited = c.waited /\ n.kind = c.kind /\ n.at = "refused"
          /\ (c.kind = "sync" => n.tunnel = c.tunnel /\ n.devices = c.devices /\ n.on = c.on)
      <4>1. CASE c \in Pushes
        BY <4>1 DEF Calls, Pushes
      <4>2. CASE c \in Questions
        BY <4>2 DEF Calls, Questions
      <4>3. CASE c \in Prunings
        BY <4>3 DEF Calls, Prunings
      <4>4. QED
        BY <2>19, <3>1, <4>1, <4>2, <4>3 DEF Calls, Reports
    <3>3. calls' = (calls \ {c}) \cup IF c.waited THEN {n} ELSE {}
      BY <2>19 DEF Refuse, Finished
    <3> HIDE DEF n
    <3>4. WireOK'
      <4>1. CASE c.waited
        BY <2>18, <2>19, <3>2, <3>3, <4>1
      <4>2. CASE ~c.waited
        BY <2>19, <3>3, <4>2 DEF WireOK, Waiting
      <4>3. QED
        BY <4>1, <4>2
    <3>5. RoundOnCourse'
      BY <2>19, <3>1, <3>2, <3>3, CallKinds DEF RoundOnCourse, AsRead, rowVars
    <3>6. QED
      BY <2>19, <3>4, <3>5
  <2>20. ASSUME NEW c \in calls, NodeFails(c) PROVE IInv'
    <3>1. RecordsOK' /\ RowsOK' /\ UsageOK'
      BY <2>20 DEF NodeFails, recordVars, rowVars, usageVars, RecordsOK, RowsOK, UsageOK
    <3>2. QED
      BY <2>19, <2>20, <3>1 DEF NodeFails
  <2>21. ASSUME NEW c \in calls, PruneFails(c) PROVE IInv'
    <3> USE <2>21 DEF PruneFails
    <3> DEFINE n == [c EXCEPT !.left = {}, !.pruned = FALSE]
    <3>1. c \in Prunings
      BY CallKinds DEF WireOK
    <3>2. n \in Calls /\ n.waited = c.waited /\ n.kind = "usage" /\ n.at = "pruning"
          /\ n.keep = c.keep /\ n.left = {} /\ n.pruned = FALSE
      BY <3>1 DEF Calls, Prunings
    <3>3. RecordsOK' /\ RowsOK' /\ UsageOK'
      BY DEF recordVars, rowVars, usageVars, RecordsOK, RowsOK, UsageOK
    <3> HIDE DEF n
    <3>4. calls' = (calls \ {c}) \cup {n}
      BY DEF n
    <3>5. WireOK'
      BY <2>18, <3>2, <3>4
    <3>6. RoundOnCourse'
      BY <3>2, <3>4 DEF RoundOnCourse, AsRead, rowVars
    <3>7. QED
      BY <3>3, <3>5, <3>6
  <2>22. ASSUME NEW c \in calls, PruneReads(c) PROVE IInv'
    <3> USE <2>22 DEF PruneReads
    <3> DEFINE n == [kind |-> "usage", at |-> "pruning", waited |-> c.waited,
                     keep |-> c.keep, left |-> nodeTunnels \ c.keep, pruned |-> TRUE]
    <3>1. c \in Questions
      BY CallKinds DEF WireOK
    <3>2. n \in Calls /\ n.waited = c.waited /\ n.kind = "usage" /\ n.at = "pruning"
          /\ n.keep = c.keep /\ n.left = nodeTunnels \ c.keep
      BY <3>1 DEF Calls, Prunings, Questions, RowsOK
    <3>3. RecordsOK' /\ RowsOK' /\ UsageOK'
      BY DEF recordVars, rowVars, usageVars, RecordsOK, RowsOK, UsageOK
    <3> HIDE DEF n
    <3>4. calls' = (calls \ {c}) \cup {n}
      BY DEF n
    <3>5. WireOK'
      BY <2>18, <3>2, <3>4
    <3>6. RoundOnCourse'
      BY <3>2, <3>4 DEF RoundOnCourse, AsRead, rowVars
    <3>7. QED
      BY <3>3, <3>5, <3>6
  <2>23. ASSUME NEW c \in calls, Drain(c) PROVE IInv'
    <3> USE <2>23 DEF Drain
    <3> DEFINE n == [kind |-> "usage", at |-> "answered", waited |-> TRUE,
                     pruned |-> c.pruned, used |-> nodeUsed, file |-> nodeFile]
    <3>1. c \in Prunings
      BY CallKinds DEF WireOK
    <3>2. n \in Calls /\ n.waited /\ n.kind = "usage" /\ n.at = "answered"
          /\ n.pruned = c.pruned
      BY <3>1 DEF Calls, Reports, Prunings, UsageOK
    <3>3. RecordsOK' /\ RowsOK' /\ UsageOK'
      BY DEF recordVars, rowVars, RecordsOK, RowsOK, UsageOK, NoUse, NoFiles
    <3>4. calls' = (calls \ {c}) \cup IF c.waited THEN {n} ELSE {}
      BY DEF Finished
    <3> HIDE DEF n
    <3>5. WireOK'
      <4>1. CASE c.waited
        BY <2>18, <3>1, <3>2, <3>4, <4>1 DEF Prunings
      <4>2. CASE ~c.waited
        BY <3>4, <4>2 DEF WireOK, Waiting
      <4>3. QED
        BY <4>1, <4>2
    <3>6. RoundOnCourse'
      <4>1. CASE c.waited
        <5>1. round' = round /\ nodeTunnels' = nodeTunnels
              /\ nodeDevices' = nodeDevices /\ nodeStatus' = nodeStatus
          BY DEF rowVars
        <5>2. round.at = "push" /\ round.clean /\ c.pruned => nodeTunnels = round.tunnels
          <6>1. round.at = "push" /\ round.clean =>
                  \A t \in round.tunnels : t \in nodeTunnels
            BY <4>1 DEF RoundOnCourse, AsRead
          <6>2. QED
            BY <4>1, <6>1 DEF RoundOnCourse
        <5>3. QED
          BY <3>2, <3>4, <4>1, <5>1, <5>2 DEF RoundOnCourse, AsRead
      <4>2. CASE ~c.waited
        BY <3>4, <4>2 DEF RoundOnCourse, AsRead, rowVars
      <4>3. QED
        BY <4>1, <4>2
    <3>7. QED
      BY <3>3, <3>5, <3>6
  <2>24. ASSUME NEW c \in calls, Apply(c) PROVE IInv'
    <3>1. c \in Pushes /\ c.at = "sent"
      BY <2>24, CallKinds DEF Apply, WireOK
    <3>2. PICK place \in Places :
            IF TunnelClashes(c) \/ DeviceClashes(c, place)
            THEN Refuse(c) /\ UNCHANGED <<rowVars, usageVars>>
            ELSE /\ nodeTunnels' = nodeTunnels \cup {c.tunnel}
                 /\ KeepRows((nodeDevices \ Withdrawn(c)) \cup c.devices)
                 /\ nodeStatus' = [o \in Customers |->
                       IF o \in Owners(c.devices)
                       THEN IF o \in c.on THEN "active" ELSE "disabled"
                       ELSE IF o \in Owners(nodeDevices') THEN nodeStatus[o] ELSE "none"]
                 /\ Finished(c, [c EXCEPT !.at = "answered"])
      BY <2>24 DEF Apply
    <3>3. RecordsOK' /\ round' = round
      BY <2>24 DEF Apply, recordVars, RecordsOK
    <3>4. CASE TunnelClashes(c) \/ DeviceClashes(c, place)
      <4>1. Refuse(c) /\ UNCHANGED <<rowVars, usageVars>>
        BY <3>2, <3>4
      <4>2. RowsOK' /\ UsageOK'
        BY <4>1 DEF rowVars, usageVars, RowsOK, UsageOK
      <4>3. QED
        BY <2>19, <3>1, <3>3, <4>1, <4>2
    <3>5. CASE ~(TunnelClashes(c) \/ DeviceClashes(c, place))
      <4> DEFINE n == [c EXCEPT !.at = "answered"]
                 kept == (nodeDevices \ Withdrawn(c)) \cup c.devices
      <4>1. /\ nodeTunnels' = nodeTunnels \cup {c.tunnel}
            /\ KeepRows(kept)
            /\ nodeStatus' = [o \in Customers |->
                  IF o \in Owners(c.devices)
                  THEN IF o \in c.on THEN "active" ELSE "disabled"
                  ELSE IF o \in Owners(nodeDevices') THEN nodeStatus[o] ELSE "none"]
            /\ calls' = (calls \ {c}) \cup IF c.waited THEN {n} ELSE {}
        BY <3>2, <3>5 DEF Finished
      <4>2. c.devices \subseteq Devices /\ c.tunnel \in Tunnels
            /\ \A d \in c.devices : On[d] = c.tunnel
        BY <3>1 DEF Pushes
      <4>3. UsageOK' /\ nodeDevices' = kept /\ kept \subseteq Devices
        <5>1. kept \in SUBSET Devices
          BY <4>2 DEF RowsOK
        <5>2. QED
          BY <4>1, <5>1, KeptRows
      <4>4. RowsOK'
        <5>1. nodeTunnels' \subseteq Tunnels /\ \A d \in nodeDevices' : On[d] \in nodeTunnels'
          BY <4>1, <4>2, <4>3 DEF RowsOK
        <5>2. \A o \in Customers :
                /\ nodeStatus'[o] \in {"none", "active", "disabled"}
                /\ nodeStatus'[o] = "none" <=> o \notin Owners(nodeDevices')
          BY <4>1, <4>3 DEF RowsOK, Owners
        <5>3. QED
          BY <4>1, <4>3, <5>1, <5>2 DEF RowsOK
      <4>5. n \in Calls /\ n.waited = c.waited /\ n.kind = "sync" /\ n.at = "answered"
            /\ n.tunnel = c.tunnel /\ n.devices = c.devices /\ n.on = c.on
        BY <3>1 DEF Calls, Pushes
      <4> HIDE DEF n
      <4>6. WireOK'
        <5>1. CASE c.waited
          BY <2>18, <3>1, <3>3, <4>1, <4>5, <5>1 DEF Pushes
        <5>2. CASE ~c.waited
          BY <3>3, <4>1, <5>2 DEF WireOK, Waiting
        <5>3. QED
          BY <5>1, <5>2
      <4>7. RoundOnCourse'
        <5>1. CASE round.at = "push" /\ round.clean
          <6>1. c.waited /\ c.tunnel \in round.left
                /\ c.devices = OnTunnel(round.devices, c.tunnel) /\ c.on = round.on
            BY <3>1, <5>1 DEF RoundOnCourse, Pushes
          <6>2. calls' = {n}
            BY <4>1, <5>1, <6>1 DEF RoundOnCourse, WireOK
          <6>3. round.devices \subseteq Devices
            BY <5>1 DEF WireOK, Rounds, Idle
          <6>4. AsRead(c.tunnel)'
            <7>1. OnTunnel(nodeDevices', c.tunnel) = OnTunnel(round.devices, c.tunnel)
              BY <4>2, <4>3, <6>1 DEF OnTunnel, Withdrawn
            <7>2. QED
              BY <3>3, <4>1, <6>1, <6>3, <7>1 DEF AsRead, Owners, OnTunnel
          <6>5. ASSUME NEW t \in round.tunnels \ round.left PROVE AsRead(t)'
            <7>1. AsRead(t) /\ t # c.tunnel
              BY <5>1, <6>1 DEF RoundOnCourse
            <7>2. OnTunnel(nodeDevices', t) = OnTunnel(round.devices, t)
              BY <4>2, <4>3, <7>1 DEF OnTunnel, Withdrawn, AsRead
            <7>3. ASSUME NEW o \in Owners(OnTunnel(round.devices, t))
                  PROVE  nodeStatus'[o] = IF o \in round.on THEN "active" ELSE "disabled"
              <8>1. o \in Owners(nodeDevices') /\ o \in Customers
                BY <6>3, <7>2 DEF Owners, OnTunnel
              <8>2. QED
                BY <4>1, <6>1, <7>1, <8>1 DEF AsRead
            <7>4. QED
              BY <3>3, <4>1, <7>1, <7>2, <7>3 DEF AsRead
          <6>6. QED
            BY <3>3, <4>5, <5>1, <6>1, <6>2, <6>4, <6>5 DEF RoundOnCourse
        <5>2. CASE ~(round.at = "push" /\ round.clean)
          BY <3>1, <3>3, <4>1, <4>5, <5>2 DEF RoundOnCourse, Pushes
        <5>3. QED
          BY <5>1, <5>2
      <4>8. QED
        BY <3>3, <4>3, <4>4, <4>6, <4>7
    <3>6. QED
      BY <3>4, <3>5
  <2>25. ASSUME NEW c \in calls, PruneOne(c) PROVE IInv'
    <3> USE <2>25 DEF PruneOne
    <3>1. c \in Prunings /\ c.at = "pruning"
      BY CallKinds DEF WireOK
    <3>2. PICK t \in c.left :
            /\ nodeTunnels' = nodeTunnels \ {t}
            /\ KeepRows(nodeDevices \ OnTunnel(nodeDevices, t))
            /\ calls' = {IF b.at = "pruning" THEN [b EXCEPT !.left = @ \ {t}] ELSE b :
                           b \in calls}
      OBVIOUS
    <3> DEFINE next(b) == IF b.at = "pruning" THEN [b EXCEPT !.left = @ \ {t}] ELSE b
    <3>3. ASSUME NEW b \in calls
          PROVE  /\ next(b) \in Calls /\ next(b).kind = b.kind
                 /\ next(b).at = b.at /\ next(b).waited = b.waited
                 /\ b.at = "pruning" => /\ next(b).keep = b.keep /\ next(b).pruned = b.pruned
                                       /\ next(b).left = b.left \ {t}
                 /\ b.at # "pruning" => next(b) = b
      <4>1. CASE b.at = "pruning"
        <5>1. b \in Prunings
          BY <4>1, CallKinds DEF WireOK
        <5>2. QED
          BY <4>1, <5>1 DEF Calls, Prunings
      <4>2. CASE b.at # "pruning"
        BY <4>2 DEF WireOK
      <4>3. QED
        BY <4>1, <4>2
    <3>4. calls' = {next(b) : b \in calls}
      BY <3>2
    <3> HIDE DEF next
    <3>5. RecordsOK' /\ round' = round
      BY DEF recordVars, RecordsOK
    <3>6. UsageOK' /\ nodeDevices' = nodeDevices \ OnTunnel(nodeDevices, t)
      <4>1. nodeDevices \ OnTunnel(nodeDevices, t) \in SUBSET Devices
        BY DEF RowsOK
      <4>2. QED
        BY <3>2, <4>1, KeptRows
    <3>7. nodeStatus' = [o \in Customers |->
              IF o \in Owners(nodeDevices') THEN nodeStatus[o] ELSE "none"]
      OBVIOUS
    <3>8. RowsOK'
      <4>1. nodeTunnels' \subseteq Tunnels /\ nodeDevices' \subseteq Devices
            /\ \A d \in nodeDevices' : On[d] \in nodeTunnels'
        BY <3>2, <3>6 DEF RowsOK, OnTunnel
      <4>2. \A o \in Customers :
              /\ nodeStatus'[o] \in {"none", "active", "disabled"}
              /\ nodeStatus'[o] = "none" <=> o \notin Owners(nodeDevices')
        BY <3>6, <3>7 DEF RowsOK, Owners
      <4>3. QED
        BY <3>7, <4>1, <4>2 DEF RowsOK
    <3>9. WireOK'
      <4>1. calls' \subseteq Calls
            /\ \A b \in calls' : ~b.waited => b.at \in {"sent", "pruning"}
        <5>1. \A b \in calls : ~b.waited => b.at \in {"sent", "pruning"}
          BY DEF WireOK
        <5>2. QED
          BY <3>3, <3>4, <5>1
      <4>2. ASSUME NEW b \in calls', NEW d \in calls', b.waited, d.waited PROVE b = d
        <5>1. PICK b0 \in calls : b = next(b0)
          BY <3>4
        <5>2. PICK d0 \in calls : d = next(d0)
          BY <3>4
        <5>3. b0.waited /\ d0.waited
          BY <3>3, <4>2, <5>1, <5>2
        <5>4. QED
          BY <5>1, <5>2, <5>3 DEF WireOK
      <4>3. Waiting' => Waiting
        BY <3>3, <3>4 DEF Waiting
      <4>4. QED
        BY <3>5, <4>1, <4>2, <4>3 DEF WireOK
    <3>10. RoundOnCourse'
      <4>1. CASE round.at = "push" /\ round.clean
        <5>1. c.waited /\ calls = {c} /\ round.left = {} /\ c.keep = round.tunnels
              /\ c.left \subseteq nodeTunnels \ round.tunnels
              /\ (c.pruned => c.left = nodeTunnels \ round.tunnels)
          BY <3>1, <4>1 DEF RoundOnCourse, WireOK, Prunings
        <5>2. calls' = {next(c)}
          BY <3>4, <5>1
        <5>3. round.devices \subseteq Devices
          BY <4>1 DEF WireOK, Rounds, Idle
        <5>4. ASSUME NEW u \in round.tunnels PROVE AsRead(u)'
          <6>1. AsRead(u) /\ u # t
            BY <4>1, <5>1 DEF RoundOnCourse
          <6>2. OnTunnel(nodeDevices', u) = OnTunnel(round.devices, u)
            BY <3>6, <6>1 DEF OnTunnel, AsRead
          <6>3. ASSUME NEW o \in Owners(OnTunnel(round.devices, u))
                PROVE  nodeStatus'[o] = IF o \in round.on THEN "active" ELSE "disabled"
            <7>1. o \in Owners(nodeDevices') /\ o \in Customers
              BY <5>3, <6>2 DEF Owners, OnTunnel
            <7>2. QED
              BY <3>7, <6>1, <7>1 DEF AsRead
          <6>4. QED
            BY <3>2, <3>5, <6>1, <6>2, <6>3 DEF AsRead
        <5>5. QED
          BY <3>1, <3>2, <3>3, <3>5, <4>1, <5>1, <5>2, <5>4 DEF RoundOnCourse, Prunings
      <4>2. CASE ~(round.at = "push" /\ round.clean)
        <5>1. SUFFICES ASSUME round.at = "push", ~round.clean,
                              NEW b \in calls', b.waited
                       PROVE  /\ b.kind = "sync" => /\ b.tunnel \in round.left
                                 /\ b.devices = OnTunnel(round.devices, b.tunnel)
                                 /\ b.on = round.on
                              /\ b.kind = "usage" => round.left = {}
                              /\ b.kind = "usage" /\ b.at \in {"sent", "pruning"}
                                   => b.keep = round.tunnels
          BY <3>5, <4>2 DEF RoundOnCourse
        <5>2. PICK b0 \in calls : b = next(b0)
          BY <3>4
        <5>3. CASE b0.at = "pruning"
          <6>1. b0.kind = "usage"
            BY <5>3, CallKinds DEF WireOK
          <6>2. QED
            BY <3>3, <5>1, <5>2, <5>3, <6>1 DEF RoundOnCourse
        <5>4. CASE b0.at # "pruning"
          BY <3>3, <5>1, <5>2, <5>4 DEF RoundOnCourse
        <5>5. QED
          BY <5>3, <5>4
      <4>3. QED
        BY <4>1, <4>2
    <3>11. QED
      BY <3>5, <3>6, <3>8, <3>9, <3>10
  <2>26. ASSUME UNCHANGED vars PROVE IInv'
    BY <2>26 DEF vars, recordVars, rowVars, usageVars, wireVars,
       RecordsOK, RowsOK, UsageOK, WireOK, Waiting, RoundOnCourse, AsRead
  <2>27. QED
    BY <2>1, <2>2, <2>3, <2>4, <2>5, <2>6, <2>7, <2>8, <2>9, <2>10, <2>12, <2>13,
       <2>14, <2>15, <2>16, <2>17, <2>20, <2>21, <2>22, <2>23, <2>24, <2>25, <2>26
       DEF Next, Edits, Panel, Awaited, Unawaited, Trouble, Handle
<1>3. QED
  BY <1>1, <1>2, PTL DEF Spec

\* The records of the panel and of the node and what is between them keep their
\* shape: a device's tunnel is there, a customer has a row while they have a
\* device, and one call at a time is waited for (nodesync.go, sync.go).
THEOREM RecordsKeepShape == Spec => [](RecordsOK /\ RowsOK /\ UsageOK /\ WireOK)
<1>1. IInv => RecordsOK /\ RowsOK /\ UsageOK /\ WireOK
  BY DEF IInv
<1>2. QED
  BY <1>1, Inductive, PTL

\* A round that began with no call outstanding and came to its answer has left
\* the node as the panel was: "the next successful push is the whole truth"
\* (sync.go), for any number of tunnels and devices and whatever was lost before.
THEOREM SuccessLeavesTruth == Spec => []SuccessIsTruth
<1>1. IInv => SuccessIsTruth
  <2> SUFFICES ASSUME IInv, round.at = "push", round.clean, NEW a \in Answers
               PROVE  /\ round.tunnels \subseteq nodeTunnels
                      /\ a.pruned => nodeTunnels = round.tunnels
                      /\ \A t \in round.tunnels :
                           OnTunnel(nodeDevices, t) = OnTunnel(round.devices, t)
                      /\ \A c \in Owners(round.devices) :
                           nodeStatus[c] = IF c \in round.on THEN "active" ELSE "disabled"
    BY DEF SuccessIsTruth
  <2>1. a \in calls /\ a.waited /\ a.kind = "usage" /\ a.at = "answered"
    BY DEF Answers, IInv, RoundOnCourse
  <2>2. round.left = {} /\ \A t \in round.tunnels : AsRead(t)
    BY <2>1 DEF IInv, RoundOnCourse
  <2>3. ASSUME NEW c \in Owners(round.devices)
        PROVE  nodeStatus[c] = IF c \in round.on THEN "active" ELSE "disabled"
    <3>1. PICK d \in round.devices : c = Owner[d]
      BY DEF Owners
    <3>2. On[d] \in round.tunnels /\ c \in Owners(OnTunnel(round.devices, On[d]))
      BY <3>1 DEF IInv, RoundOnCourse, Owners, OnTunnel
    <3>3. QED
      BY <2>2, <3>2 DEF AsRead
  <2>4. QED
    BY <2>1, <2>2, <2>3 DEF IInv, RoundOnCourse, AsRead
<1>2. QED
  BY <1>1, Inductive, PTL

\* An answer is to the one call waited for, so there is one.
LEMMA OneAnswer ==
    ASSUME WireOK, NEW a \in calls, a.waited
    PROVE  Answers \subseteq {a}
  BY CallKinds DEF WireOK, Answers

LEMMA ReportedIsNat ==
    ASSUME WireOK, NEW c \in Customers
    PROVE  Reported(c) \in Nat
<1>1. \A a \in Answers : a.used[c] \in Nat
  BY CallKinds DEF Answers, WireOK, Reports
<1>2. Answers # {} => (CHOOSE a \in Answers : TRUE) \in Answers
  OBVIOUS
<1>3. QED
  BY <1>1, <1>2 DEF Reported

\* A step that leaves the answers and the node's usage alone conserves bytes.
LEMMA SameAnswers ==
    ASSUME CountsOK, Conserved, Answers' = Answers,
           UNCHANGED <<nodeUsed, carried, told, lost>>
    PROVE  CountsOK' /\ Conserved'
  BY DEF CountsOK, Conserved, Reported

\* So does one that deletes rows: what they held is lost, and known to be.
LEMMA LostWithRows ==
    ASSUME WireOK, UsageOK, CountsOK, Conserved, NEW kept \in SUBSET Devices, KeepRows(kept),
           Answers' = Answers, UNCHANGED <<carried, told>>
    PROVE  CountsOK' /\ Conserved'
<1>1. \A c \in Customers : /\ nodeUsed'[c] \in {0, nodeUsed[c]}
                           /\ lost'[c] = lost[c] + nodeUsed[c] - nodeUsed'[c]
  BY DEF KeepRows
<1>2. lost' \in [Customers -> Nat]
  BY <1>1 DEF KeepRows, UsageOK, CountsOK
<1>3. \A c \in Customers : Reported(c)' = Reported(c)
  BY DEF Reported
<1>4. \A c \in Customers : Reported(c) \in Nat
  BY ReportedIsNat
<1>5. QED
  BY <1>1, <1>2, <1>3, <1>4 DEF Conserved, CountsOK, UsageOK

\* The counts and where they are, together inductive on IInv.
CInv == CountsOK /\ Conserved

THEOREM Counted == Spec => []CInv
<1>1. Init => CInv
  BY NodeSyncAssumption DEF Init, CInv, CountsOK, Conserved, Reported, Answers, NoUse
<1>2. IInv /\ CInv /\ [Next]_vars => CInv'
  <2> SUFFICES ASSUME IInv, CInv, [Next]_vars PROVE CInv'
    OBVIOUS
  <2> USE NodeSyncAssumption DEF IInv, CInv
  <2>1. ASSUME calls' = calls, UNCHANGED <<nodeUsed, carried, told, lost>> PROVE CInv'
    BY <2>1, SameAnswers DEF Answers
  <2>2. ASSUME Edits \/ RoundBegins \/ UNCHANGED vars PROVE CInv'
    BY <2>1, <2>2 DEF Edits, AddTunnel, DeleteTunnel, AddDevice, RemoveDevice, Switch,
       MonthEnds, RoundBegins, chargeVars, usageVars, wireVars, vars
  <2>3. ASSUME NEW t \in Tunnels, Push(t) PROVE CInv'
    BY <2>3, SameAnswers DEF Push, Answers, chargeVars, usageVars
  <2>4. ASSUME AskUsage PROVE CInv'
    BY <2>4, SameAnswers DEF AskUsage, Answers, chargeVars, usageVars
  <2>5. ASSUME NEW c \in calls, c \notin Answers, calls' = calls \ {c},
               UNCHANGED <<nodeUsed, carried, told, lost>>
        PROVE  CInv'
    BY <2>5, SameAnswers DEF Answers
  <2>6. ASSUME NEW c \in calls, PushAnswered(c) \/ RoundFails(c) \/ Dropped(c) PROVE CInv'
    <3>1. c \notin Answers
      BY <2>6 DEF PushAnswered, RoundFails, Dropped, Answers, WireOK
    <3>2. QED
      BY <2>5, <2>6, <3>1 DEF PushAnswered, RoundFails, Dropped, chargeVars, usageVars
  <2>7. ASSUME NEW c \in calls, c \in Answers, calls' = calls \ {c}
        PROVE  /\ \A o \in Customers : Reported(o) = c.used[o] /\ c.used[o] \in Nat
               /\ \A o \in Customers : Reported(o)' = 0
    <3>1. Answers = {c}
      BY <2>7, OneAnswer DEF Answers, WireOK
    <3>2. Answers' = {}
      BY <2>7, <3>1 DEF Answers
    <3>3. QED
      BY <3>1, <3>2, ReportedIsNat DEF Reported
  <2>8. ASSUME NEW c \in calls, UsageAnswered(c) PROVE CInv'
    <3>1. c \in Answers /\ calls' = calls \ {c}
      BY <2>8 DEF UsageAnswered, Answers
    <3>2. /\ told' = [o \in Customers |-> told[o] + c.used[o]]
          /\ UNCHANGED <<nodeUsed, carried, lost>>
      BY <2>8 DEF UsageAnswered, Plus, usageVars, CountsOK
    <3>3. QED
      BY <2>7, <3>1, <3>2 DEF CountsOK, Conserved, UsageOK
  <2>9. ASSUME NEW c \in calls, AnswerLost(c) PROVE CInv'
    <3>1. CASE c.kind = "usage"
      <4>1. c \in Answers /\ calls' = calls \ {c}
        BY <2>9, <3>1 DEF AnswerLost, Answers
      <4>2. /\ lost' = [o \in Customers |-> lost[o] + c.used[o]]
            /\ UNCHANGED <<nodeUsed, carried, told>>
        BY <2>9, <3>1 DEF AnswerLost, Plus, chargeVars, CountsOK
      <4>3. QED
        BY <2>7, <4>1, <4>2 DEF CountsOK, Conserved, UsageOK
    <3>2. CASE c.kind # "usage"
      BY <2>5, <2>9, <3>2 DEF AnswerLost, Answers, chargeVars
    <3>3. QED
      BY <3>1, <3>2
  <2>10. ASSUME NEW c \in calls, NEW n, c \notin Answers,
                ~ (n.kind = "usage" /\ n.at = "answered"),
                calls' \in {(calls \ {c}) \cup {n}, calls \ {c}}
         PROVE  Answers' = Answers
    BY <2>10 DEF Answers
  <2>11. ASSUME NEW c \in calls, GiveUp(c) PROVE CInv'
    <3> DEFINE n == [c EXCEPT !.waited = FALSE]
    <3>1. n.kind = c.kind /\ n.at = c.at
      BY DEF WireOK, Calls, Pushes, Questions, Prunings, Reports
    <3>2. c \notin Answers /\ calls' \in {(calls \ {c}) \cup {n}, calls \ {c}}
      BY <2>11 DEF GiveUp, Answers
    <3>3. ~ (n.kind = "usage" /\ n.at = "answered")
      BY <2>11, <3>1 DEF GiveUp
    <3> HIDE DEF n
    <3>4. Answers' = Answers
      BY <2>10, <3>2, <3>3
    <3>5. QED
      BY <2>11, <3>4, SameAnswers DEF GiveUp, chargeVars, usageVars
  <2>12. ASSUME NEW c \in calls, Refuse(c), c.at \in {"sent", "pruning"}
         PROVE  Answers' = Answers
    <3> DEFINE n == [c EXCEPT !.at = "refused"]
    <3>1. n.at = "refused"
      BY DEF WireOK, Calls, Pushes, Questions, Prunings, Reports
    <3>2. c \notin Answers /\ calls' \in {(calls \ {c}) \cup {n}, calls \ {c}}
      BY <2>12 DEF Refuse, Finished, Answers
    <3> HIDE DEF n
    <3>3. QED
      BY <2>10, <3>1, <3>2
  <2>13. ASSUME NEW c \in calls, NodeFails(c) PROVE CInv'
    BY <2>12, <2>13, SameAnswers DEF NodeFails, chargeVars, usageVars
  <2>14. ASSUME NEW c \in calls, PruneFails(c) PROVE CInv'
    <3> DEFINE n == [c EXCEPT !.left = {}, !.pruned = FALSE]
    <3>1. c \in Prunings
      BY <2>14, CallKinds DEF PruneFails, WireOK
    <3>2. n.at = "pruning"
      BY <2>14, <3>1 DEF PruneFails, Prunings
    <3>3. c \notin Answers /\ calls' = (calls \ {c}) \cup {n}
      BY <2>14 DEF PruneFails, Answers
    <3> HIDE DEF n
    <3>4. Answers' = Answers
      BY <2>10, <3>2, <3>3
    <3>5. QED
      BY <2>14, <3>4, SameAnswers DEF PruneFails, chargeVars, usageVars
  <2>15. ASSUME NEW c \in calls, PruneReads(c) PROVE CInv'
    <3> DEFINE n == [kind |-> "usage", at |-> "pruning", waited |-> c.waited,
                     keep |-> c.keep, left |-> nodeTunnels \ c.keep, pruned |-> TRUE]
    <3>1. n.at = "pruning"
      OBVIOUS
    <3>2. c \notin Answers /\ calls' = (calls \ {c}) \cup {n}
      BY <2>15 DEF PruneReads, Answers
    <3> HIDE DEF n
    <3>3. Answers' = Answers
      BY <2>10, <3>1, <3>2
    <3>4. QED
      BY <2>15, <3>3, SameAnswers DEF PruneReads, chargeVars, usageVars
  <2>16. ASSUME NEW c \in calls, PruneOne(c) PROVE CInv'
    <3>1. PICK t \in c.left :
            /\ KeepRows(nodeDevices \ OnTunnel(nodeDevices, t))
            /\ calls' = {IF b.at = "pruning" THEN [b EXCEPT !.left = @ \ {t}] ELSE b :
                           b \in calls}
      BY <2>16 DEF PruneOne
    <3> DEFINE next(b) == IF b.at = "pruning" THEN [b EXCEPT !.left = @ \ {t}] ELSE b
    <3>2. ASSUME NEW b \in calls
          PROVE  next(b).at = b.at /\ (b.at # "pruning" => next(b) = b)
      <4>1. CASE b.at = "pruning"
        <5>1. b \in Prunings
          BY <4>1, CallKinds DEF WireOK
        <5>2. QED
          BY <4>1, <5>1 DEF Prunings
      <4>2. CASE b.at # "pruning"
        BY <4>2
      <4>3. QED
        BY <4>1, <4>2
    <3>3. calls' = {next(b) : b \in calls}
      BY <3>1
    <3> HIDE DEF next
    <3>4. Answers' = Answers
      BY <3>2, <3>3 DEF Answers
    <3>5. nodeDevices \ OnTunnel(nodeDevices, t) \in SUBSET Devices
      BY DEF RowsOK
    <3>6. UNCHANGED <<carried, told>>
      BY <2>16 DEF PruneOne, chargeVars
    <3>7. QED
      BY <3>1, <3>4, <3>5, <3>6, LostWithRows
  <2>17. ASSUME NEW c \in calls, Apply(c) PROVE CInv'
    <3>1. c \in Pushes /\ c.at = "sent" /\ UNCHANGED <<carried, told>>
      BY <2>17, CallKinds DEF Apply, WireOK, chargeVars
    <3>2. CASE Refuse(c) /\ UNCHANGED <<rowVars, usageVars>>
      <4>1. Answers' = Answers
        BY <2>12, <3>1, <3>2
      <4>2. QED
        BY <3>1, <3>2, <4>1, SameAnswers DEF usageVars
    <3>3. CASE /\ KeepRows((nodeDevices \ Withdrawn(c)) \cup c.devices)
               /\ Finished(c, [c EXCEPT !.at = "answered"])
      <4> DEFINE n == [c EXCEPT !.at = "answered"]
      <4>1. n.kind = "sync"
        BY <3>1 DEF Pushes
      <4>2. c \notin Answers /\ calls' \in {(calls \ {c}) \cup {n}, calls \ {c}}
        BY <3>1, <3>3 DEF Finished, Answers
      <4>3. (nodeDevices \ Withdrawn(c)) \cup c.devices \in SUBSET Devices
        BY <3>1 DEF RowsOK, Pushes
      <4> HIDE DEF n
      <4>4. Answers' = Answers
        BY <2>10, <4>1, <4>2
      <4>5. QED
        BY <3>1, <3>3, <4>3, <4>4, LostWithRows
    <3>4. QED
      BY <2>17, <3>2, <3>3 DEF Apply
  <2>18. ASSUME NEW c \in calls, Drain(c) PROVE CInv'
    <3> DEFINE n == [kind |-> "usage", at |-> "answered", waited |-> TRUE,
                     pruned |-> c.pruned, used |-> nodeUsed, file |-> nodeFile]
    <3>1. n.kind = "usage" /\ n.at = "answered" /\ n.used = nodeUsed
      OBVIOUS
    <3>2. /\ calls' = (calls \ {c}) \cup IF c.waited THEN {n} ELSE {}
          /\ c \notin Answers /\ UNCHANGED <<carried, told>>
          /\ lost' = IF c.waited THEN lost ELSE Plus(lost, nodeUsed)
          /\ nodeUsed' = [o \in Customers |-> 0]
      BY <2>18 DEF Drain, Finished, Answers, chargeVars, NoUse
    <3> HIDE DEF n
    <3>3. CASE c.waited
      <4>1. Answers = {}
        BY <3>2, <3>3, OneAnswer DEF Answers
      <4>2. Answers' = {n}
        BY <3>1, <3>2, <3>3, <4>1 DEF Answers
      <4>3. \A o \in Customers : Reported(o) = 0 /\ Reported(o)' = nodeUsed[o]
        BY <3>1, <4>1, <4>2 DEF Reported
      <4>4. QED
        BY <3>2, <3>3, <4>3 DEF CountsOK, Conserved, UsageOK
    <3>4. CASE ~c.waited
      <4>1. Answers' = Answers
        BY <3>2, <3>4 DEF Answers
      <4>2. \A o \in Customers : Reported(o)' = Reported(o) /\ Reported(o) \in Nat
        BY <4>1, ReportedIsNat DEF Reported
      <4>3. lost' = [o \in Customers |-> lost[o] + nodeUsed[o]]
        BY <3>2, <3>4 DEF Plus, CountsOK
      <4>4. QED
        BY <3>2, <4>2, <4>3 DEF CountsOK, Conserved, UsageOK
    <3>5. QED
      BY <3>3, <3>4, CallKinds DEF WireOK
  <2>19. ASSUME NEW d \in Devices, Carry(d) PROVE CInv'
    <3>1. Owner[d] \in Customers /\ calls' = calls /\ UNCHANGED <<told, lost>>
          /\ carried' = [carried EXCEPT ![Owner[d]] = @ + 1]
          /\ nodeUsed' = [nodeUsed EXCEPT ![Owner[d]] = @ + 1]
      BY <2>19 DEF Carry, wireVars, chargeVars
    <3>2. \A o \in Customers : Reported(o)' = Reported(o) /\ Reported(o) \in Nat
      BY <3>1, ReportedIsNat DEF Reported, Answers
    <3>3. QED
      BY <3>1, <3>2 DEF CountsOK, Conserved, UsageOK
  <2>20. QED
    BY <2>2, <2>3, <2>4, <2>6, <2>8, <2>9, <2>11, <2>13, <2>14, <2>15, <2>16, <2>17,
       <2>18, <2>19
       DEF Next, Panel, Awaited, Unawaited, Trouble, Handle
<1>3. QED
  BY <1>1, <1>2, Inductive, PTL DEF Spec

\* Every byte counted on a node is in its records, on its way, charged or known
\* to be lost, and in one of these only: no answer is charged twice, whatever is
\* lost, late or withdrawn (Drain: "bytes that arrive between the two cannot be
\* counted twice or lost").
THEOREM BytesAreConserved == Spec => []Conserved
<1>1. CInv => Conserved
  BY DEF CInv
<1>2. QED
  BY <1>1, Counted, PTL

-----------------------------------------------------------------------------
(* Sums over finite sets. SumOf is the library's fold, a CHOOSE of a       *)
(* function: what it gives is found member by member, and each fact below  *)
(* by looking at a smallest set it could fail for. They are those of       *)
(* MeteringProofs, for figures that any function gives.                    *)

\* The member a sum takes first, and what it is to unfold the sums of g over the
\* subsets of S: SumOf is the value at S of such an unfolding.
One(s) == CHOOSE x \in s : TRUE
Unfolds(h, g, S) ==
    h = [s \in SUBSET S |-> IF s = {} THEN 0 ELSE g[One(s)] + h[s \ {One(s)}]]

\* Of subsets of a finite set there is always a smallest one.
LEMMA Smallest ==
  ASSUME NEW S, IsFiniteSet(S), NEW Q \in SUBSET SUBSET S, Q # {}
  PROVE  \E T \in Q : \A U \in Q : U \subseteq T => U = T
<1>1. IsWellFoundedOn(StrictSubsetOrdering(S), FiniteSubsetsOf(S))
  BY FS_StrictSubsetOrderingWellFounded
<1>2. Q \subseteq FiniteSubsetsOf(S)
  BY FS_Subset DEF FiniteSubsetsOf
<1>3. PICK T \in Q : \A U \in Q : ~(<<U, T>> \in StrictSubsetOrdering(S))
  BY <1>1, <1>2, WFMin
<1>4. QED
  BY <1>3 DEF StrictSubsetOrdering

\* The member taken is one of them.
LEMMA OneOf == \A s : s # {} => One(s) \in s
  BY DEF One

\* Two unfoldings of the same figures agree wherever both are defined.
LEMMA UnfoldsAgree ==
  ASSUME NEW g, NEW S, NEW T, IsFiniteSet(S), NEW h, NEW k,
         Unfolds(h, g, S), Unfolds(k, g, T), NEW U \in SUBSET S, U \in SUBSET T
  PROVE  h[U] = k[U]
<1> DEFINE Bad == {s \in SUBSET S : s \in SUBSET T /\ h[s] # k[s]}
<1> SUFFICES ASSUME Bad # {} PROVE FALSE
  OBVIOUS
<1>0. Bad \in SUBSET SUBSET S
  OBVIOUS
<1>1. PICK s \in Bad : \A u \in Bad : u \subseteq s => u = s
  <2> HIDE DEF Bad
  <2>1. QED
    BY <1>0, Smallest
<1>2. s # {}
  BY <1>1 DEF Unfolds
<1>3. h[s \ {One(s)}] = k[s \ {One(s)}]
  BY <1>1, <1>2, OneOf
<1>4. QED
  BY <1>1, <1>2, <1>3 DEF Unfolds

\* Sums can be unfolded, and SumOf is computed as its definition says: one member
\* and the sum of the others.
LEMMA SumUnfolds ==
  ASSUME NEW g, NEW S, IsFiniteSet(S)
  PROVE  /\ \E h : Unfolds(h, g, S)
         /\ SumOf(g, S) = IF S = {} THEN 0 ELSE g[One(S)] + SumOf(g, S \ {One(S)})
<1> DEFINE W(T) == CHOOSE h : Unfolds(h, g, T)
           Exists(T) == \E h : Unfolds(h, g, T)
<1>1. \A T : SumOf(g, T) = W(T)[T]
  BY DEF SumOf, MapThenSumSet, MapThenFoldSet, Unfolds, One
<1>2. \A T \in SUBSET S : Exists(T) => Unfolds(W(T), g, T)
  OBVIOUS
<1> HIDE DEF W
<1>3. ASSUME NEW T \in SUBSET S, Exists(T), Exists(T \ {One(T)})
      PROVE  SumOf(g, T) = IF T = {} THEN 0 ELSE g[One(T)] + SumOf(g, T \ {One(T)})
  <2>1. Unfolds(W(T), g, T)
    BY <1>2, <1>3
  <2>2. CASE T = {}
    BY <2>1, <2>2, <1>1 DEF Unfolds
  <2>3. CASE T # {}
    <3> DEFINE R == T \ {One(T)}
    <3>1. Unfolds(W(R), g, R) /\ R \in SUBSET S /\ R \in SUBSET T /\ IsFiniteSet(T)
      BY <1>2, <1>3, FS_Subset
    <3>2. W(T)[R] = W(R)[R]
      BY <2>1, <3>1, UnfoldsAgree
    <3>3. W(T)[T] = g[One(T)] + W(T)[R]
      BY <2>1, <2>3 DEF Unfolds
    <3>4. QED
      BY <1>1, <2>3, <3>2, <3>3
  <2>4. QED
    BY <2>2, <2>3
<1>4. \A T \in SUBSET S : Exists(T)
  <2> DEFINE Bad == {T \in SUBSET S : ~Exists(T)}
  <2> SUFFICES ASSUME Bad # {} PROVE FALSE
    OBVIOUS
  <2>0. Bad \in SUBSET SUBSET S
    OBVIOUS
  <2>1. PICK T \in Bad : \A u \in Bad : u \subseteq T => u = T
    <3> HIDE DEF Bad
    <3>1. QED
      BY <2>0, Smallest
  <2>2. \A u \in SUBSET T : u # T => Exists(u) /\ Exists(u \ {One(u)})
    <3>1. \A u \in SUBSET T : u # T => u \ {One(u)} \in SUBSET T /\ u \ {One(u)} # T
      OBVIOUS
    <3>2. \A u \in SUBSET T : u # T => Exists(u)
      BY <2>1
    <3>3. QED
      BY <3>1, <3>2
  <2> DEFINE h == [s \in SUBSET T |-> IF s = {} THEN 0 ELSE g[One(s)] + SumOf(g, s \ {One(s)})]
  <2>3. \A s \in SUBSET T : s # T => h[s] = SumOf(g, s)
    BY <1>3, <2>1, <2>2
  <2>4. \A s \in SUBSET T : s # {} => s \ {One(s)} \in SUBSET T /\ s \ {One(s)} # T
    BY OneOf
  <2>5. \A s \in SUBSET T : s # {} => h[s \ {One(s)}] = SumOf(g, s \ {One(s)})
    BY <2>3, <2>4
  <2>6. \A s \in SUBSET T : h[s] = IF s = {} THEN 0 ELSE g[One(s)] + h[s \ {One(s)}]
    BY <2>5
  <2>7. h = [s \in SUBSET T |-> h[s]]
    OBVIOUS
  <2> HIDE DEF h
  <2>8. Unfolds(h, g, T)
    BY <2>6, <2>7 DEF Unfolds
  <2>9. QED
    BY <2>1, <2>8
<1>5. S \ {One(S)} \in SUBSET S
  OBVIOUS
<1>6. QED
  BY <1>3, <1>4, <1>5


\* Nothing sums to zero.
LEMMA SumOfNone == \A g : SumOf(g, {}) = 0
  BY SumUnfolds, FS_EmptySet

\* The order in which a sum is taken does not matter: any member may come out first.
LEMMA SumWithout ==
  ASSUME NEW S, IsFiniteSet(S), NEW g, \A x \in S : g[x] \in Int
  PROVE  /\ SumOf(g, S) \in Int
         /\ \A x \in S : SumOf(g, S) = g[x] + SumOf(g, S \ {x})
<1> DEFINE Good(T) == /\ SumOf(g, T) \in Int
                      /\ \A x \in T : SumOf(g, T) = g[x] + SumOf(g, T \ {x})
           Bad == {T \in SUBSET S : ~Good(T)}
<1> SUFFICES ASSUME Bad # {} PROVE FALSE
  <2>1. S \in SUBSET S
    OBVIOUS
  <2>2. QED
    BY <2>1
<1>0. Bad \in SUBSET SUBSET S
  OBVIOUS
<1>1. PICK T \in Bad : \A U \in Bad : U \subseteq T => U = T
  <2> HIDE DEF Bad
  <2>1. QED
    BY <1>0, Smallest
<1>2. IsFiniteSet(T) /\ T \in SUBSET S
  BY <1>1, FS_Subset
<1>3. \A U \in SUBSET T : U # T => Good(U)
  <2>1. \A U \in SUBSET T : U \in SUBSET S
    BY <1>2
  <2>2. QED
    BY <1>1, <2>1
<1> HIDE DEF Bad
<1>4. CASE T = {}
  <2>1. Good(T)
    BY <1>4, SumOfNone
  <2>2. QED
    BY <1>1, <2>1 DEF Bad
<1>5. CASE T # {}
  <2> DEFINE y == One(T)
  <2>1. y \in T
    BY <1>5, OneOf
  <2>2. SumOf(g, T) = g[y] + SumOf(g, T \ {y})
    BY <1>2, <1>5, SumUnfolds
  <2> HIDE DEF y
  <2>3. \A x \in T : g[x] \in Int /\ Good(T \ {x})
    BY <1>2, <1>3
  <2>4. SumOf(g, T) \in Int
    BY <2>1, <2>2, <2>3
  <2>5. ASSUME NEW x \in T, x # y PROVE SumOf(g, T) = g[x] + SumOf(g, T \ {x})
    <3>1. SumOf(g, T \ {y}) = g[x] + SumOf(g, (T \ {y}) \ {x})
      BY <2>1, <2>3, <2>5
    <3>2. SumOf(g, T \ {x}) = g[y] + SumOf(g, (T \ {x}) \ {y})
      BY <2>1, <2>3, <2>5
    <3>3. (T \ {y}) \ {x} = (T \ {x}) \ {y}
      OBVIOUS
    <3>4. SumOf(g, (T \ {x}) \ {y}) \in Int
      <4>1. (T \ {x}) \ {y} \in SUBSET T /\ (T \ {x}) \ {y} # T
        BY <2>1
      <4>2. QED
        BY <1>3, <4>1
    <3>5. QED
      BY <2>1, <2>2, <2>3, <3>1, <3>2, <3>3, <3>4
  <2>6. Good(T)
    BY <2>2, <2>4, <2>5
  <2>7. QED
    BY <1>1, <2>6 DEF Bad
<1>6. QED
  BY <1>4, <1>5

\* Sums are taken term by term.
LEMMA SumPlus ==
  ASSUME NEW S, IsFiniteSet(S), NEW g, NEW h, NEW k,
         \A x \in S : g[x] \in Int /\ h[x] \in Int /\ k[x] = g[x] + h[x]
  PROVE  SumOf(k, S) = SumOf(g, S) + SumOf(h, S)
<1> DEFINE Good(T) == SumOf(k, T) = SumOf(g, T) + SumOf(h, T)
           Bad == {T \in SUBSET S : ~Good(T)}
<1> SUFFICES ASSUME Bad # {} PROVE FALSE
  <2>1. S \in SUBSET S
    OBVIOUS
  <2>2. QED
    BY <2>1
<1>0. Bad \in SUBSET SUBSET S
  OBVIOUS
<1>1. PICK T \in Bad : \A U \in Bad : U \subseteq T => U = T
  <2> HIDE DEF Bad
  <2>1. QED
    BY <1>0, Smallest
<1>2. T \in SUBSET S /\ IsFiniteSet(T) /\ ~Good(T)
  BY <1>1, FS_Subset
<1>3. T # {}
  BY <1>2, SumOfNone
<1>4. PICK x \in T : TRUE
  BY <1>3
<1>5. T \ {x} \in SUBSET S /\ IsFiniteSet(T \ {x}) /\ Good(T \ {x})
  BY <1>1, <1>2, <1>4, FS_Subset
<1>6. /\ SumOf(g, T) = g[x] + SumOf(g, T \ {x})
      /\ SumOf(h, T) = h[x] + SumOf(h, T \ {x})
      /\ SumOf(k, T) = k[x] + SumOf(k, T \ {x})
  BY <1>2, <1>4, SumWithout
<1>7. SumOf(g, T \ {x}) \in Int /\ SumOf(h, T \ {x}) \in Int
  BY <1>2, <1>5, SumWithout
<1>8. QED
  BY <1>2, <1>4, <1>5, <1>6, <1>7

\* A sum of figures of nothing is nothing.
LEMMA SumOfZeros ==
  ASSUME NEW S, IsFiniteSet(S), NEW g, \A x \in S : g[x] = 0
  PROVE  SumOf(g, S) = 0
<1>1. SumOf(g, S) = SumOf(g, S) + SumOf(g, S)
  BY SumPlus
<1>2. SumOf(g, S) \in Int
  BY SumWithout
<1>3. \A n \in Int : n = n + n => n = 0
  OBVIOUS
<1>4. QED
  BY <1>1, <1>2, <1>3

\* Only the figures of the members count.
LEMMA SumSame ==
  ASSUME NEW S, IsFiniteSet(S), NEW g, NEW h,
         \A x \in S : g[x] \in Int /\ h[x] = g[x]
  PROVE  SumOf(h, S) = SumOf(g, S)
<1> DEFINE none == [x \in S |-> 0]
<1>1. SumOf(none, S) = 0
  BY SumOfZeros
<1>2. SumOf(h, S) = SumOf(g, S) + SumOf(none, S)
  BY SumPlus
<1>3. SumOf(g, S) \in Int
  BY SumWithout
<1>4. QED
  BY <1>1, <1>2, <1>3

\* One figure raised raises the sum by as much.
LEMMA SumRaised ==
  ASSUME NEW S, IsFiniteSet(S), NEW g, NEW h, NEW y \in S, NEW d \in Int,
         \A x \in S : g[x] \in Int /\ h[x] = IF x = y THEN g[x] + d ELSE g[x]
  PROVE  SumOf(h, S) = SumOf(g, S) + d
<1>1. SumOf(g, S) = g[y] + SumOf(g, S \ {y}) /\ SumOf(h, S) = h[y] + SumOf(h, S \ {y})
  BY SumWithout
<1>2. IsFiniteSet(S \ {y})
  BY FS_Subset
<1>3. SumOf(h, S \ {y}) = SumOf(g, S \ {y}) /\ SumOf(g, S \ {y}) \in Int
  BY <1>2, SumSame, SumWithout
<1>4. QED
  BY <1>1, <1>3

\* What is never negative never sums to less than one of its figures.
LEMMA SumOfNats ==
  ASSUME NEW S, IsFiniteSet(S), NEW g, \A x \in S : g[x] \in Nat
  PROVE  SumOf(g, S) \in Nat /\ \A x \in S : g[x] <= SumOf(g, S)
<1> DEFINE Good(T) == SumOf(g, T) >= 0
           Bad == {T \in SUBSET S : ~Good(T)}
<1>0. Bad = {}
  <2> SUFFICES ASSUME Bad # {} PROVE FALSE
    OBVIOUS
  <2>0. Bad \in SUBSET SUBSET S
    OBVIOUS
  <2>1. PICK T \in Bad : \A U \in Bad : U \subseteq T => U = T
    <3> HIDE DEF Bad
    <3>1. QED
      BY <2>0, Smallest
  <2>2. T \in SUBSET S /\ IsFiniteSet(T) /\ ~Good(T)
    BY <2>1, FS_Subset
  <2>3. T # {}
    BY <2>2, SumOfNone
  <2>4. PICK x \in T : TRUE
    BY <2>3
  <2>5. T \ {x} \in SUBSET S /\ IsFiniteSet(T \ {x}) /\ Good(T \ {x})
    BY <2>1, <2>2, <2>4, FS_Subset
  <2>6. SumOf(g, T) = g[x] + SumOf(g, T \ {x}) /\ SumOf(g, T \ {x}) \in Int /\ g[x] \in Nat
    BY <2>2, <2>4, <2>5, SumWithout
  <2>7. QED
    BY <2>2, <2>5, <2>6
<1>1. \A T \in SUBSET S : SumOf(g, T) \in Nat
  <2>1. \A T \in SUBSET S : IsFiniteSet(T) /\ Good(T)
    BY <1>0, FS_Subset
  <2>2. QED
    BY <2>1, SumWithout
<1>2. \A x \in S : SumOf(g, S) = g[x] + SumOf(g, S \ {x}) /\ S \ {x} \in SUBSET S
  BY SumWithout
<1>3. ASSUME NEW x \in S PROVE g[x] <= SumOf(g, S)
  <2>1. SumOf(g, S \ {x}) \in Nat /\ g[x] \in Nat
    BY <1>1, <1>2
  <2>2. SumOf(g, S) = g[x] + SumOf(g, S \ {x})
    BY <1>2
  <2>3. QED
    BY <2>1, <2>2
<1>4. QED
  BY <1>1, <1>3

\* Figures that are 0 can be left out.
LEMMA SumOfSome ==
  ASSUME NEW S, IsFiniteSet(S), NEW g, \A x \in S : g[x] \in Int,
         NEW T \in SUBSET S, \A x \in S : x \notin T => g[x] = 0
  PROVE  SumOf(g, S) = SumOf(g, T)
<1> DEFINE Good(U) == SumOf(g, U) = SumOf(g, U \cap T)
           Bad == {U \in SUBSET S : ~Good(U)}
<1>0. Bad = {}
  <2> SUFFICES ASSUME Bad # {} PROVE FALSE
    OBVIOUS
  <2>0. Bad \in SUBSET SUBSET S
    OBVIOUS
  <2>1. PICK U \in Bad : \A V \in Bad : V \subseteq U => V = U
    <3> HIDE DEF Bad
    <3>1. QED
      BY <2>0, Smallest
  <2>2. U \in SUBSET S /\ IsFiniteSet(U) /\ ~Good(U)
    BY <2>1, FS_Subset
  <2>3. U # {}
    <3>1. {} \cap T = {}
      OBVIOUS
    <3>2. QED
      BY <2>2, <3>1
  <2>4. PICK x \in U : TRUE
    BY <2>3
  <2> DEFINE V == U \ {x}
  <2>5. V \in SUBSET S /\ IsFiniteSet(V) /\ Good(V)
    BY <2>1, <2>2, <2>4, FS_Subset
  <2>6. SumOf(g, U) = g[x] + SumOf(g, V) /\ SumOf(g, V) \in Int /\ g[x] \in Int
    BY <2>2, <2>4, <2>5, SumWithout
  <2>7. CASE x \in T
    <3>1. U \cap T \in SUBSET S /\ x \in U \cap T /\ (U \cap T) \ {x} = V \cap T
      BY <2>2, <2>4, <2>7
    <3>2. IsFiniteSet(U \cap T) /\ \A y \in U \cap T : g[y] \in Int
      BY <3>1, FS_Subset
    <3>3. SumOf(g, U \cap T) = g[x] + SumOf(g, V \cap T)
      BY <3>1, <3>2, SumWithout
    <3>4. QED
      BY <2>2, <2>5, <2>6, <3>3
  <2>8. CASE x \notin T
    <3>1. U \cap T = V \cap T /\ g[x] = 0
      BY <2>2, <2>4, <2>8
    <3>2. SumOf(g, U) = SumOf(g, V)
      BY <2>6, <3>1
    <3>3. SumOf(g, U \cap T) = SumOf(g, V \cap T)
      BY <3>1
    <3>4. QED
      BY <2>2, <2>5, <3>2, <3>3
  <2>9. QED
    BY <2>7, <2>8
<1>1. S \in SUBSET S /\ S \cap T = T
  OBVIOUS
<1>2. QED
  BY <1>0, <1>1

-----------------------------------------------------------------------------
(* The largest remainders (report.go: share).                              *)

\* Whole parts and what is left over of them.
LEMMA Division ==
  ASSUME NEW n \in Nat, NEW m \in Nat \ {0}
  PROVE  /\ n \div m \in Nat /\ n % m \in Nat /\ n % m < m
         /\ n = m * (n \div m) + (n % m)
<1>1. n % m \in Nat /\ n % m < m
  OBVIOUS
<1>2. n \div m \in Int
  OBVIOUS
<1>3. n = m * (n \div m) + (n % m)
  OBVIOUS
<1>4. n \div m \in Nat
  BY <1>1, <1>2, <1>3
<1>5. QED
  BY <1>1, <1>2, <1>3, <1>4

LEMMA Distributes == \A a, b, k \in Int : k * (a + b) = k * a + k * b
  OBVIOUS

LEMMA Times ==
  ASSUME NEW a \in Nat, NEW b \in Nat
  PROVE  a * b \in Nat
  OBVIOUS

\* Every figure multiplied multiplies the sum.
LEMMA SumTimes ==
  ASSUME NEW S, IsFiniteSet(S), NEW g, NEW h, NEW k \in Int,
         \A x \in S : g[x] \in Int /\ h[x] = k * g[x]
  PROVE  SumOf(h, S) = k * SumOf(g, S)
<1> DEFINE Good(T) == SumOf(h, T) = k * SumOf(g, T)
           Bad == {T \in SUBSET S : ~Good(T)}
<1> SUFFICES ASSUME Bad # {} PROVE FALSE
  <2>1. S \in SUBSET S
    OBVIOUS
  <2>2. QED
    BY <2>1
<1>0. Bad \in SUBSET SUBSET S
  OBVIOUS
<1>1. PICK T \in Bad : \A U \in Bad : U \subseteq T => U = T
  <2> HIDE DEF Bad
  <2>1. QED
    BY <1>0, Smallest
<1>2. T \in SUBSET S /\ IsFiniteSet(T) /\ ~Good(T)
  BY <1>1, FS_Subset
<1>3. T # {}
  <2>1. k * 0 = 0
    OBVIOUS
  <2>2. QED
    BY <1>2, <2>1, SumOfNone
<1>4. PICK x \in T : TRUE
  BY <1>3
<1>5. T \ {x} \in SUBSET S /\ IsFiniteSet(T \ {x}) /\ Good(T \ {x})
  BY <1>1, <1>2, <1>4, FS_Subset
<1>6. \A y \in T : g[y] \in Int /\ h[y] \in Int
  BY <1>2
<1>7. /\ SumOf(g, T) = g[x] + SumOf(g, T \ {x})
      /\ SumOf(h, T) = h[x] + SumOf(h, T \ {x})
  BY <1>2, <1>4, <1>6, SumWithout
<1>8. SumOf(g, T \ {x}) \in Int /\ g[x] \in Int
  BY <1>5, <1>6, SumWithout
<1>9. k * (g[x] + SumOf(g, T \ {x})) = k * g[x] + k * SumOf(g, T \ {x})
  BY <1>8, Distributes
<1>10. h[x] = k * g[x]
  BY <1>2, <1>4
<1>11. QED
  BY <1>2, <1>5, <1>7, <1>9, <1>10

\* Who has a remainder.
Some(r, S) == {x \in S : r[x] > 0}

\* Remainders below m sum to no more than m for each who has one.
LEMMA SumBelow ==
  ASSUME NEW S, IsFiniteSet(S), NEW r, NEW m \in Nat \ {0},
         \A x \in S : r[x] \in Nat /\ r[x] < m
  PROVE  SumOf(r, S) <= m * Cardinality(Some(r, S))
<1> DEFINE Good(T) == SumOf(r, T) <= m * Cardinality(Some(r, T))
           Bad == {T \in SUBSET S : ~Good(T)}
<1> SUFFICES ASSUME Bad # {} PROVE FALSE
  <2>1. S \in SUBSET S
    OBVIOUS
  <2>2. QED
    BY <2>1
<1>0. Bad \in SUBSET SUBSET S
  OBVIOUS
<1>1. PICK T \in Bad : \A U \in Bad : U \subseteq T => U = T
  <2> HIDE DEF Bad
  <2>1. QED
    BY <1>0, Smallest
<1>2. T \in SUBSET S /\ IsFiniteSet(T) /\ ~Good(T)
  BY <1>1, FS_Subset
<1>3. T # {}
  <2>1. SumOf(r, {}) = 0 /\ Some(r, {}) = {} /\ Cardinality({}) = 0
    BY SumOfNone, FS_EmptySet DEF Some
  <2>2. m * 0 = 0
    OBVIOUS
  <2>3. QED
    BY <1>2, <2>1, <2>2
<1>4. PICK x \in T : TRUE
  BY <1>3
<1> DEFINE U == T \ {x}
           n == Cardinality(Some(r, U))
<1>5. U \in SUBSET S /\ IsFiniteSet(U) /\ Good(U)
  BY <1>1, <1>2, <1>4, FS_Subset
<1>6. SumOf(r, T) = r[x] + SumOf(r, U) /\ SumOf(r, U) \in Int /\ r[x] \in Nat /\ r[x] < m
  BY <1>2, <1>4, <1>5, SumWithout
<1>7. IsFiniteSet(Some(r, U)) /\ n \in Nat /\ x \notin Some(r, U)
  <2>1. Some(r, U) \in SUBSET U
    BY DEF Some
  <2>2. QED
    BY <1>5, <2>1, FS_Subset, FS_CardinalityType
<1>8. CASE r[x] = 0
  <2>1. Some(r, T) = Some(r, U)
    BY <1>4, <1>8 DEF Some
  <2>2. QED
    BY <1>2, <1>5, <1>6, <1>8, <2>1
<1>9. CASE r[x] > 0
  <2>1. Some(r, T) = Some(r, U) \cup {x}
    BY <1>4, <1>9 DEF Some
  <2>2. Cardinality(Some(r, T)) = n + 1
    BY <1>7, <2>1, FS_AddElement
  <2>3. m * (n + 1) = m * n + m * 1
    BY <1>7, Distributes
  <2>4. m * n \in Int /\ m * 1 = m
    BY <1>7
  <2>5. SumOf(r, U) <= m * n
    BY <1>5
  <2>6. SumOf(r, T) <= m * n + m
    <3> HIDE DEF n, U
    <3>1. QED
      BY <1>6, <2>4, <2>5
  <2>7. QED
    BY <1>2, <2>2, <2>3, <2>4, <2>6
<1>10. QED
  BY <1>6, <1>8, <1>9

\* Files are told apart by their ids, which are numbers.
Numbered(S) == S \subseteq Nat

\* x is ahead of y: it has more of a remainder, or as much and comes first.
Ahead(r, x, y) == r[x] > r[y] \/ (r[x] = r[y] /\ x < y)
AheadOf(r, S, y) == {x \in S : Ahead(r, x, y)}

\* Some file has all others ahead of it.
LEMMA LastInLine ==
  ASSUME NEW S, Numbered(S), IsFiniteSet(S), S # {}, NEW r, \A x \in S : r[x] \in Nat
  PROVE  \E z \in S : AheadOf(r, S, z) = S \ {z} /\ \A x \in S : z \notin AheadOf(r, S, x)
<1> DEFINE Behind(x) == {y \in S : Ahead(r, x, y)}
           Q == {Behind(x) : x \in S}
<1>1. Q \in SUBSET SUBSET S /\ Q # {}
  OBVIOUS
<1>2. PICK B \in Q : \A U \in Q : U \subseteq B => U = B
  <2> HIDE DEF Q
  <2>1. QED
    BY <1>1, Smallest
<1>3. PICK z \in S : B = Behind(z)
  BY <1>2
<1>4. Behind(z) = {}
  <2> SUFFICES ASSUME NEW y \in Behind(z) PROVE FALSE
    OBVIOUS
  <2>1. y \in S /\ Ahead(r, z, y)
    OBVIOUS
  <2>2. \A x \in S : Ahead(r, y, x) => Ahead(r, z, x)
    BY <2>1 DEF Ahead, Numbered
  <2>3. ~Ahead(r, y, y)
    BY <2>1 DEF Ahead, Numbered
  <2>4. Behind(y) \subseteq Behind(z) /\ y \notin Behind(y)
    BY <2>2, <2>3
  <2>5. Behind(y) \in Q
    BY <2>1
  <2>6. QED
    BY <1>2, <1>3, <2>4, <2>5
<1>5. \A x \in S \ {z} : Ahead(r, x, z)
  BY <1>4 DEF Ahead, Numbered
<1>6. ~Ahead(r, z, z)
  BY DEF Ahead, Numbered
<1>7. QED
  BY <1>4, <1>5, <1>6 DEF AheadOf

\* One for each of the first k in line: k.
FirstOnes(r, S, k) == [x \in S |-> IF Cardinality(AheadOf(r, S, x)) < k THEN 1 ELSE 0]

LEMMA FirstOnesAddUp ==
  ASSUME NEW S, Numbered(S), IsFiniteSet(S), NEW r, \A x \in S : r[x] \in Nat,
         NEW k \in 0..Cardinality(S)
  PROVE  SumOf(FirstOnes(r, S, k), S) = k
<1> DEFINE Good(T) == \A j \in 0..Cardinality(T) : SumOf(FirstOnes(r, T, j), T) = j
           Bad == {T \in SUBSET S : ~Good(T)}
<1> SUFFICES ASSUME Bad # {} PROVE FALSE
  <2>1. S \in SUBSET S
    OBVIOUS
  <2>2. QED
    BY <2>1
<1>0. Bad \in SUBSET SUBSET S
  OBVIOUS
<1>1. PICK T \in Bad : \A U \in Bad : U \subseteq T => U = T
  <2> HIDE DEF Bad
  <2>1. QED
    BY <1>0, Smallest
<1>2. T \in SUBSET S /\ IsFiniteSet(T) /\ ~Good(T) /\ Numbered(T)
  BY <1>1, FS_Subset DEF Numbered
<1>3. T # {}
  <2>1. Cardinality({}) = 0
    BY FS_EmptySet
  <2>2. \A j \in 0..0 : j = 0
    OBVIOUS
  <2>3. Good({})
    BY <2>1, <2>2, SumOfNone
  <2>4. QED
    BY <1>2, <2>3
<1>4. PICK z \in T : AheadOf(r, T, z) = T \ {z} /\ \A x \in T : z \notin AheadOf(r, T, x)
  BY <1>2, <1>3, LastInLine
<1> DEFINE U == T \ {z}
           n == Cardinality(U)
<1>5. U \in SUBSET S /\ IsFiniteSet(U) /\ Good(U) /\ n \in Nat
  BY <1>1, <1>2, <1>4, FS_Subset, FS_CardinalityType
<1>6. Cardinality(T) = n + 1
  BY <1>2, <1>4, <1>5, FS_RemoveElement, FS_CardinalityType
<1>7. ASSUME NEW x \in U
      PROVE  /\ AheadOf(r, T, x) = AheadOf(r, U, x)
             /\ Cardinality(AheadOf(r, U, x)) \in Nat /\ Cardinality(AheadOf(r, U, x)) < n
  <2>1. AheadOf(r, T, x) = AheadOf(r, U, x)
    BY <1>4 DEF AheadOf
  <2>2. AheadOf(r, U, x) \in SUBSET (U \ {x})
    BY <1>2 DEF AheadOf, Ahead, Numbered
  <2>3. IsFiniteSet(U \ {x}) /\ Cardinality(U \ {x}) = n - 1
    BY <1>5, FS_RemoveElement
  <2>4. /\ IsFiniteSet(AheadOf(r, U, x))
        /\ Cardinality(AheadOf(r, U, x)) <= Cardinality(U \ {x})
    BY <2>2, <2>3, FS_Subset
  <2>5. Cardinality(AheadOf(r, U, x)) \in Nat
    BY <2>4, FS_CardinalityType
  <2>6. QED
    BY <1>5, <2>1, <2>3, <2>4, <2>5
<1>8. ASSUME NEW j \in 0..Cardinality(T) PROVE SumOf(FirstOnes(r, T, j), T) = j
  <2> DEFINE h == FirstOnes(r, T, j)
             i == IF j <= n THEN j ELSE n
             g == FirstOnes(r, U, i)
  <2>1. j \in Nat /\ j <= n + 1 /\ i \in 0..n
    BY <1>5, <1>6
  <2>2. \A x \in T : h[x] \in {0, 1}
    BY DEF FirstOnes
  <2>3. ASSUME NEW x \in U PROVE h[x] = g[x] /\ g[x] \in Int
    <3>1. h[x] = IF Cardinality(AheadOf(r, U, x)) < j THEN 1 ELSE 0
      BY <1>7 DEF FirstOnes
    <3>2. g[x] = IF Cardinality(AheadOf(r, U, x)) < i THEN 1 ELSE 0
      BY DEF FirstOnes
    <3>3. QED
      BY <1>5, <1>7, <2>1, <3>1, <3>2
  <2>4. h[z] = IF n < j THEN 1 ELSE 0
    BY <1>4 DEF FirstOnes
  <2>5. SumOf(h, T) = h[z] + SumOf(h, U)
    <3>1. \A x \in T : h[x] \in Int
      BY <2>2
    <3> HIDE DEF h
    <3>2. QED
      BY <1>2, <1>4, <3>1, SumWithout
  <2>6. SumOf(h, U) = SumOf(g, U)
    BY <1>5, <2>3, SumSame
  <2>7. SumOf(g, U) = i
    BY <1>5, <2>1
  <2>8. QED
    BY <1>5, <2>1, <2>4, <2>5, <2>6, <2>7
<1>9. QED
  BY <1>2, <1>8

-----------------------------------------------------------------------------
(* The price (report.go: atLeastOne) and the shares.                       *)

LEMMA PriceIsNat ==
  ASSUME NEW v \in Nat, NEW price \in (Nat \ {0}) \X (Nat \ {0})
  PROVE  /\ AtLeastOne(v, price) \in Nat
         /\ v > 0 => AtLeastOne(v, price) > 0
         /\ v = 0 => AtLeastOne(v, price) = 0
<1> DEFINE n == v * price[1]
           m == price[2]
<1>1. price[1] \in Nat \ {0} /\ m \in Nat \ {0}
  OBVIOUS
<1>2. n \in Nat /\ (v = 0 => n = 0)
  BY <1>1, Times
<1>3. AtLeastOne(v, price) = IF v > 0 /\ n < m THEN 1 ELSE n \div m
  BY DEF AtLeastOne
<1> HIDE DEF n, m
<1>4. /\ n \div m \in Nat /\ n % m \in Nat /\ n % m < m
      /\ n = m * (n \div m) + (n % m)
  BY <1>1, <1>2, Division
<1>5. n \div m = 0 => n < m
  <2>1. m * 0 = 0
    BY <1>1
  <2>2. QED
    BY <1>4, <2>1
<1>6. n = 0 => n \div m = 0
  BY <1>1
<1>7. QED
  BY <1>2, <1>3, <1>4, <1>5, <1>6

\* The files' shares of a total: they add up to it, each is within one of its
\* exact part, and who carried more has no less.
LEMMA Shares ==
  ASSUME NEW S, Numbered(S), IsFiniteSet(S), NEW total \in Nat \ {0},
         NEW figures, \A f \in S : figures[f] \in Nat, SumOf(figures, S) > 0
  PROVE  LET part == [f \in S |-> Share(total, figures, S, f)]
             sum  == SumOf(figures, S)
         IN  /\ \A f \in S : part[f] \in Nat
             /\ SumOf(part, S) = total
             /\ \A f \in S : /\ part[f] * sum < total * figures[f] + sum
                              /\ part[f] * sum > total * figures[f] - sum
             /\ \A f, g \in S : figures[f] > figures[g] => part[f] >= part[g]
<1> DEFINE sum   == SumOf(figures, S)
           exact == [f \in S |-> total * figures[f]]
           whole == [f \in S |-> exact[f] \div sum]
           rest  == [f \in S |-> exact[f] % sum]
           left  == total - SumOf(whole, S)
           extra == FirstOnes(rest, S, left)
           part  == [f \in S |-> Share(total, figures, S, f)]
<1>1. sum \in Nat \ {0}
  BY SumOfNats
<1>2. \A f \in S : exact[f] \in Nat /\ exact[f] = total * figures[f]
  BY Times
<1> HIDE DEF sum, exact
<1>3. \A f \in S : /\ whole[f] \in Nat /\ rest[f] \in Nat /\ rest[f] < sum
                   /\ exact[f] = sum * whole[f] + rest[f]
                   /\ whole[f] = exact[f] \div sum /\ rest[f] = exact[f] % sum
  BY <1>1, <1>2, Division
<1>4. \A f \in S : part[f] = whole[f] + extra[f] /\ extra[f] \in {0, 1}
  <2> SUFFICES ASSUME NEW f \in S PROVE part[f] = whole[f] + extra[f] /\ extra[f] \in {0, 1}
    OBVIOUS
  <2>1. [g \in S |-> (total * figures[g]) \div sum] = whole
    BY <1>2
  <2>2. {g \in S : \/ (total * figures[g]) % sum > (total * figures[f]) % sum
                   \/ (total * figures[g]) % sum = (total * figures[f]) % sum /\ g < f}
         = AheadOf(rest, S, f)
    BY <1>2 DEF AheadOf, Ahead
  <2>3. part[f] = (total * figures[f]) \div sum
                  + IF Cardinality(AheadOf(rest, S, f)) < left THEN 1 ELSE 0
    BY <2>1, <2>2 DEF Share, sum
  <2>4. extra[f] = IF Cardinality(AheadOf(rest, S, f)) < left THEN 1 ELSE 0
    BY DEF FirstOnes
  <2>5. whole[f] = (total * figures[f]) \div sum
    BY <1>2
  <2> HIDE DEF part, extra, left
  <2>6. QED
    BY <2>3, <2>4, <2>5
<1> HIDE DEF whole, rest
<1>5. SumOf(whole, S) \in Nat /\ SumOf(rest, S) \in Nat
  BY <1>3, SumOfNats
<1>6. SumOf(rest, S) = sum * left
  <2> DEFINE times == [f \in S |-> sum * whole[f]]
  <2>1. SumOf(exact, S) = total * sum
    BY <1>2, SumTimes DEF sum
  <2>2. \A f \in S : times[f] \in Nat /\ times[f] = sum * whole[f] /\ exact[f] = times[f] + rest[f]
    BY <1>1, <1>3, Times
  <2> HIDE DEF times
  <2>3. SumOf(exact, S) = SumOf(times, S) + SumOf(rest, S)
    <3>1. \A x \in S : times[x] \in Int /\ rest[x] \in Int /\ exact[x] = times[x] + rest[x]
      BY <1>3, <2>2
    <3>2. QED
      BY <3>1, SumPlus
  <2>4. SumOf(times, S) = sum * SumOf(whole, S)
    BY <1>1, <1>3, <2>2, SumTimes
  <2>5. sum * (SumOf(whole, S) + left) = sum * SumOf(whole, S) + sum * left
    BY <1>1, <1>5, Distributes
  <2>6. SumOf(whole, S) + left = total
    BY <1>5
  <2>7. sum * total = total * sum
    BY <1>1
  <2> DEFINE a == sum * SumOf(whole, S)
             b == sum * left
  <2>8. a \in Int /\ b \in Int
    BY <1>1, <1>5
  <2>9. a + SumOf(rest, S) = a + b
    BY <2>1, <2>3, <2>4, <2>5, <2>6, <2>7
  <2> HIDE DEF a
  <2>10. SumOf(rest, S) = b
    <3> HIDE DEF b
    <3>1. QED
      BY <1>5, <2>8, <2>9
  <2>11. QED
    BY <2>10
<1> DEFINE some == Cardinality(Some(rest, S))
<1>7. Some(rest, S) \in SUBSET S
  BY DEF Some
<1>8. IsFiniteSet(Some(rest, S)) /\ some \in Nat /\ some <= Cardinality(S)
  BY <1>7, FS_Subset, FS_CardinalityType
<1>9. left \in Nat /\ left <= some
  <2>1. SumOf(rest, S) <= sum * some
    BY <1>1, <1>3, SumBelow
  <2>2. left \in Int
    BY <1>5
  <2> HIDE DEF left, some
  <2>3. 0 <= sum * left /\ sum * left <= sum * some
    BY <1>5, <1>6, <2>1
  <2>4. QED
    BY <1>1, <1>8, <2>2, <2>3
<1> HIDE DEF left
<1>10. Cardinality(S) \in Nat /\ left \in 0..Cardinality(S)
  BY <1>8, <1>9, FS_CardinalityType
<1>11. SumOf(extra, S) = left
  BY <1>3, <1>10, FirstOnesAddUp
<1> HIDE DEF part, extra
<1>12. \A f \in S : part[f] \in Nat
  BY <1>3, <1>4
<1>13. SumOf(part, S) = total
  <2>1. SumOf(part, S) = SumOf(whole, S) + SumOf(extra, S)
    <3>1. \A x \in S : whole[x] \in Int /\ extra[x] \in Int /\ part[x] = whole[x] + extra[x]
      BY <1>3, <1>4
    <3>2. QED
      BY <3>1, SumPlus
  <2>2. QED
    BY <1>5, <1>11, <2>1 DEF left
<1>14. \A f \in S : /\ IsFiniteSet(AheadOf(rest, S, f)) /\ Cardinality(AheadOf(rest, S, f)) \in Nat
                    /\ extra[f] = IF Cardinality(AheadOf(rest, S, f)) < left THEN 1 ELSE 0
  <2>1. \A f \in S : AheadOf(rest, S, f) \in SUBSET S
    BY DEF AheadOf
  <2>2. QED
    BY <2>1, FS_Subset, FS_CardinalityType DEF extra, FirstOnes
<1>15. ASSUME NEW f \in S, rest[f] = 0 PROVE extra[f] = 0
  <2>1. Some(rest, S) \in SUBSET AheadOf(rest, S, f)
    BY <1>3, <1>15 DEF Some, AheadOf, Ahead
  <2>2. some <= Cardinality(AheadOf(rest, S, f))
    BY <1>14, <2>1, FS_Subset
  <2>3. QED
    BY <1>8, <1>9, <1>14, <2>2
<1>16. ASSUME NEW f \in S
       PROVE  /\ part[f] * sum < total * figures[f] + sum
              /\ part[f] * sum > total * figures[f] - sum
  <2> DEFINE a == sum * whole[f]
  <2>1. a \in Nat /\ rest[f] \in Nat /\ rest[f] < sum /\ total * figures[f] = a + rest[f]
    BY <1>1, <1>2, <1>3, Times
  <2>2. part[f] * sum = a + sum * extra[f]
    <3>1. sum * (whole[f] + extra[f]) = sum * whole[f] + sum * extra[f]
      BY <1>1, <1>3, <1>4, Distributes
    <3>2. part[f] * sum = sum * part[f]
      BY <1>1, <1>12
    <3>3. QED
      BY <1>4, <3>1, <3>2
  <2> HIDE DEF a
  <2>3. CASE extra[f] = 0
    <3>1. sum * 0 = 0
      BY <1>1
    <3>2. QED
      BY <1>1, <2>1, <2>2, <2>3, <3>1
  <2>4. CASE extra[f] = 1
    <3>1. rest[f] > 0
      BY <1>15, <2>1, <2>4
    <3>2. sum * 1 = sum
      BY <1>1
    <3>3. QED
      BY <1>1, <2>1, <2>2, <2>4, <3>1, <3>2
  <2>5. QED
    BY <1>4, <2>3, <2>4
<1>17. ASSUME NEW f \in S, NEW g \in S, figures[f] > figures[g]
       PROVE  part[f] >= part[g]
  <2>1. exact[f] > exact[g]
    <3>1. total * figures[f] = total * figures[g] + total * (figures[f] - figures[g])
      BY <1>17, Distributes
    <3>2. total * (figures[f] - figures[g]) >= 1
      BY <1>17
    <3>3. QED
      BY <1>2, <3>1, <3>2
  <2>2. whole[g] <= whole[f]
    <3> SUFFICES ASSUME whole[g] > whole[f] PROVE FALSE
      BY <1>3
    <3> DEFINE d == whole[g] - whole[f]
               a == sum * whole[f]
               b == sum * d
    <3>1. d \in Nat \ {0} /\ whole[f] + d = whole[g]
      BY <1>3
    <3>2. sum * (whole[f] + d) = a + b
      BY <1>1, <1>3, <3>1, Distributes
    <3>3. b >= sum
      <4>1. d - 1 \in Nat /\ 1 + (d - 1) = d
        BY <3>1
      <4>2. sum * (1 + (d - 1)) = sum * 1 + sum * (d - 1)
        BY <1>1, <4>1, Distributes
      <4>3. sum * (d - 1) \in Nat /\ sum * 1 = sum
        BY <1>1, <4>1, Times
      <4> DEFINE e == sum * (d - 1)
      <4> HIDE DEF e, d
      <4>4. QED
        BY <1>1, <4>1, <4>2, <4>3 DEF e
    <3>4. a \in Nat /\ b \in Nat
      BY <1>1, <1>3, <3>1, Times
    <3>5. exact[f] = a + rest[f] /\ exact[g] = a + b + rest[g]
      BY <1>3, <3>1, <3>2, <3>4
    <3>6. rest[f] \in Nat /\ rest[f] < sum /\ rest[g] \in Nat
      BY <1>3
    <3> HIDE DEF a, b
    <3>7. QED
      BY <1>1, <2>1, <3>3, <3>4, <3>5, <3>6
  <2>3. CASE whole[g] < whole[f]
    BY <1>3, <1>4, <2>3
  <2>4. CASE whole[g] = whole[f]
    <3>1. rest[f] > rest[g]
      BY <1>1, <1>3, <2>1, <2>4
    <3>2. AheadOf(rest, S, f) \in SUBSET AheadOf(rest, S, g)
      BY <1>3, <3>1 DEF AheadOf, Ahead
    <3>3. Cardinality(AheadOf(rest, S, f)) <= Cardinality(AheadOf(rest, S, g))
      BY <1>14, <3>2, FS_Subset
    <3>4. extra[g] <= extra[f]
      BY <1>9, <1>14, <3>3
    <3>5. QED
      BY <1>3, <1>4, <2>4, <3>4
  <2>5. QED
    BY <1>3, <2>2, <2>3, <2>4
<1>18. QED
  BY <1>12, <1>13, <1>16, <1>17 DEF part, sum

\* So what a report is charged as is fair, at any price.
LEMMA ChargeIsFair ==
  ASSUME NEW files, Numbered(files), IsFiniteSet(files), NEW used \in Nat,
         NEW figures, \A f \in files : figures[f] \in Nat,
         NEW price \in (Nat \ {0}) \X (Nat \ {0})
  PROVE  FairCharge(used, figures, files, price)
<1> DEFINE total == AtLeastOne(used, price)
           part  == [f \in files |-> ChargeFile(used, figures, files, f, price)]
           share == [f \in files |-> Share(total, figures, files, f)]
<1> SUFFICES ASSUME SumOf(figures, files) = used, used > 0
             PROVE  /\ total > 0
                    /\ SumOf(part, files) = total
                    /\ \A f \in files : /\ part[f] * used < total * figures[f] + used
                                        /\ part[f] * used > total * figures[f] - used
                    /\ \A f, g \in files : figures[f] > figures[g] => part[f] >= part[g]
  BY DEF FairCharge
<1>1. total \in Nat \ {0}
  BY PriceIsNat
<1>2. part = share
  BY DEF ChargeFile
<1> HIDE DEF total, part
<1>3. /\ SumOf(share, files) = total
      /\ \A f \in files : /\ share[f] * used < total * figures[f] + used
                          /\ share[f] * used > total * figures[f] - used
      /\ \A f, g \in files : figures[f] > figures[g] => share[f] >= share[g]
  BY <1>1, Shares
<1>4. QED
  BY <1>1, <1>2, <1>3

-----------------------------------------------------------------------------
(* What is charged adds up.                                                *)

\* Whatever the price: when what a customer's files carried adds up to what the
\* customer did, so do the charges, to the byte, each within a byte of its exact
\* part (report.go: chargeReport, share), for any figures a node can report.
THEOREM ChargesAreFair == Spec => []ChargesAddUp
<1>1. IInv => ChargesAddUp
  <2> SUFFICES ASSUME IInv, NEW a \in Answers, NEW c \in Customers,
                      NEW over \in 1 .. 4, NEW under \in 1 .. 4
               PROVE  FairCharge(a.used[c], a.file, {d \in DevicesOf(c) : a.file[d] > 0},
                                 <<over, under>>)
    BY DEF ChargesAddUp
  <2> DEFINE files == {d \in DevicesOf(c) : a.file[d] > 0}
  <2>1. a \in Reports
    BY CallKinds DEF IInv, WireOK, Answers
  <2>2. a.used[c] \in Nat /\ \A d \in Devices : a.file[d] \in Nat
    BY <2>1 DEF Reports
  <2>3. files \in SUBSET Devices
    BY DEF DevicesOf
  <2>4. IsFiniteSet(files) /\ Numbered(files)
    BY <2>3, FS_Subset, NodeSyncAssumption DEF Numbered
  <2>5. <<over, under>> \in (Nat \ {0}) \X (Nat \ {0})
    OBVIOUS
  <2>6. \A d \in files : a.file[d] \in Nat
    BY <2>2, <2>3
  <2> HIDE DEF files
  <2>7. FairCharge(a.used[c], a.file, files, <<over, under>>)
    BY <2>2, <2>4, <2>5, <2>6, ChargeIsFair
  <2>8. QED
    BY <2>7 DEF files
<1>2. QED
  BY <1>1, Inductive, PTL

\* A file is charged a natural number of bytes.
LEMMA ChargeIsNat ==
    ASSUME NEW files, Numbered(files), IsFiniteSet(files), NEW used \in Nat,
           NEW figures, NEW file, figures[file] \in Nat,
           \A f \in files : figures[f] \in Nat,
           NEW price \in (Nat \ {0}) \X (Nat \ {0})
    PROVE  ChargeFile(used, figures, files, file, price) \in Nat
<1> DEFINE total == AtLeastOne(used, price)
<1>1. CASE used > 0 /\ file \in files /\ SumOf(figures, files) = used
  <2>1. total \in Nat \ {0}
    BY <1>1, PriceIsNat
  <2>2. SumOf(figures, files) > 0
    BY <1>1
  <2> HIDE DEF total
  <2>3. Share(total, figures, files, file) \in Nat
    BY <1>1, <2>1, <2>2, Shares
  <2>4. QED
    BY <1>1, <2>3 DEF ChargeFile, total
<1>2. CASE ~(used > 0 /\ file \in files /\ SumOf(figures, files) = used)
  BY <1>2, PriceIsNat DEF ChargeFile
<1>3. QED
  BY <1>1, <1>2

\* When what the files carried adds up to what the customer did, what they are
\* charged adds up to what the customer is.
LEMMA ChargesOfFiles ==
    ASSUME NEW S, Numbered(S), IsFiniteSet(S), NEW used \in Nat,
           NEW figures, \A f \in S : figures[f] \in Nat, SumOf(figures, S) = used,
           NEW price \in (Nat \ {0}) \X (Nat \ {0}),
           NEW charge, \A f \in S : charge[f] =
               ChargeFile(used, figures, {d \in S : figures[d] > 0}, f, price)
    PROVE  SumOf(charge, S) = AtLeastOne(used, price)
<1> DEFINE files == {d \in S : figures[d] > 0}
           total == AtLeastOne(used, price)
<1>1. files \in SUBSET S
  OBVIOUS
<1>2. IsFiniteSet(files) /\ Numbered(files)
  BY <1>1, FS_Subset DEF Numbered
<1>3. \A f \in S : charge[f] \in Nat /\ (f \notin files => charge[f] = 0)
  <2> SUFFICES ASSUME NEW f \in S PROVE charge[f] \in Nat /\ (f \notin files => charge[f] = 0)
    OBVIOUS
  <2>1. charge[f] = ChargeFile(used, figures, files, f, price)
    OBVIOUS
  <2>2. \A g \in files : figures[g] \in Nat
    OBVIOUS
  <2>3. f \notin files => figures[f] = 0
    OBVIOUS
  <2> HIDE DEF files
  <2>4. charge[f] \in Nat
    BY <1>2, <2>1, <2>2, ChargeIsNat
  <2>5. f \notin files => charge[f] = 0
    BY <2>1, <2>3, PriceIsNat DEF ChargeFile
  <2>6. QED
    BY <2>4, <2>5
<1>4. SumOf(figures, S) = SumOf(figures, files)
  <2>1. \A f \in S : figures[f] \in Int /\ (f \notin files => figures[f] = 0)
    OBVIOUS
  <2> HIDE DEF files
  <2>2. QED
    BY <1>1, <2>1, SumOfSome
<1>5. SumOf(charge, S) = SumOf(charge, files)
  <2>1. \A f \in S : charge[f] \in Int
    BY <1>3
  <2> HIDE DEF files
  <2>2. QED
    BY <1>1, <1>3, <2>1, SumOfSome
<1>6. CASE used = 0
  <2>1. \A f \in S : figures[f] = 0
    BY <1>6, SumOfNats
  <2>2. SumOf(charge, S) = 0
    <3>1. \A f \in S : charge[f] = 0
      BY <1>3, <2>1
    <3>2. QED
      BY <3>1, SumOfZeros
  <2>3. QED
    BY <1>6, <2>2, PriceIsNat
<1>7. CASE used > 0
  <2> DEFINE share == [f \in files |-> Share(total, figures, files, f)]
  <2>1. \A f \in files : charge[f] = share[f] /\ charge[f] \in Int
    BY <1>3, <1>4, <1>7 DEF ChargeFile
  <2>2. total \in Nat \ {0}
    BY <1>7, PriceIsNat
  <2>3. \A f \in files : figures[f] \in Nat
    OBVIOUS
  <2> HIDE DEF files, total
  <2>4. SumOf(share, files) = total
    BY <1>2, <1>4, <1>7, <2>2, <2>3, Shares
  <2>5. SumOf(share, files) = SumOf(charge, files)
    <3> HIDE DEF share
    <3>1. \A f \in files : charge[f] \in Int /\ share[f] = charge[f]
      BY <2>1
    <3>2. QED
      BY <1>2, <3>1, SumSame
  <2>6. QED
    BY <1>5, <2>4, <2>5 DEF total
<1>8. QED
  BY <1>6, <1>7

\* What is counted, billed and bounded are natural numbers.
Amounts ==
    /\ hostUsed \in Nat /\ monthOver \in BOOLEAN
    /\ bill \in [Customers -> Nat] /\ fileBill \in [Devices -> Nat]
    /\ faults \in Nat /\ edits \in Nat

\* How many of the panel's two writes failed with an answer.
LEMMA TwoCanFail ==
    ASSUME NEW failing \in SUBSET {"host", "owners"}
    PROVE  /\ Cardinality(failing) \in Nat
           /\ Cardinality(failing) = 0 => failing = {}
<1>1. IsFiniteSet({"host", "owners"})
  <2>1. IsFiniteSet({} \cup {"host"})
    BY FS_EmptySet, FS_AddElement
  <2>2. IsFiniteSet(({} \cup {"host"}) \cup {"owners"})
    BY <2>1, FS_AddElement
  <2>3. {"host", "owners"} = ({} \cup {"host"}) \cup {"owners"}
    OBVIOUS
  <2>4. QED
    BY <2>2, <2>3
<1>2. QED
  BY <1>1, FS_Subset, FS_CardinalityType, FS_EmptySet

\* Whose files an answer is about: those of the customer's that are known.
FilesOf(c, known, o) == {d \in known \cap DevicesOf(o) : c.file[d] > 0}

\* What charging an answer writes (chargeReport, onReport, RecordNodeTraffic).
LEMMA AnswerCharged ==
    ASSUME RecordsOK, WireOK, Amounts, NEW c \in calls, UsageAnswered(c)
    PROVE  /\ c \in Reports /\ c \in Answers
           /\ \E failing \in SUBSET {"host", "owners"} :
                /\ faults' = faults + Cardinality(failing)
                /\ "host" \in failing => UNCHANGED <<hostUsed, monthOver>>
                /\ "host" \notin failing => /\ hostUsed' = Recorded(SumOf(c.used, Customers))
                                           /\ monthOver' = FALSE
                /\ \E known \in {{}, devices} :
                     /\ failing = {} => known = devices
                     /\ fileBill' = [d \in Devices |-> fileBill[d] +
                          ChargeFile(c.used[Owner[d]], c.file,
                                     FilesOf(c, known, Owner[d]), d, Price)]
           /\ bill' = [o \in Customers |-> bill[o] + AtLeastOne(c.used[o], Price)]
           /\ told' = Plus(told, c.used)
           /\ calls' = calls \ {c} /\ round' = Idle
           /\ UNCHANGED <<recordVars, rowVars, usageVars, carried, edits>>
<1>1. c \in Reports /\ c \in Answers
  BY CallKinds DEF UsageAnswered, WireOK, Answers
<1>2. PICK failing \in SUBSET {"host", "owners"} :
        /\ faults' = faults + Cardinality(failing)
        /\ IF "host" \in failing
           THEN UNCHANGED <<hostUsed, monthOver>>
           ELSE /\ hostUsed' = Recorded(SumOf(c.used, Customers))
                /\ monthOver' = FALSE
        /\ LET known == IF "owners" \in failing THEN {} ELSE devices
               files(o) == {d \in known \cap DevicesOf(o) : c.file[d] > 0}
           IN  fileBill' = [d \in Devices |-> fileBill[d] +
                   ChargeFile(c.used[Owner[d]], c.file, files(Owner[d]), d, Price)]
  BY DEF UsageAnswered
<1> DEFINE known == IF "owners" \in failing THEN {} ELSE devices
<1>3. known \in {{}, devices} /\ (failing = {} => known = devices)
  OBVIOUS
<1>4. fileBill' = [d \in Devices |-> fileBill[d] +
          ChargeFile(c.used[Owner[d]], c.file, FilesOf(c, known, Owner[d]), d, Price)]
  BY <1>2 DEF FilesOf
<1> HIDE DEF known
<1>5. \E f \in SUBSET {"host", "owners"} :
        /\ faults' = faults + Cardinality(f)
        /\ "host" \in f => UNCHANGED <<hostUsed, monthOver>>
        /\ "host" \notin f => /\ hostUsed' = Recorded(SumOf(c.used, Customers))
                              /\ monthOver' = FALSE
        /\ \E k \in {{}, devices} :
             /\ f = {} => k = devices
             /\ fileBill' = [d \in Devices |-> fileBill[d] +
                  ChargeFile(c.used[Owner[d]], c.file, FilesOf(c, k, Owner[d]), d, Price)]
  BY <1>2, <1>3, <1>4
<1>6. /\ bill' = [o \in Customers |-> bill[o] + AtLeastOne(c.used[o], Price)]
      /\ told' = Plus(told, c.used)
      /\ calls' = calls \ {c} /\ round' = Idle
      /\ UNCHANGED <<recordVars, rowVars, usageVars, carried, edits>>
  BY DEF UsageAnswered
<1>7. QED
  BY <1>1, <1>5, <1>6

LEMMA AmountsCharged ==
    ASSUME RecordsOK, WireOK, Amounts, NEW c \in calls, UsageAnswered(c)
    PROVE  Amounts'
<1> USE NodeSyncAssumption
<1>1. c \in Reports
  BY AnswerCharged
<1>2. (\A o \in Customers : c.used[o] \in Nat) /\ (\A d \in Devices : c.file[d] \in Nat)
  BY <1>1 DEF Reports
<1>3. SumOf(c.used, Customers) \in Nat
  BY <1>2, SumOfNats
<1>4. hostUsed' \in Nat /\ monthOver' \in BOOLEAN /\ faults' \in Nat /\ edits' = edits
  <2>1. PICK failing \in SUBSET {"host", "owners"} :
          /\ faults' = faults + Cardinality(failing)
          /\ "host" \in failing => UNCHANGED <<hostUsed, monthOver>>
          /\ "host" \notin failing => /\ hostUsed' = Recorded(SumOf(c.used, Customers))
                                     /\ monthOver' = FALSE
    BY AnswerCharged
  <2>2. Cardinality(failing) \in Nat
    BY TwoCanFail
  <2>3. edits' = edits
    BY AnswerCharged
  <2> DEFINE n == SumOf(c.used, Customers)
  <2> HIDE DEF n
  <2>4. n \in Nat
    BY <1>3 DEF n
  <2>5. Recorded(n) \in Nat
    BY <2>4 DEF Recorded, Amounts
  <2>6. hostUsed' \in Nat /\ monthOver' \in BOOLEAN
    BY <2>1, <2>5 DEF Amounts, n
  <2>7. QED
    BY <2>1, <2>2, <2>3, <2>6 DEF Amounts
<1>5. bill' \in [Customers -> Nat]
  <2>1. \A o \in Customers : bill[o] + AtLeastOne(c.used[o], Price) \in Nat
    BY <1>2, PriceIsNat DEF Amounts
  <2>2. bill' = [o \in Customers |-> bill[o] + AtLeastOne(c.used[o], Price)]
    BY AnswerCharged
  <2>3. QED
    BY <2>1, <2>2
<1>6. fileBill' \in [Devices -> Nat]
  <2>1. PICK known \in {{}, devices} :
          fileBill' = [d \in Devices |-> fileBill[d] +
              ChargeFile(c.used[Owner[d]], c.file, FilesOf(c, known, Owner[d]), d, Price)]
    BY AnswerCharged
  <2>2. ASSUME NEW d \in Devices
        PROVE  ChargeFile(c.used[Owner[d]], c.file, FilesOf(c, known, Owner[d]), d, Price)
                 \in Nat
    <3>1. FilesOf(c, known, Owner[d]) \in SUBSET Devices
      BY DEF FilesOf, DevicesOf
    <3>2. IsFiniteSet(FilesOf(c, known, Owner[d])) /\ Numbered(FilesOf(c, known, Owner[d]))
      BY <3>1, FS_Subset DEF Numbered
    <3>3. \A f \in FilesOf(c, known, Owner[d]) : c.file[f] \in Nat
      BY <1>2, <3>1
    <3>4. c.used[Owner[d]] \in Nat /\ c.file[d] \in Nat
      BY <1>2
    <3>5. QED
      BY <3>2, <3>3, <3>4, ChargeIsNat
  <2>3. \A d \in Devices : fileBill[d] \in Nat
    BY DEF Amounts
  <2>4. QED
    BY <2>1, <2>2, <2>3
<1>7. QED
  BY <1>4, <1>5, <1>6 DEF Amounts

THEOREM AmountsHold == Spec => []Amounts
<1>1. Init => Amounts
  <2> SUFFICES ASSUME Init PROVE Amounts
    OBVIOUS
  <2>1. /\ hostUsed = 0 /\ monthOver = FALSE /\ faults = 0 /\ edits = 0
        /\ bill = [c \in Customers |-> 0] /\ fileBill = [d \in Devices |-> 0]
    BY DEF Init, NoUse, NoFiles
  <2>2. QED
    BY <2>1 DEF Amounts
<1>2. IInv /\ Amounts /\ [Next]_vars => Amounts'
  <2> SUFFICES ASSUME IInv, Amounts, [Next]_vars PROVE Amounts'
    OBVIOUS
  <2>1. CASE Edits
    <3>1. /\ edits' = edits + 1 /\ UNCHANGED <<hostUsed, bill, fileBill, faults>>
          /\ monthOver' \in {monthOver, TRUE}
      BY <2>1 DEF Edits, AddTunnel, DeleteTunnel, AddDevice, RemoveDevice, Switch,
         MonthEnds, Edit, chargeVars
    <3>2. monthOver' \in BOOLEAN
      BY <3>1, Zenon DEF Amounts
    <3>3. edits' \in Nat
      BY <3>1 DEF Amounts
    <3>4. QED
      BY <3>1, <3>2, <3>3 DEF Amounts
  <2>2. ASSUME NEW c \in calls, UsageAnswered(c) PROVE Amounts'
    BY <2>2, AmountsCharged DEF IInv
  <2>3. CASE UNCHANGED <<hostUsed, monthOver, bill, fileBill, edits>>
             /\ (faults' = faults \/ Fault)
    BY <2>3 DEF Amounts, Fault
  <2>4. CASE RoundBegins \/ AskUsage \/ \E t \in Tunnels : Push(t)
    BY <2>3, <2>4 DEF RoundBegins, AskUsage, Push, chargeVars
  <2>5. ASSUME NEW c \in calls, PushAnswered(c) \/ RoundFails(c) \/ Dropped(c)
        PROVE  Amounts'
    BY <2>3, <2>5 DEF PushAnswered, RoundFails, Dropped, chargeVars
  <2>6. ASSUME NEW c \in calls, Handle(c) PROVE Amounts'
    BY <2>3, <2>6 DEF Handle, Apply, PruneReads, PruneOne, Drain, chargeVars
  <2>7. CASE Trouble
    BY <2>3, <2>7 DEF Trouble, PruneFails, NodeFails, GiveUp, AnswerLost, chargeVars
  <2>8. ASSUME NEW d \in Devices, Carry(d) PROVE Amounts'
    BY <2>3, <2>8 DEF Carry, chargeVars
  <2>9. CASE UNCHANGED vars
    BY <2>3, <2>9 DEF vars, chargeVars
  <2>10. QED
    BY <2>1, <2>2, <2>4, <2>5, <2>6, <2>7, <2>8, <2>9
       DEF Next, Panel, Awaited, Unawaited
<1>3. QED
  BY <1>1, <1>2, Inductive, PTL DEF Spec

\* Every variable keeps its type, what was billed included.
THEOREM TypesHold == Spec => []TypeOK
<1>1. IInv /\ CInv /\ Amounts => TypeOK
  BY DEF IInv, CInv, Amounts, TypeOK
<1>2. QED
  BY <1>1, Inductive, Counted, AmountsHold, PTL

\* While nothing failed and nothing was withdrawn, every call is waited for,
\* nothing on the node is to be pruned, and what a round read is still there.
NothingLeftOver ==
    /\ \A c \in calls : c.waited /\ (c.at = "pruning" => c.left = {})
    /\ nodeTunnels \subseteq tunnels /\ nodeDevices \subseteq devices
    /\ round.at = "push" =>
         /\ nodeTunnels \subseteq round.tunnels /\ nodeDevices \subseteq round.devices
         /\ round.tunnels \subseteq tunnels /\ round.devices \subseteq devices

\* A customer's usage, on the node or on its way, is that of their files, and
\* the panel knows each file that has some.
FilesAddUp ==
    /\ \A d \in Devices : nodeFile[d] > 0 => d \in nodeDevices
    /\ \A c \in Customers : nodeUsed[c] = SumOf(nodeFile, DevicesOf(c))
    /\ \A a \in Answers : /\ \A d \in Devices : a.file[d] > 0 => d \in devices
                          /\ \A c \in Customers : a.used[c] = SumOf(a.file, DevicesOf(c))

\* What BillsAgree asks, and that a month that goes on is the first.
Billed ==
    /\ lost = NoUse
    /\ \A c \in Customers : bill[c] = SumOf(fileBill, DevicesOf(c))
    /\ edits = 0 => ~monthOver /\ hostUsed = SumOf(told, Customers)

Undisturbed == faults = 0 /\ gone = {}
BInv == Undisturbed => NothingLeftOver /\ FilesAddUp /\ Billed

\* A customer's devices are finitely many numbers.
LEMMA DevicesAreNumbered ==
    ASSUME NEW c \in Customers
    PROVE  DevicesOf(c) \in SUBSET Devices /\ IsFiniteSet(DevicesOf(c)) /\ Numbered(DevicesOf(c))
<1>1. DevicesOf(c) \in SUBSET Devices
  BY DEF DevicesOf
<1>2. QED
  BY <1>1, FS_Subset, NodeSyncAssumption DEF Numbered

\* One report charged: the customers' bills and their files' rise by the same,
\* and the host's count by the bytes (UsageAnswered, with nothing failing).
LEMMA ReportBilled ==
    ASSUME RecordsOK, WireOK, Amounts, CountsOK, FilesAddUp, Billed,
           NEW c \in calls, UsageAnswered(c), faults = 0, faults' = 0
    PROVE  Billed'
<1> USE NodeSyncAssumption
<1>1. c \in Reports /\ c \in Answers
  BY AnswerCharged
<1>2. (\A o \in Customers : c.used[o] \in Nat) /\ (\A d \in Devices : c.file[d] \in Nat)
  BY <1>1 DEF Reports
<1>3. PICK failing \in SUBSET {"host", "owners"} :
        /\ faults' = faults + Cardinality(failing)
        /\ "host" \notin failing => /\ hostUsed' = Recorded(SumOf(c.used, Customers))
                                   /\ monthOver' = FALSE
        /\ \E known \in {{}, devices} :
             /\ failing = {} => known = devices
             /\ fileBill' = [d \in Devices |-> fileBill[d] +
                  ChargeFile(c.used[Owner[d]], c.file, FilesOf(c, known, Owner[d]), d, Price)]
  BY AnswerCharged
<1>4. failing = {}
  BY <1>3, TwoCanFail
<1>5. /\ hostUsed' = Recorded(SumOf(c.used, Customers)) /\ monthOver' = FALSE
      /\ fileBill' = [d \in Devices |-> fileBill[d] +
           ChargeFile(c.used[Owner[d]], c.file, FilesOf(c, devices, Owner[d]), d, Price)]
  BY <1>3, <1>4
<1>6. /\ bill' = [o \in Customers |-> bill[o] + AtLeastOne(c.used[o], Price)]
      /\ told' = Plus(told, c.used) /\ UNCHANGED <<lost, edits>>
  BY AnswerCharged DEF usageVars
<1>7. ASSUME NEW o \in Customers PROVE bill'[o] = SumOf(fileBill', DevicesOf(o))
  <2> DEFINE S == DevicesOf(o)
             charge == [d \in S |-> ChargeFile(c.used[o], c.file,
                                        {f \in S : c.file[f] > 0}, d, Price)]
  <2>1. S \in SUBSET Devices /\ IsFiniteSet(S) /\ Numbered(S)
    BY DevicesAreNumbered
  <2>2. FilesOf(c, devices, o) = {f \in S : c.file[f] > 0}
    BY <1>1 DEF FilesOf, FilesAddUp, DevicesOf
  <2>3. \A d \in S : Owner[d] = o /\ d \in Devices
    BY DEF DevicesOf
  <2>4. \A d \in S : fileBill'[d] = fileBill[d] + charge[d]
    BY <1>5, <2>2, <2>3
  <2>5. \A d \in S : c.file[d] \in Nat
    BY <1>2, <2>3
  <2>6. SumOf(c.file, S) = c.used[o] /\ c.used[o] \in Nat
    BY <1>1, <1>2 DEF FilesAddUp
  <2>7. \A d \in S : charge[d] = ChargeFile(c.used[o], c.file,
                                     {f \in S : c.file[f] > 0}, d, Price)
    OBVIOUS
  <2> HIDE DEF S, charge
  <2>8. SumOf(charge, S) = AtLeastOne(c.used[o], Price)
    BY <2>1, <2>5, <2>6, <2>7, ChargesOfFiles
  <2>9. \A d \in S : charge[d] \in Int
    <3> SUFFICES ASSUME NEW d \in S PROVE charge[d] \in Int
      OBVIOUS
    <3> DEFINE files == {f \in S : c.file[f] > 0}
    <3>1. files \in SUBSET S
      OBVIOUS
    <3>2. IsFiniteSet(files) /\ Numbered(files) /\ \A f \in files : c.file[f] \in Nat
      BY <2>1, <2>5, <3>1, FS_Subset DEF Numbered
    <3>3. charge[d] = ChargeFile(c.used[o], c.file, files, d, Price)
      BY <2>7
    <3> HIDE DEF files
    <3>4. charge[d] \in Nat
      BY <2>5, <2>6, <3>2, <3>3, ChargeIsNat
    <3>5. QED
      BY <3>4
  <2>10. \A d \in S : fileBill[d] \in Int
    BY <2>1 DEF Amounts
  <2>11. \A d \in S : /\ fileBill[d] \in Int /\ charge[d] \in Int
                      /\ fileBill'[d] = fileBill[d] + charge[d]
    BY <2>4, <2>9, <2>10
  <2>12. SumOf(fileBill', S) = SumOf(fileBill, S) + SumOf(charge, S)
    BY <2>1, <2>11, SumPlus
  <2>13. SumOf(fileBill, S) = bill[o]
    BY DEF Billed, S
  <2>14. bill'[o] = bill[o] + AtLeastOne(c.used[o], Price)
    BY <1>6
  <2>15. QED
    BY <2>8, <2>12, <2>13, <2>14 DEF S
<1>8. ASSUME edits' = 0 PROVE ~monthOver' /\ hostUsed' = SumOf(told', Customers)
  <2>1. ~monthOver /\ hostUsed = SumOf(told, Customers)
    BY <1>6, <1>8 DEF Billed
  <2>2. hostUsed' = hostUsed + SumOf(c.used, Customers)
    BY <1>5, <2>1 DEF Recorded
  <2>3. \A o \in Customers : told[o] \in Int /\ c.used[o] \in Int
                             /\ told'[o] = told[o] + c.used[o]
    BY <1>2, <1>6 DEF CountsOK, Plus
  <2>4. SumOf(told', Customers) = SumOf(told, Customers) + SumOf(c.used, Customers)
    BY <2>3, SumPlus
  <2>5. QED
    BY <1>5, <2>1, <2>2, <2>4
<1>9. lost' = NoUse
  BY <1>6 DEF Billed
<1>10. QED
  BY <1>7, <1>8, <1>9 DEF Billed

\* One byte more of a file is one more of its owner's.
LEMMA OneByteMore ==
    ASSUME NEW d \in Devices, NEW g, NEW h, NEW o \in Customers,
           \A f \in Devices : g[f] \in Int /\ h[f] = IF f = d THEN g[f] + 1 ELSE g[f]
    PROVE  SumOf(h, DevicesOf(o)) =
             SumOf(g, DevicesOf(o)) + IF o = Owner[d] THEN 1 ELSE 0
<1> DEFINE S == DevicesOf(o)
<1>1. S \in SUBSET Devices /\ IsFiniteSet(S)
  BY DevicesAreNumbered
<1>2. d \in S <=> o = Owner[d]
  BY DEF DevicesOf
<1> HIDE DEF S
<1>3. CASE d \in S
  <2>1. \A f \in S : g[f] \in Int /\ h[f] = IF f = d THEN g[f] + 1 ELSE g[f]
    BY <1>1
  <2>2. SumOf(h, S) = SumOf(g, S) + 1
    BY <1>1, <1>3, <2>1, SumRaised
  <2>3. QED
    BY <1>2, <1>3, <2>2 DEF S
<1>4. CASE d \notin S
  <2>1. \A f \in S : g[f] \in Int /\ h[f] = g[f]
    BY <1>1, <1>4
  <2>2. SumOf(h, S) = SumOf(g, S) /\ SumOf(g, S) \in Int
    BY <1>1, <2>1, SumSame, SumWithout
  <2>3. QED
    BY <1>2, <1>4, <2>2 DEF S
<1>5. QED
  BY <1>3, <1>4

\* A byte of a file the node has is added to the file's usage and its owner's.
LEMMA ByteCounted ==
    ASSUME UsageOK, FilesAddUp, NEW d \in nodeDevices, d \in Devices, calls' = calls,
           UNCHANGED <<devices, nodeDevices>>,
           nodeUsed' = [nodeUsed EXCEPT ![Owner[d]] = @ + 1],
           nodeFile' = [nodeFile EXCEPT ![d] = @ + 1]
    PROVE  FilesAddUp'
<1>1. \A f \in Devices : /\ nodeFile[f] \in Int
                         /\ nodeFile'[f] = IF f = d THEN nodeFile[f] + 1 ELSE nodeFile[f]
  BY DEF UsageOK
<1>2. ASSUME NEW o \in Customers PROVE nodeUsed'[o] = SumOf(nodeFile', DevicesOf(o))
  <2>1. nodeUsed[o] = SumOf(nodeFile, DevicesOf(o))
    BY DEF FilesAddUp
  <2> DEFINE h == nodeFile'
  <2>0. \A f \in Devices : /\ nodeFile[f] \in Int
                           /\ h[f] = IF f = d THEN nodeFile[f] + 1 ELSE nodeFile[f]
    BY <1>1
  <2>2. SumOf(h, DevicesOf(o)) =
          SumOf(nodeFile, DevicesOf(o)) + IF o = Owner[d] THEN 1 ELSE 0
    <3> HIDE DEF h
    <3>1. QED
      BY <2>0, OneByteMore
  <2>3. nodeUsed'[o] = nodeUsed[o] + IF o = Owner[d] THEN 1 ELSE 0
    BY DEF UsageOK
  <2>4. QED
    BY <2>1, <2>2, <2>3
<1>3. \A f \in Devices : nodeFile'[f] > 0 => f \in nodeDevices'
  BY <1>1 DEF FilesAddUp
<1>4. Answers' = Answers
  BY DEF Answers
<1>5. QED
  BY <1>2, <1>3, <1>4 DEF FilesAddUp

\* Rows that are kept when none is deleted keep all there is.
LEMMA NoRowDeleted ==
    ASSUME UsageOK, CountsOK, FilesAddUp, Billed, NEW kept \in SUBSET Devices,
           nodeDevices \subseteq kept, KeepRows(kept)
    PROVE  nodeDevices' = kept /\ nodeFile' = nodeFile /\ nodeUsed' = nodeUsed /\ lost' = lost
<1>1. /\ nodeDevices' = kept
      /\ nodeFile' = [d \in Devices |-> IF d \in kept THEN nodeFile[d] ELSE 0]
      /\ nodeUsed' = [c \in Customers |-> IF c \in Owners(kept) THEN nodeUsed[c] ELSE 0]
      /\ lost' = [c \in Customers |-> lost[c] + nodeUsed[c] - nodeUsed'[c]]
  BY DEF KeepRows
<1>2. \A d \in Devices : d \notin kept => nodeFile[d] = 0
  BY DEF FilesAddUp, UsageOK
<1>3. nodeFile' = nodeFile
  BY <1>1, <1>2 DEF UsageOK
<1>4. ASSUME NEW c \in Customers, c \notin Owners(kept) PROVE nodeUsed[c] = 0
  <2>1. \A d \in DevicesOf(c) : nodeFile[d] = 0
    BY <1>2, <1>4 DEF DevicesOf, Owners
  <2>2. SumOf(nodeFile, DevicesOf(c)) = 0
    BY <2>1, DevicesAreNumbered, SumOfZeros
  <2>3. QED
    BY <2>2 DEF FilesAddUp
<1>5. nodeUsed' = nodeUsed
  BY <1>1, <1>4 DEF UsageOK
<1>6. lost' = lost
  BY <1>1, <1>5 DEF UsageOK, CountsOK
<1>7. QED
  BY <1>1, <1>3, <1>5, <1>6

\* Over many reports the customers' bills stay the sums of their files', no byte
\* is lost and the host's count is the bytes themselves, while nothing failed and
\* nothing was withdrawn (report.go: chargeReport; nodeusage.go: Drain).
THEOREM BillsAddUp == Spec => []BillsAgree
<1>1. Init => BInv
  <2> SUFFICES ASSUME Init PROVE NothingLeftOver /\ FilesAddUp /\ Billed
    BY DEF BInv
  <2>1. /\ calls = {} /\ round = Idle /\ nodeTunnels = {} /\ nodeDevices = {}
        /\ nodeUsed = NoUse /\ nodeFile = NoFiles /\ lost = NoUse /\ told = NoUse
        /\ bill = NoUse /\ fileBill = NoFiles /\ hostUsed = 0 /\ monthOver = FALSE
    BY DEF Init
  <2>2. NothingLeftOver
    BY <2>1 DEF NothingLeftOver, Idle
  <2>3. ASSUME NEW c \in Customers PROVE SumOf(NoFiles, DevicesOf(c)) = 0
    <3>1. \A d \in DevicesOf(c) : NoFiles[d] = 0
      BY DEF NoFiles, DevicesOf
    <3>2. QED
      BY <3>1, DevicesAreNumbered, SumOfZeros
  <2>4. FilesAddUp
    BY <2>1, <2>3 DEF FilesAddUp, Answers, NoUse, NoFiles
  <2>5. SumOf(NoUse, Customers) = 0
    <3>1. \A c \in Customers : NoUse[c] = 0
      BY DEF NoUse
    <3>2. QED
      BY <3>1, NodeSyncAssumption, SumOfZeros
  <2>6. Billed
    BY <2>1, <2>3, <2>5 DEF Billed, NoUse
  <2>7. QED
    BY <2>2, <2>4, <2>6
<1>2. IInv /\ CInv /\ Amounts /\ BInv /\ [Next]_vars => BInv'
  <2> SUFFICES ASSUME IInv, CInv, Amounts, BInv, [Next]_vars, Undisturbed'
               PROVE  NothingLeftOver' /\ FilesAddUp' /\ Billed'
    BY DEF BInv
  <2> DEFINE Good == NothingLeftOver /\ FilesAddUp /\ Billed
  <2> USE NodeSyncAssumption
  <2>0. RecordsOK /\ RowsOK /\ UsageOK /\ WireOK /\ RoundOnCourse /\ CountsOK
    BY DEF IInv, CInv
  <2>1. Undisturbed => Good
    BY DEF BInv
  <2> HIDE DEF Good
  <2>2. \A n \in Nat : n + 1 # 0
    OBVIOUS
  <2>3. ~Fault
    BY <2>2 DEF Undisturbed, Fault, Amounts
  <2>4. CASE Edits
    <3> DEFINE Same == UNCHANGED <<hostUsed, bill, fileBill, told, rowVars, usageVars,
                                   wireVars, faults>>
               More == /\ gone \subseteq gone'
                       /\ gone' = {} => tunnels \subseteq tunnels' /\ devices \subseteq devices'
    <3>0. edits' = edits + 1 /\ Same /\ More
      <4>1. ASSUME NEW t \in Tunnels, AddTunnel(t) \/ DeleteTunnel(t)
            PROVE  edits' = edits + 1 /\ Same /\ More
        BY <4>1 DEF AddTunnel, DeleteTunnel, Edit, chargeVars
      <4>2. ASSUME NEW d \in Devices, AddDevice(d) \/ RemoveDevice(d)
            PROVE  edits' = edits + 1 /\ Same /\ More
        BY <4>2 DEF AddDevice, RemoveDevice, Edit, chargeVars
      <4>3. ASSUME NEW c \in Customers, Switch(c) PROVE edits' = edits + 1 /\ Same /\ More
        BY <4>3 DEF Switch, Edit, chargeVars
      <4>4. ASSUME MonthEnds PROVE edits' = edits + 1 /\ Same /\ More
        BY <4>4 DEF MonthEnds, Edit, recordVars
      <4>5. QED
        BY <2>4, <4>1, <4>2, <4>3, <4>4 DEF Edits
    <3>1. /\ gone \subseteq gone'
          /\ gone' = {} => tunnels \subseteq tunnels' /\ devices \subseteq devices'
          /\ edits' = edits + 1
          /\ UNCHANGED <<hostUsed, bill, fileBill, told, rowVars, usageVars, wireVars, faults>>
      BY <3>0
    <3>2. Good /\ gone' = {} /\ edits' # 0
      BY <2>1, <3>1 DEF Undisturbed, Amounts
    <3>3. tunnels \subseteq tunnels' /\ devices \subseteq devices'
      BY <3>1, <3>2
    <3>4. NothingLeftOver'
      BY <3>1, <3>2, <3>3 DEF Good, NothingLeftOver, rowVars, wireVars
    <3>5. FilesAddUp'
      BY <3>1, <3>2, <3>3 DEF Good, FilesAddUp, Answers, rowVars, usageVars, wireVars
    <3>6. Billed'
      BY <3>1, <3>2 DEF Good, Billed, usageVars
    <3>7. QED
      BY <3>4, <3>5, <3>6
  <2>5. ASSUME Good, UNCHANGED <<chargeVars, usageVars, edits, devices>>,
               nodeDevices \subseteq nodeDevices', Answers' = Answers
        PROVE  FilesAddUp' /\ Billed'
    <3>1. FilesAddUp'
      BY <2>5 DEF Good, FilesAddUp, usageVars
    <3>2. Billed'
      BY <2>5 DEF Good, Billed, usageVars, chargeVars
    <3>3. QED
      BY <3>1, <3>2
  <2>6. CASE RoundBegins
    <3>1. /\ Good /\ Answers' = Answers
          /\ UNCHANGED <<chargeVars, usageVars, edits, tunnels, devices, rowVars, calls>>
          /\ round'.tunnels = tunnels /\ round'.devices = devices
      BY <2>1, <2>6 DEF RoundBegins, Undisturbed, recordVars, Answers
    <3>2. NothingLeftOver'
      BY <3>1 DEF Good, NothingLeftOver, rowVars
    <3>3. QED
      BY <2>5, <3>1, <3>2 DEF rowVars
  <2>7. ASSUME NEW new, calls' = calls \cup {new}, new.waited, new.at = "sent",
               UNCHANGED <<recordVars, chargeVars, rowVars, usageVars, round, faults, edits>>
        PROVE  NothingLeftOver' /\ FilesAddUp' /\ Billed'
    <3>1. Good /\ Answers' = Answers
      BY <2>1, <2>7 DEF Undisturbed, recordVars, Answers
    <3>2. NothingLeftOver'
      BY <2>7, <3>1 DEF Good, NothingLeftOver, recordVars, rowVars
    <3>3. QED
      BY <2>5, <2>7, <3>1, <3>2 DEF recordVars, rowVars
  <2>8. ASSUME NEW t \in Tunnels, Push(t) PROVE NothingLeftOver' /\ FilesAddUp' /\ Billed'
    <3> DEFINE new == [kind |-> "sync", at |-> "sent", waited |-> TRUE,
                       tunnel |-> t, on |-> round.on,
                       devices |-> OnTunnel(round.devices, t)]
    <3>1. new.waited /\ new.at = "sent"
      OBVIOUS
    <3>2. /\ calls' = calls \cup {new}
          /\ UNCHANGED <<recordVars, chargeVars, rowVars, usageVars, round, faults, edits>>
      BY <2>8 DEF Push
    <3> HIDE DEF new
    <3>3. QED
      BY <2>7, <3>1, <3>2
  <2>9. CASE AskUsage
    <3> DEFINE new == [kind |-> "usage", at |-> "sent", waited |-> TRUE,
                       keep |-> round.tunnels]
    <3>1. new.waited /\ new.at = "sent"
      OBVIOUS
    <3>2. /\ calls' = calls \cup {new}
          /\ UNCHANGED <<recordVars, chargeVars, rowVars, usageVars, round, faults, edits>>
      BY <2>9 DEF AskUsage
    <3> HIDE DEF new
    <3>3. QED
      BY <2>7, <3>1, <3>2
  <2>10. ASSUME NEW c \in calls, PushAnswered(c)
         PROVE  NothingLeftOver' /\ FilesAddUp' /\ Billed'
    <3>1. /\ c.kind = "sync" /\ calls' = calls \ {c}
          /\ round' = [round EXCEPT !.left = @ \ {c.tunnel}]
          /\ UNCHANGED <<recordVars, chargeVars, rowVars, usageVars, faults, edits>>
      BY <2>10 DEF PushAnswered
    <3>2. Good /\ Answers' = Answers
      BY <2>1, <3>1 DEF Undisturbed, recordVars, Answers
    <3>3. round'.at = round.at /\ (round.at = "push" => /\ round'.tunnels = round.tunnels
                                                       /\ round'.devices = round.devices)
      BY <2>0, <3>1 DEF WireOK, Rounds, Idle
    <3>4. NothingLeftOver'
      BY <3>1, <3>2, <3>3 DEF Good, NothingLeftOver, recordVars, rowVars
    <3>5. QED
      BY <2>5, <3>1, <3>2, <3>4 DEF recordVars, rowVars
  <2>11. ASSUME NEW c \in calls, RoundFails(c)
         PROVE  NothingLeftOver' /\ FilesAddUp' /\ Billed'
    <3>1. /\ c.at = "refused" /\ calls' = calls \ {c} /\ round' = Idle
          /\ UNCHANGED <<recordVars, chargeVars, rowVars, usageVars, faults, edits>>
      BY <2>11 DEF RoundFails
    <3>2. Good /\ Answers' = Answers
      BY <2>1, <3>1 DEF Undisturbed, recordVars, Answers
    <3>3. NothingLeftOver'
      BY <3>1, <3>2 DEF Good, NothingLeftOver, recordVars, rowVars, Idle
    <3>4. QED
      BY <2>5, <3>1, <3>2, <3>3 DEF recordVars, rowVars
  <2>12. ASSUME NEW c \in calls, UsageAnswered(c)
         PROVE  NothingLeftOver' /\ FilesAddUp' /\ Billed'
    <3>1. /\ c \in Answers /\ calls' = calls \ {c} /\ round' = Idle
          /\ UNCHANGED <<recordVars, rowVars, usageVars, carried, edits>>
      BY <2>0, <2>12, AnswerCharged
    <3>2. PICK failing \in SUBSET {"host", "owners"} : faults' = faults + Cardinality(failing)
      BY <2>0, <2>12, AnswerCharged
    <3>3. faults = 0 /\ faults' = 0
      BY <3>2, TwoCanFail DEF Undisturbed, Amounts
    <3>4. Good
      BY <2>1, <3>1, <3>3 DEF Undisturbed, recordVars
    <3>5. Billed'
      BY <2>0, <2>12, <3>3, <3>4, ReportBilled DEF Good
    <3>6. NothingLeftOver'
      BY <3>1, <3>4 DEF Good, NothingLeftOver, recordVars, rowVars, Idle
    <3>7. Answers' \subseteq Answers
      BY <3>1 DEF Answers
    <3>8. FilesAddUp'
      BY <3>1, <3>4, <3>7 DEF Good, FilesAddUp, recordVars, rowVars, usageVars
    <3>9. QED
      BY <3>5, <3>6, <3>8
  <2>13. ASSUME NEW c \in calls, Handle(c) \/ Dropped(c), UNCHANGED <<faults, gone>>
         PROVE  NothingLeftOver' /\ FilesAddUp' /\ Billed'
    <3>1. Good /\ c.waited /\ Handle(c) /\ round.at = "push"
      BY <2>0, <2>1, <2>13 DEF Undisturbed, Good, NothingLeftOver, Dropped, WireOK, Waiting
    <3>2. CASE PruneReads(c)
      <4> DEFINE n == [kind |-> "usage", at |-> "pruning", waited |-> c.waited,
                       keep |-> c.keep, left |-> nodeTunnels \ c.keep, pruned |-> TRUE]
      <4>1. /\ c.kind = "usage" /\ c.at = "sent" /\ calls' = (calls \ {c}) \cup {n}
            /\ UNCHANGED <<recordVars, chargeVars, rowVars, usageVars, round, edits>>
        BY <3>2 DEF PruneReads
      <4>2. c.keep = round.tunnels
        BY <2>0, <3>1, <4>1 DEF RoundOnCourse
      <4>3. n.at = "pruning" /\ n.waited /\ n.left = {}
        BY <3>1, <4>2 DEF Good, NothingLeftOver
      <4> HIDE DEF n
      <4>4. NothingLeftOver'
        BY <3>1, <4>1, <4>3 DEF Good, NothingLeftOver, recordVars, rowVars
      <4>5. Answers' = Answers
        BY <4>1, <4>3 DEF Answers
      <4>6. QED
        BY <2>5, <3>1, <4>1, <4>4, <4>5 DEF recordVars, rowVars
    <3>3. CASE PruneOne(c)
      <4>1. c.at = "pruning" /\ c.left # {}
        BY <3>3 DEF PruneOne
      <4>2. QED
        BY <3>1, <4>1 DEF Good, NothingLeftOver
    <3>4. CASE Drain(c)
      <4> DEFINE n == [kind |-> "usage", at |-> "answered", waited |-> TRUE,
                       pruned |-> c.pruned, used |-> nodeUsed, file |-> nodeFile]
      <4>1. /\ c.kind = "usage" /\ c.at = "pruning"
            /\ calls' = (calls \ {c}) \cup {n} /\ lost' = lost
            /\ nodeUsed' = NoUse /\ nodeFile' = NoFiles
            /\ UNCHANGED <<recordVars, chargeVars, rowVars, round, edits>>
        BY <3>1, <3>4 DEF Drain, Finished
      <4>2. n.at = "answered" /\ n.waited /\ n.used = nodeUsed /\ n.file = nodeFile
        OBVIOUS
      <4> HIDE DEF n
      <4>3. NothingLeftOver'
        BY <3>1, <4>1, <4>2 DEF Good, NothingLeftOver, recordVars, rowVars
      <4>4. Answers' \subseteq {n}
        <5>1. Answers = {}
          BY <2>0, <3>1, <4>1, OneAnswer DEF Answers
        <5>2. QED
          BY <4>1, <5>1 DEF Answers
      <4>5. ASSUME NEW o \in Customers PROVE SumOf(NoFiles, DevicesOf(o)) = NoUse[o]
        <5>1. \A d \in DevicesOf(o) : NoFiles[d] = 0
          BY DEF NoFiles, DevicesOf
        <5>2. SumOf(NoFiles, DevicesOf(o)) = 0
          BY <5>1, DevicesAreNumbered, SumOfZeros
        <5>3. QED
          BY <5>2 DEF NoUse
      <4>6. /\ \A d \in Devices : n.file[d] > 0 => d \in devices
            /\ \A o \in Customers : n.used[o] = SumOf(n.file, DevicesOf(o))
        BY <3>1, <4>2 DEF Good, FilesAddUp, NothingLeftOver
      <4>7. \A d \in Devices : ~ (NoFiles[d] > 0)
        BY DEF NoFiles
      <4>8. FilesAddUp'
        BY <4>1, <4>4, <4>5, <4>6, <4>7 DEF FilesAddUp, recordVars
      <4>9. Billed'
        BY <3>1, <4>1 DEF Good, Billed, chargeVars
      <4>10. QED
        BY <4>3, <4>8, <4>9
    <3>5. CASE Apply(c)
      <4>1. c \in Pushes /\ c.at = "sent" /\ c.tunnel \in round.left
            /\ c.devices = OnTunnel(round.devices, c.tunnel)
        BY <2>0, <3>1, <3>5, CallKinds DEF Apply, WireOK, RoundOnCourse
      <4>2. UNCHANGED <<recordVars, chargeVars, round, edits>>
        BY <3>5 DEF Apply
      <4>3. CASE Refuse(c) /\ UNCHANGED <<rowVars, usageVars>>
        <5> DEFINE n == [c EXCEPT !.at = "refused"]
        <5>1. n.at = "refused" /\ n.waited
          BY <3>1, <4>1 DEF Pushes
        <5>2. calls' = (calls \ {c}) \cup {n}
          BY <3>1, <4>3 DEF Refuse, Finished
        <5> HIDE DEF n
        <5>3. NothingLeftOver'
          BY <3>1, <4>2, <4>3, <5>1, <5>2 DEF Good, NothingLeftOver, recordVars, rowVars
        <5>4. Answers' = Answers
          BY <4>1, <5>1, <5>2 DEF Answers
        <5>5. QED
          BY <2>5, <3>1, <4>2, <4>3, <5>3, <5>4 DEF recordVars, rowVars
      <4>4. CASE /\ nodeTunnels' = nodeTunnels \cup {c.tunnel}
                 /\ KeepRows((nodeDevices \ Withdrawn(c)) \cup c.devices)
                 /\ Finished(c, [c EXCEPT !.at = "answered"])
        <5> DEFINE n == [c EXCEPT !.at = "answered"]
                   kept == (nodeDevices \ Withdrawn(c)) \cup c.devices
        <5>1. n.at = "answered" /\ n.waited /\ n.kind = "sync"
          BY <3>1, <4>1 DEF Pushes
        <5>2. calls' = (calls \ {c}) \cup {n}
          BY <3>1, <4>4 DEF Finished
        <5>3. nodeDevices \subseteq round.devices /\ c.tunnel \in round.tunnels
              /\ c.tunnel \in tunnels /\ c.devices \subseteq round.devices
              /\ round.devices \subseteq devices
          BY <2>0, <3>1, <4>1 DEF Good, NothingLeftOver, RoundOnCourse, OnTunnel
        <5>4. nodeDevices \subseteq kept /\ kept \subseteq round.devices /\ kept \in SUBSET Devices
          BY <2>0, <4>1, <5>3 DEF Withdrawn, OnTunnel, RowsOK, Pushes
        <5>5. KeepRows(kept)
          BY <4>4
        <5> HIDE DEF n, kept
        <5>6. /\ nodeDevices' = kept /\ nodeFile' = nodeFile
              /\ nodeUsed' = nodeUsed /\ lost' = lost
          BY <2>0, <3>1, <5>4, <5>5, NoRowDeleted DEF Good
        <5>7. NothingLeftOver'
          BY <3>1, <4>2, <4>4, <5>1, <5>2, <5>3, <5>4, <5>6
             DEF Good, NothingLeftOver, recordVars
        <5>8. Answers' = Answers
          BY <4>1, <5>1, <5>2 DEF Answers
        <5>9. QED
          BY <2>5, <3>1, <4>2, <5>4, <5>6, <5>7, <5>8 DEF recordVars, usageVars
      <4>5. QED
        BY <3>5, <4>3, <4>4 DEF Apply
    <3>6. QED
      BY <3>1, <3>2, <3>3, <3>4, <3>5 DEF Handle
  <2>14. CASE Trouble
    <3>1. Fault
      BY <2>14 DEF Trouble, PruneFails, NodeFails, GiveUp, AnswerLost
    <3>2. QED
      BY <2>3, <3>1
  <2>15. ASSUME NEW d \in Devices, Carry(d) PROVE NothingLeftOver' /\ FilesAddUp' /\ Billed'
    <3>1. /\ d \in nodeDevices /\ calls' = calls
          /\ nodeUsed' = [nodeUsed EXCEPT ![Owner[d]] = @ + 1]
          /\ nodeFile' = [nodeFile EXCEPT ![d] = @ + 1]
          /\ UNCHANGED <<recordVars, chargeVars, rowVars, lost, round, faults, edits>>
      BY <2>15 DEF Carry, wireVars
    <3>2. Good
      BY <2>1, <3>1 DEF Undisturbed, recordVars
    <3>3. NothingLeftOver'
      BY <3>1, <3>2 DEF Good, NothingLeftOver, recordVars, rowVars
    <3>4. FilesAddUp'
      BY <2>0, <3>1, <3>2, ByteCounted DEF Good, recordVars, rowVars
    <3>5. Billed'
      BY <3>1, <3>2 DEF Good, Billed, chargeVars
    <3>6. QED
      BY <3>3, <3>4, <3>5
  <2>16. CASE UNCHANGED vars
    <3>1. UNCHANGED <<recordVars, chargeVars, rowVars, usageVars, wireVars, faults, edits>>
      BY <2>16 DEF vars
    <3>2. Good /\ Answers' = Answers
      BY <2>1, <3>1 DEF Undisturbed, recordVars, wireVars, Answers
    <3>3. NothingLeftOver'
      BY <3>1, <3>2 DEF Good, NothingLeftOver, recordVars, rowVars, wireVars
    <3>4. QED
      BY <2>5, <3>1, <3>2, <3>3 DEF recordVars, rowVars
  <2>17. ASSUME NEW c \in calls, Handle(c) \/ Dropped(c)
         PROVE  UNCHANGED <<faults, gone>>
    BY <2>17 DEF Handle, Dropped, Apply, PruneReads, PruneOne, Drain, recordVars
  <2>18. QED
    BY <2>4, <2>6, <2>8, <2>9, <2>10, <2>11, <2>12, <2>13, <2>14, <2>15, <2>16, <2>17
       DEF Next, Panel, Awaited, Unawaited
<1>3. Spec => []BInv
  BY <1>1, <1>2, Inductive, Counted, AmountsHold, PTL DEF Spec
<1>4. BInv => BillsAgree
  BY DEF BInv, BillsAgree, Undisturbed, Billed
<1>5. QED
  BY <1>3, <1>4, PTL
=============================================================================
