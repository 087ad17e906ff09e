---------------------------- MODULE MeteringProofs ----------------------------
(***************************************************************************)
(* What holds of Metering for any customers, files, allowances and bounds: *)
(* the types and the conservation of bytes, whatever fails; that a customer*)
(* switched off stays off; where no operator resets or raises, that only   *)
(* spent allowances cut a customer off; where no plan renews, that the     *)
(* files add up to the customer, the refinement of Ledger, and how far     *)
(* past their allowance a customer gets when usage trails.                 *)
(***************************************************************************)
EXTENDS Metering, FiniteSetTheorems, TLAPS

\* Every figure keeps its type whatever fails and in whatever order: no usage,
\* buffer or counter goes below zero, though a reset takes away what a flush has
\* still to write (traffic.go, Flush; clients.go, ResetTraffic).
THEOREM TypeCorrect == Spec => []TypeOK
<1>1. Init => TypeOK
  <2> SUFFICES ASSUME Init PROVE TypeOK
    OBVIOUS
  <2> USE MeteringAssumption DEF Init
  <2>1. KernelTypeOK
    BY DEF KernelTypeOK, NoClients, NoFiles
  <2>2. TickTypeOK
    <3>1. NoRules \in [Clients -> [quota : Nat, used : Nat, blocked : BOOLEAN]]
      BY DEF NoRules
    <3>2. QED
      BY <3>1 DEF TickTypeOK, NoClients, NoFiles, NoPlan
  <2>3. WriterTypeOK
    BY DEF WriterTypeOK, NoClients, NoFiles
  <2>4. DatabaseTypeOK
    BY DEF DatabaseTypeOK, Statuses, NoClients, NoFiles
  <2>5. GhostTypeOK
    BY DEF GhostTypeOK, NoFiles, NoPlan
  <2>6. QED
    BY <2>1, <2>2, <2>3, <2>4, <2>5 DEF TypeOK
<1>2. TypeOK /\ [Next]_vars => TypeOK'
  <2> SUFFICES ASSUME TypeOK, [Next]_vars PROVE TypeOK'
    OBVIOUS
  <2> USE MeteringAssumption DEF TypeOK, KernelTypeOK, TickTypeOK, WriterTypeOK, DatabaseTypeOK, GhostTypeOK,
         Statuses, NoClients, NoFiles, NoPlan, NoRules,
         vars, kernelVars, enforcerVars, drainVars, evalVars, bufferVars,
         flushVars, dbVars, panel, ghostVars
  <2>1. ASSUME NEW f \in Files, NEW p \in Packets, PacketPasses(f, p) PROVE TypeOK'
    BY <2>1 DEF PacketPasses, Carry
  <2>2. ASSUME NEW f \in Files, NEW p \in Packets, PacketDropped(f, p) PROVE TypeOK'
    BY <2>2 DEF PacketDropped
  <2>3. ASSUME TableWiped PROVE TypeOK'
    <3>1. KernelTypeOK'
      BY <2>3 DEF TableWiped, Fault, Plus
    <3>2. TickTypeOK'
      BY <2>3 DEF TableWiped, Fault, Plus
    <3>3. WriterTypeOK'
      BY <2>3 DEF TableWiped, Fault, Plus
    <3>4. DatabaseTypeOK'
      BY <2>3 DEF TableWiped, Fault, Plus
    <3>5. GhostTypeOK'
      BY <2>3 DEF TableWiped, Fault, Plus
    <3>6. QED
      BY <3>1, <3>2, <3>3, <3>4, <3>5
  <2>4. ASSUME TickBegins PROVE TypeOK'
    BY <2>4 DEF TickBegins
  <2>5. ASSUME NEW f \in Files, DrainCounter(f) PROVE TypeOK'
    BY <2>5 DEF DrainCounter
  <2>6. ASSUME DrainFails PROVE TypeOK'
    <3>1. KernelTypeOK'
      BY <2>6 DEF DrainFails, Fault, Plus, PassEnds
    <3>2. TickTypeOK'
      <4>1. CASE toDrain' = Files /\ UNCHANGED <<known, pc, evalVars, rules>>
        BY <2>6, <4>1 DEF DrainFails, Fault
      <4>2. CASE toDrain' = {} /\ PassEnds
        BY <2>6, <4>2 DEF DrainFails, Fault, PassEnds
      <4>3. QED
        BY <2>6, <4>1, <4>2 DEF DrainFails
    <3>3. WriterTypeOK'
      BY <2>6 DEF DrainFails, Fault, Plus, PassEnds
    <3>4. DatabaseTypeOK'
      BY <2>6 DEF DrainFails, Fault, Plus, PassEnds
    <3>5. GhostTypeOK'
      BY <2>6 DEF DrainFails, Fault, Plus, PassEnds
    <3>6. QED
      BY <3>1, <3>2, <3>3, <3>4, <3>5
  <2>7. ASSUME DrainDone PROVE TypeOK'
    BY <2>7 DEF DrainDone
  <2>8. ASSUME NEW c \in Clients, TickSubmit(c) PROVE TypeOK'
    BY <2>8 DEF TickSubmit
  <2>9. ASSUME TickCounted PROVE TypeOK'
    BY <2>9 DEF TickCounted
  <2>10. ASSUME TickRenew PROVE TypeOK'
    BY <2>10 DEF TickRenew
  <2>11. ASSUME NEW c \in Clients, RenewOne(c) PROVE TypeOK'
    <3>1. KernelTypeOK'
      BY <2>11 DEF RenewOne
    <3>2. TickTypeOK'
      BY <2>11 DEF RenewOne
    <3>3. WriterTypeOK'
      BY <2>11 DEF RenewOne
    <3>4. DatabaseTypeOK'
      <4>1. CASE c \in due
        <5>1. used' = [used EXCEPT ![c] = 0] /\ due' = due \ {c}
          BY <2>11, <4>1 DEF RenewOne
        <5>2. status' = [status EXCEPT ![c] = "active"] \/ status' = status
          BY <2>11, <4>1 DEF RenewOne
        <5>3. UNCHANGED <<fileUsed, quota, ended>>
          BY <2>11 DEF RenewOne
        <5>4. QED
          BY <5>1, <5>2, <5>3
      <4>2. CASE c \notin due
        BY <2>11, <4>2 DEF RenewOne
      <4>3. QED
        BY <4>1, <4>2
    <3>5. GhostTypeOK'
      BY <2>11 DEF RenewOne
    <3>6. QED
      BY <3>1, <3>2, <3>3, <3>4, <3>5
  <2>12. ASSUME RenewFiles PROVE TypeOK'
    BY <2>12 DEF RenewFiles, ZeroFileUsage
  <2>13. ASSUME RenewDone PROVE TypeOK'
    BY <2>13 DEF RenewDone
  <2>14. ASSUME TickNear PROVE TypeOK'
    BY <2>14 DEF TickNear, Agree, Smaller
  <2>15. ASSUME TickAsk PROVE TypeOK'
    BY <2>15 DEF TickAsk
  <2>16. ASSUME TickSweep PROVE TypeOK'
    BY <2>16 DEF TickSweep
  <2>17. ASSUME TickExpire PROVE TypeOK'
    BY <2>17 DEF TickExpire
  <2>18. ASSUME TickRead PROVE TypeOK'
    BY <2>18 DEF TickRead
  <2>19. ASSUME ApplyInPlace PROVE TypeOK'
    BY <2>19 DEF ApplyInPlace, Smaller, PassEnds
  <2>20. ASSUME ApplyWhole PROVE TypeOK'
    BY <2>20 DEF ApplyWhole, WriteWhole, Smaller, PassEnds, Plus
  <2>21. ASSUME ApplyFallsBack PROVE TypeOK'
    BY <2>21 DEF ApplyFallsBack, WriteWhole, Smaller, PassEnds, Plus, Fault
  <2>22. ASSUME ApplyFails PROVE TypeOK'
    <3>1. KernelTypeOK'
      BY <2>22 DEF ApplyFails, Fault, PassEnds
    <3>2. TickTypeOK'
      BY <2>22 DEF ApplyFails, Fault, PassEnds
    <3>3. WriterTypeOK'
      BY <2>22 DEF ApplyFails, Fault, PassEnds
    <3>4. DatabaseTypeOK'
      BY <2>22 DEF ApplyFails, Fault, PassEnds
    <3>5. GhostTypeOK'
      BY <2>22 DEF ApplyFails, Fault, PassEnds
    <3>6. QED
      BY <3>1, <3>2, <3>3, <3>4, <3>5
  <2>23. ASSUME EvaluateGoesOn PROVE TypeOK'
    BY <2>23 DEF EvaluateGoesOn, StatementFails, Fault
  <2>24. ASSUME TickFails PROVE TypeOK'
    <3>1. KernelTypeOK'
      BY <2>24 DEF TickFails, StatementFails, Fault, PassEnds
    <3>2. TickTypeOK'
      BY <2>24 DEF TickFails, StatementFails, Fault, PassEnds
    <3>3. WriterTypeOK'
      BY <2>24 DEF TickFails, StatementFails, Fault, PassEnds
    <3>4. DatabaseTypeOK'
      BY <2>24 DEF TickFails, StatementFails, Fault, PassEnds
    <3>5. GhostTypeOK'
      BY <2>24 DEF TickFails, StatementFails, Fault, PassEnds
    <3>6. QED
      BY <3>1, <3>2, <3>3, <3>4, <3>5
  <2>25. ASSUME FlushTakes PROVE TypeOK'
    BY <2>25 DEF FlushTakes, Take
  <2>26. ASSUME LastFlushTakes PROVE TypeOK'
    BY <2>26 DEF LastFlushTakes, Take
  <2>27. ASSUME FlushCommits PROVE TypeOK'
    BY <2>27 DEF FlushCommits, AfterFlush, Plus
  <2>28. ASSUME FlushFails PROVE TypeOK'
    BY <2>28 DEF FlushFails, AfterFlush, Plus, Fault
  <2>29. ASSUME NEW f \in Files, NEW p \in Packets, AddNodeReport(f, p) PROVE TypeOK'
    BY <2>29 DEF AddNodeReport, Carry
  <2>30. ASSUME NEW S \in SUBSET Clients \ {{}}, BulkReset(S) PROVE TypeOK'
    BY <2>30 DEF BulkReset, EditOf, Edit, ZeroFileUsage
  <2>31. ASSUME NEW S \in SUBSET Clients \ {{}}, BulkEnable(S) PROVE TypeOK'
    BY <2>31 DEF BulkEnable, EditOf, Edit
  <2>32. ASSUME NEW S \in SUBSET Clients \ {{}}, BulkDisable(S) PROVE TypeOK'
    BY <2>32 DEF BulkDisable, EditOf, Edit
  <2>33. ASSUME NEW S \in SUBSET Clients \ {{}}, NEW d \in Raises, ExtendTraffic(S, d) PROVE TypeOK'
    BY <2>33 DEF ExtendTraffic, EditOf, Edit, AutoStatus, Larger
  <2>34. ASSUME NEW c \in Clients, PeriodEnds(c) PROVE TypeOK'
    BY <2>34 DEF PeriodEnds, EditOf, Edit
  <2>35. ASSUME NEW c \in Clients, TermEnds(c) PROVE TypeOK'
    BY <2>35 DEF TermEnds, EditOf, Edit
  <2>36. ASSUME Crash PROVE TypeOK'
    <3>1. KernelTypeOK'
      BY <2>36 DEF Crash, ProcessGone, Fault, PassEnds
    <3>2. TickTypeOK'
      BY <2>36 DEF Crash, ProcessGone, Fault, PassEnds
    <3>3. WriterTypeOK'
      BY <2>36 DEF Crash, ProcessGone, Fault, PassEnds
    <3>4. DatabaseTypeOK'
      BY <2>36 DEF Crash, ProcessGone, Fault, PassEnds
    <3>5. GhostTypeOK'
      BY <2>36 DEF Crash, ProcessGone, Fault, PassEnds
    <3>6. QED
      BY <3>1, <3>2, <3>3, <3>4, <3>5
  <2>37. ASSUME Stop PROVE TypeOK'
    BY <2>37 DEF Stop, Fault
  <2>38. ASSUME Exit PROVE TypeOK'
    <3>1. KernelTypeOK'
      BY <2>38 DEF Exit, ProcessGone, PassEnds
    <3>2. TickTypeOK'
      BY <2>38 DEF Exit, ProcessGone, PassEnds
    <3>3. WriterTypeOK'
      BY <2>38 DEF Exit, ProcessGone, PassEnds
    <3>4. DatabaseTypeOK'
      BY <2>38 DEF Exit, ProcessGone, PassEnds
    <3>5. GhostTypeOK'
      BY <2>38 DEF Exit, ProcessGone, PassEnds
    <3>6. QED
      BY <3>1, <3>2, <3>3, <3>4, <3>5
  <2>39. ASSUME Start PROVE TypeOK'
    BY <2>39 DEF Start
  <2>40. ASSUME NEW c \in Clients, ResetReads(c) PROVE TypeOK'
    BY <2>40 DEF ResetReads, Edit
  <2>41. ASSUME NEW c \in Clients, ResetWrites(c) PROVE TypeOK'
    BY <2>41 DEF ResetWrites, ZeroFileUsage
  <2>42. CASE UNCHANGED vars
    BY <2>42
  <2>43. QED
    BY <2>1, <2>2, <2>3, <2>4, <2>5, <2>6, <2>7, <2>8, <2>9, <2>10, <2>11, <2>12, <2>13, <2>14, <2>15, <2>16, <2>17, <2>18, <2>19, <2>20, <2>21, <2>22, <2>23, <2>24, <2>25, <2>26, <2>27, <2>28, <2>29, <2>30, <2>31, <2>32, <2>33, <2>34, <2>35, <2>36, <2>37, <2>38, <2>39, <2>40, <2>41, <2>42 DEF Next, Kernel, Tick, Writer, Operator, Process
<1>3. QED
  BY <1>1, <1>2, PTL DEF Spec

\* A flush that is not writing holds nothing, so the next one takes into
\* empty hands: without this, what flush swaps out could overwrite what an
\* earlier one still had.
IdleHoldsNothing == fpc \in {"wait", "done"} => takenDevices = NoFiles

\* flush: only a swap fills the hands, and every way out of a write empties
\* them.
LEMMA HandsEmpty == Spec => []IdleHoldsNothing
<1>1. Init => IdleHoldsNothing
  BY DEF Init, IdleHoldsNothing
<1>2. IdleHoldsNothing /\ [Next]_vars => IdleHoldsNothing'
  <2> SUFFICES ASSUME IdleHoldsNothing, [Next]_vars PROVE IdleHoldsNothing'
    OBVIOUS
  <2> USE DEF IdleHoldsNothing, NoFiles
  <2>1. CASE UNCHANGED flushVars
    BY <2>1 DEF flushVars
  <2>2. CASE FlushTakes \/ LastFlushTakes
    BY <2>2 DEF FlushTakes, LastFlushTakes
  <2>3. CASE takenDevices' = NoFiles
    BY <2>3
  <2>4. QED
    BY <2>1, <2>2, <2>3 DEF Next, Kernel, Tick, Writer, Operator, Process, vars,
       PacketPasses, PacketDropped, TableWiped, TickBegins, DrainCounter,
       DrainFails, DrainDone, TickSubmit, TickCounted, TickRenew,
       RenewOne, RenewFiles, RenewDone, TickNear, TickAsk, TickSweep,
       TickExpire, TickRead, ApplyInPlace, ApplyWhole, ApplyFallsBack,
       WriteWhole, ApplyFails, EvaluateGoesOn, TickFails, FlushCommits,
       FlushFails, AddNodeReport, BulkReset, ResetReads, ResetWrites, BulkEnable, BulkDisable,
       ExtendTraffic, PeriodEnds, TermEnds, EditOf, Crash, Stop, Exit,
       ProcessGone, Start
<1>3. QED
  BY <1>1, <1>2, PTL DEF Spec

\* Every byte a file carried is in exactly one place, whatever fails and in
\* whatever order: submit and restore drop nothing, a flush writes what it
\* took once, and a reset forgives only what was written.  One file's bytes
\* are followed through each step.
THEOREM Conservation == Spec => []BytesConserved
<1>1. Init => BytesConserved
  BY DEF Init, BytesConserved, Pending, NoFiles
<1>2. TypeOK /\ TypeOK' /\ IdleHoldsNothing /\ BytesConserved /\ [Next]_vars => BytesConserved'
  <2> SUFFICES ASSUME TypeOK, TypeOK', IdleHoldsNothing, BytesConserved, [Next]_vars,
                      NEW x \in Files
               PROVE  (served[x] = Pending(x) + fileUsed[x] + forgiven[x] + lost[x])'
    BY DEF BytesConserved
  <2> DEFINE Conserved == served[x] = Pending(x) + fileUsed[x] + forgiven[x] + lost[x]
  <2> Conserved
    BY DEF BytesConserved
  <2> USE MeteringAssumption DEF TypeOK, KernelTypeOK, TickTypeOK, WriterTypeOK,
         DatabaseTypeOK, GhostTypeOK, Pending, NoFiles,
         vars, kernelVars, enforcerVars, drainVars, evalVars, bufferVars,
         flushVars, dbVars, panel, ghostVars
  <2>1. ASSUME NEW f \in Files, NEW p \in Packets, PacketPasses(f, p) PROVE Conserved'
    BY <2>1 DEF PacketPasses, Carry
  <2>2. ASSUME NEW f \in Files, NEW p \in Packets, PacketDropped(f, p) PROVE Conserved'
    BY <2>2 DEF PacketDropped
  <2>3. ASSUME TableWiped PROVE Conserved'
    BY <2>3 DEF TableWiped, Plus
  <2>4. ASSUME TickBegins PROVE Conserved'
    BY <2>4 DEF TickBegins
  <2>5. ASSUME NEW f \in Files, DrainCounter(f) PROVE Conserved'
    BY <2>5 DEF DrainCounter
  <2>6. ASSUME DrainFails PROVE Conserved'
    BY <2>6 DEF DrainFails, Plus
  <2>7. ASSUME DrainDone PROVE Conserved'
    BY <2>7 DEF DrainDone
  <2>8. ASSUME NEW c \in Clients, TickSubmit(c) PROVE Conserved'
    BY <2>8 DEF TickSubmit
  <2>9. ASSUME TickCounted PROVE Conserved'
    BY <2>9 DEF TickCounted
  <2>10. ASSUME TickRenew PROVE Conserved'
    BY <2>10 DEF TickRenew
  <2>11. ASSUME NEW c \in Clients, RenewOne(c) PROVE Conserved'
    BY <2>11 DEF RenewOne
  <2>12. ASSUME RenewFiles PROVE Conserved'
    BY <2>12 DEF RenewFiles, ZeroFileUsage
  <2>13. ASSUME RenewDone PROVE Conserved'
    BY <2>13 DEF RenewDone
  <2>14. ASSUME TickNear PROVE Conserved'
    BY <2>14 DEF TickNear
  <2>15. ASSUME TickAsk PROVE Conserved'
    BY <2>15 DEF TickAsk
  <2>16. ASSUME TickSweep PROVE Conserved'
    BY <2>16 DEF TickSweep
  <2>17. ASSUME TickExpire PROVE Conserved'
    BY <2>17 DEF TickExpire
  <2>18. ASSUME TickRead PROVE Conserved'
    BY <2>18 DEF TickRead
  <2>19. ASSUME ApplyInPlace PROVE Conserved'
    BY <2>19 DEF ApplyInPlace
  <2>20. ASSUME ApplyWhole PROVE Conserved'
    BY <2>20 DEF ApplyWhole, WriteWhole, Plus
  <2>21. ASSUME ApplyFallsBack PROVE Conserved'
    BY <2>21 DEF ApplyFallsBack, WriteWhole, Plus
  <2>22. ASSUME ApplyFails PROVE Conserved'
    BY <2>22 DEF ApplyFails
  <2>23. ASSUME EvaluateGoesOn PROVE Conserved'
    BY <2>23 DEF EvaluateGoesOn
  <2>24. ASSUME TickFails PROVE Conserved'
    BY <2>24 DEF TickFails
  <2>25. ASSUME FlushTakes PROVE Conserved'
    BY <2>25 DEF FlushTakes, Take, IdleHoldsNothing
  <2>26. ASSUME LastFlushTakes PROVE Conserved'
    BY <2>26 DEF LastFlushTakes, Take, IdleHoldsNothing
  <2>27. ASSUME FlushCommits PROVE Conserved'
    <3>1. fileUsed'[x] = fileUsed[x] + takenDevices[x] /\ takenDevices'[x] = 0
      BY <2>27 DEF FlushCommits, Plus
    <3>2. UNCHANGED <<counter, drained, devices, served, forgiven, lost>>
      BY <2>27 DEF FlushCommits
    <3>3. QED
      BY <3>1, <3>2
  <2>28. ASSUME FlushFails PROVE Conserved'
    <3>1. devices'[x] = devices[x] + takenDevices[x] /\ takenDevices'[x] = 0
      BY <2>28 DEF FlushFails, Plus
    <3>2. UNCHANGED <<counter, drained, fileUsed, served, forgiven, lost>>
      BY <2>28 DEF FlushFails
    <3>3. QED
      BY <3>1, <3>2
  <2>29. ASSUME NEW f \in Files, NEW p \in Packets, AddNodeReport(f, p) PROVE Conserved'
    BY <2>29 DEF AddNodeReport, Carry
  <2>30. ASSUME NEW S \in SUBSET Clients \ {{}}, BulkReset(S) PROVE Conserved'
    BY <2>30 DEF BulkReset, EditOf, ZeroFileUsage
  <2>31. ASSUME NEW S \in SUBSET Clients \ {{}}, BulkEnable(S) PROVE Conserved'
    BY <2>31 DEF BulkEnable, EditOf
  <2>32. ASSUME NEW S \in SUBSET Clients \ {{}}, BulkDisable(S) PROVE Conserved'
    BY <2>32 DEF BulkDisable, EditOf
  <2>33. ASSUME NEW S \in SUBSET Clients \ {{}}, NEW d \in Raises, ExtendTraffic(S, d) PROVE Conserved'
    BY <2>33 DEF ExtendTraffic, EditOf
  <2>34. ASSUME NEW c \in Clients, PeriodEnds(c) PROVE Conserved'
    BY <2>34 DEF PeriodEnds, EditOf
  <2>35. ASSUME NEW c \in Clients, TermEnds(c) PROVE Conserved'
    BY <2>35 DEF TermEnds, EditOf
  <2>36. ASSUME Crash PROVE Conserved'
    BY <2>36 DEF Crash, ProcessGone
  <2>37. ASSUME Stop PROVE Conserved'
    BY <2>37 DEF Stop
  <2>38. ASSUME Exit PROVE Conserved'
    BY <2>38 DEF Exit, ProcessGone
  <2>39. ASSUME Start PROVE Conserved'
    BY <2>39 DEF Start
  <2>40. ASSUME NEW c \in Clients, ResetReads(c) PROVE Conserved'
    BY <2>40 DEF ResetReads
  <2>41. ASSUME NEW c \in Clients, ResetWrites(c) PROVE Conserved'
    BY <2>41 DEF ResetWrites, ZeroFileUsage
  <2>42. CASE UNCHANGED vars
    BY <2>42
  <2>43. QED
    BY <2>1, <2>2, <2>3, <2>4, <2>5, <2>6, <2>7, <2>8, <2>9, <2>10, <2>11, <2>12, <2>13, <2>14, <2>15, <2>16, <2>17, <2>18, <2>19, <2>20, <2>21, <2>22, <2>23, <2>24, <2>25, <2>26, <2>27, <2>28, <2>29, <2>30, <2>31, <2>32, <2>33, <2>34, <2>35, <2>36, <2>37, <2>38, <2>39, <2>40, <2>41, <2>42 DEF Next, Kernel, Tick, Writer, Operator, Process
<1>3. QED
  BY <1>1, <1>2, TypeCorrect, HandsEmpty, PTL DEF Spec

-----------------------------------------------------------------------------
(* Cut-offs.  The sweep acts on what the kernel answered about usage read  *)
(* two steps before.  What makes that sound is that nothing lowers a       *)
(* customer's usage in between: a renewal is over before the usage is      *)
(* read.  A reset or an edit by an operator is not, hence the assumption.  *)

\* The quota the kernel holds is the customer's, or none.
QuotasFixed ==
    \A c \in Clients :
        /\ quota[c] = FirstQuota[c]
        /\ limit[c] \in {0, FirstQuota[c]}
        /\ rules[c].quota \in {0, FirstQuota[c]}

\* What was read of a customer near their limit is still no more than the
\* truth, and so is what was concluded from it.
VerdictsStand ==
    \A c \in Clients :
        /\ near[c] > 0 => pc = "ask"
        /\ near[c] <= used[c] + Agree(FirstQuota[c])
        /\ c \in spent => /\ pc = "sweep"
                          /\ used[c] + Agree(FirstQuota[c]) >= FirstQuota[c]

CutOffInv == QuotasFixed /\ VerdictsStand

\* min(nearLimit, quota/2) is a number of bytes.
LEMMA AgreeNat == \A q \in Nat : Agree(q) \in Nat
  BY MeteringAssumption DEF Agree, Smaller

\* Where nobody resets no reset is under way.
LEMMA NobodyResets ==
    ASSUME "reset" \notin Allowed
    PROVE  Spec => [](resetting = NoPlan)
<1>1. Init => resetting = NoPlan
  BY DEF Init
<1>2. resetting = NoPlan /\ [Next]_vars => (resetting = NoPlan)'
  <2> SUFFICES ASSUME resetting = NoPlan, [Next]_vars PROVE resetting' = NoPlan
    OBVIOUS
  <2>1. CASE UNCHANGED panel
    BY <2>1 DEF panel
  <2>2. CASE UNCHANGED resetting
    BY <2>2
  <2>3. CASE resetting' = NoPlan
    BY <2>3
  <2>4. ASSUME NEW c \in Clients, ResetReads(c) \/ ResetWrites(c) PROVE FALSE
    BY <2>4 DEF ResetReads, ResetWrites, NoPlan
  <2>5. QED
    BY <2>1, <2>2, <2>3, <2>4 DEF Next, Kernel, Tick, Writer, Operator, Process, vars,
       PacketPasses, PacketDropped, TableWiped, TickBegins, DrainCounter,
       DrainFails, DrainDone, TickSubmit, TickCounted, TickRenew,
       RenewOne, RenewFiles, RenewDone, TickNear, TickAsk, TickSweep,
       TickExpire, TickRead, ApplyInPlace, ApplyWhole, ApplyFallsBack,
       WriteWhole, ApplyFails, EvaluateGoesOn, TickFails, FlushTakes, LastFlushTakes, Take,
       FlushCommits, FlushFails, AddNodeReport, BulkReset, BulkEnable, BulkDisable,
       ExtendTraffic, PeriodEnds, TermEnds, EditOf, Crash, Stop, Exit,
       ProcessGone, Start
<1>3. QED
  BY <1>1, <1>2, PTL DEF Spec

\* Without resets and edits by hand, whatever the plans renew, the nodes
\* report and fails, the sweep never cuts off a customer for the quota of a
\* period that is over (spentInKernel).
THEOREM CutOffs ==
    ASSUME "reset" \notin Allowed, "raise" \notin Allowed
    PROVE  Spec => CutOffOnlyWhenSpent
<1>1. Init => CutOffInv
  BY MeteringAssumption, AgreeNat
  DEF Init, CutOffInv, QuotasFixed, VerdictsStand, NoClients, NoRules
<1>2. TypeOK /\ TypeOK' /\ resetting = NoPlan /\ CutOffInv /\ [Next]_vars => CutOffInv'
  <2> SUFFICES ASSUME TypeOK, TypeOK', resetting = NoPlan, CutOffInv, [Next]_vars,
                      NEW x \in Clients
               PROVE  /\ quota'[x] = FirstQuota[x]
                      /\ limit'[x] \in {0, FirstQuota[x]}
                      /\ rules'[x].quota \in {0, FirstQuota[x]}
                      /\ near'[x] > 0 => pc' = "ask"
                      /\ near'[x] <= used'[x] + Agree(FirstQuota[x])
                      /\ x \in spent' =>
                           /\ pc' = "sweep"
                           /\ used'[x] + Agree(FirstQuota[x]) >= FirstQuota[x]
    BY DEF CutOffInv, QuotasFixed, VerdictsStand
  <2> DEFINE Goal == /\ quota'[x] = FirstQuota[x]
                     /\ limit'[x] \in {0, FirstQuota[x]}
                     /\ rules'[x].quota \in {0, FirstQuota[x]}
                     /\ near'[x] > 0 => pc' = "ask"
                     /\ near'[x] <= used'[x] + Agree(FirstQuota[x])
                     /\ x \in spent' =>
                          /\ pc' = "sweep"
                          /\ used'[x] + Agree(FirstQuota[x]) >= FirstQuota[x]
  <2> Agree(FirstQuota[x]) \in Nat /\ FirstQuota[x] \in Nat
    BY AgreeNat, MeteringAssumption
  <2> USE MeteringAssumption DEF TypeOK, KernelTypeOK, TickTypeOK, WriterTypeOK,
         DatabaseTypeOK, CutOffInv, QuotasFixed, VerdictsStand,
         vars, kernelVars, enforcerVars, drainVars, evalVars, bufferVars,
         flushVars, dbVars, panel, ghostVars
  <2>1. ASSUME NEW f \in Files, NEW p \in Packets, PacketPasses(f, p) PROVE Goal
    BY <2>1 DEF PacketPasses
  <2>2. ASSUME NEW f \in Files, NEW p \in Packets, PacketDropped(f, p) PROVE Goal
    BY <2>2 DEF PacketDropped
  <2>3. ASSUME TableWiped PROVE Goal
    BY <2>3 DEF TableWiped, NoClients
  <2>4. ASSUME TickBegins PROVE Goal
    BY <2>4 DEF TickBegins
  <2>5. ASSUME NEW f \in Files, DrainCounter(f) PROVE Goal
    BY <2>5 DEF DrainCounter
  <2>6. ASSUME DrainFails PROVE Goal
    BY <2>6 DEF DrainFails, PassEnds, NoClients, NoRules
  <2>7. ASSUME DrainDone PROVE Goal
    BY <2>7 DEF DrainDone
  <2>8. ASSUME NEW c \in Clients, TickSubmit(c) PROVE Goal
    BY <2>8 DEF TickSubmit
  <2>9. ASSUME TickCounted PROVE Goal
    BY <2>9 DEF TickCounted
  <2>10. ASSUME TickRenew PROVE Goal
    BY <2>10 DEF TickRenew
  <2>11. ASSUME NEW c \in Clients, RenewOne(c) PROVE Goal
    BY <2>11 DEF RenewOne
  <2>12. ASSUME RenewFiles PROVE Goal
    BY <2>12 DEF RenewFiles
  <2>13. ASSUME RenewDone PROVE Goal
    BY <2>13 DEF RenewDone
  <2>14. ASSUME TickNear PROVE Goal
    BY <2>14 DEF TickNear, NoClients
  <2>15. ASSUME TickAsk PROVE Goal
    BY <2>15 DEF TickAsk, NoClients
  <2>16. ASSUME TickSweep PROVE Goal
    BY <2>16 DEF TickSweep
  <2>17. ASSUME TickExpire PROVE Goal
    BY <2>17 DEF TickExpire
  <2>18. ASSUME TickRead PROVE Goal
    BY <2>18 DEF TickRead
  <2>19. ASSUME ApplyInPlace PROVE Goal
    BY <2>19 DEF ApplyInPlace, PassEnds, NoClients, NoRules
  <2>20. ASSUME ApplyWhole PROVE Goal
    BY <2>20 DEF ApplyWhole, WriteWhole, PassEnds, NoClients, NoRules
  <2>21. ASSUME ApplyFallsBack PROVE Goal
    BY <2>21 DEF ApplyFallsBack, WriteWhole, PassEnds, NoClients, NoRules
  <2>22. ASSUME ApplyFails PROVE Goal
    BY <2>22 DEF ApplyFails, PassEnds, NoClients, NoRules
  <2>23. ASSUME EvaluateGoesOn PROVE Goal
    BY <2>23 DEF EvaluateGoesOn, NoClients
  <2>24. ASSUME TickFails PROVE Goal
    BY <2>24 DEF TickFails, PassEnds, NoClients, NoRules
  <2>25. ASSUME FlushTakes PROVE Goal
    BY <2>25 DEF FlushTakes, Take
  <2>26. ASSUME LastFlushTakes PROVE Goal
    BY <2>26 DEF LastFlushTakes, Take
  <2>27. ASSUME FlushCommits PROVE Goal
    BY <2>27 DEF FlushCommits, Plus
  <2>28. ASSUME FlushFails PROVE Goal
    BY <2>28 DEF FlushFails
  <2>29. ASSUME NEW f \in Files, NEW p \in Packets, AddNodeReport(f, p) PROVE Goal
    BY <2>29 DEF AddNodeReport
  <2>30. ASSUME NEW S \in SUBSET Clients \ {{}}, BulkReset(S) PROVE Goal
    BY <2>30 DEF BulkReset, EditOf
  <2>31. ASSUME NEW S \in SUBSET Clients \ {{}}, BulkEnable(S) PROVE Goal
    BY <2>31 DEF BulkEnable, EditOf
  <2>32. ASSUME NEW S \in SUBSET Clients \ {{}}, BulkDisable(S) PROVE Goal
    BY <2>32 DEF BulkDisable, EditOf
  <2>33. ASSUME NEW S \in SUBSET Clients \ {{}}, NEW d \in Raises, ExtendTraffic(S, d) PROVE Goal
    BY <2>33 DEF ExtendTraffic, EditOf
  <2>34. ASSUME NEW c \in Clients, PeriodEnds(c) PROVE Goal
    BY <2>34 DEF PeriodEnds, EditOf
  <2>35. ASSUME NEW c \in Clients, TermEnds(c) PROVE Goal
    BY <2>35 DEF TermEnds, EditOf
  <2>36. ASSUME Crash PROVE Goal
    BY <2>36 DEF Crash, ProcessGone, PassEnds, NoClients, NoRules
  <2>37. ASSUME Stop PROVE Goal
    BY <2>37 DEF Stop
  <2>38. ASSUME Exit PROVE Goal
    BY <2>38 DEF Exit, ProcessGone, PassEnds, NoClients, NoRules
  <2>39. ASSUME Start PROVE Goal
    BY <2>39 DEF Start
  <2>40. ASSUME NEW c \in Clients, ResetReads(c) PROVE Goal
    BY <2>40 DEF ResetReads
  <2>41. ASSUME NEW c \in Clients, ResetWrites(c) PROVE Goal
    BY <2>41 DEF ResetWrites, NoPlan
  <2>42. CASE UNCHANGED vars
    BY <2>42
  <2>43. QED
    BY <2>1, <2>2, <2>3, <2>4, <2>5, <2>6, <2>7, <2>8, <2>9, <2>10, <2>11, <2>12, <2>13, <2>14, <2>15, <2>16, <2>17, <2>18, <2>19, <2>20, <2>21, <2>22, <2>23, <2>24, <2>25, <2>26, <2>27, <2>28, <2>29, <2>30, <2>31, <2>32, <2>33, <2>34, <2>35, <2>36, <2>37, <2>38, <2>39, <2>40, <2>41, <2>42
    DEF Next, Kernel, Tick, Writer, Operator, Process
<1>3. TypeOK /\ CutOffInv =>
        \A c \in Clients :
          TickSweep /\ status[c] = "active" /\ status'[c] = "exhausted"
            => used[c] + Agree(quota[c]) >= quota[c]
  BY AgreeNat DEF TypeOK, DatabaseTypeOK, CutOffInv, QuotasFixed, VerdictsStand,
                  TickSweep
<1>4. QED
  BY <1>1, <1>2, <1>3, TypeCorrect, NobodyResets, PTL DEF Spec, CutOffOnlyWhenSpent

-----------------------------------------------------------------------------
(* Who is switched off stays off.                                          *)

\* Where no period ends nobody is due.
LEMMA NobodyDue ==
    ASSUME "period" \notin Allowed
    PROVE  Spec => [](due = {})
<1>1. Init => due = {}
  BY DEF Init
<1>2. due = {} /\ [Next]_vars => (due = {})'
  <2> SUFFICES ASSUME due = {}, [Next]_vars PROVE due' \subseteq due
    OBVIOUS
  <2>1. CASE Kernel
    BY <2>1 DEF Kernel, PacketPasses, PacketDropped, TableWiped, dbVars
  <2>2. CASE Tick
    <3>1. CASE TickBegins \/ (\E f \in Files : DrainCounter(f)) \/ DrainFails \/ DrainDone
              \/ (\E x \in Clients : TickSubmit(x)) \/ TickCounted
      BY <3>1 DEF TickBegins, DrainCounter, DrainFails, DrainDone, TickSubmit, TickCounted, dbVars
    <3>2. CASE TickRenew \/ RenewFiles \/ RenewDone \/ TickNear \/ TickAsk
      BY <3>2 DEF TickRenew, RenewFiles, RenewDone, TickNear, TickAsk, dbVars
    <3>3. CASE TickRead \/ ApplyInPlace \/ ApplyWhole \/ ApplyFallsBack \/ ApplyFails
              \/ EvaluateGoesOn \/ TickFails
      BY <3>3 DEF TickRead, ApplyInPlace, ApplyWhole, ApplyFallsBack, WriteWhole, ApplyFails,
                EvaluateGoesOn, TickFails, dbVars
    <3>4. CASE (\E x \in Clients : RenewOne(x)) \/ TickSweep \/ TickExpire
      BY <3>4 DEF RenewOne, TickSweep, TickExpire
    <3>5. QED
      BY <2>2, <3>1, <3>2, <3>3, <3>4 DEF Tick
  <2>3. CASE Writer
    BY <2>3 DEF Writer, Take, FlushTakes, LastFlushTakes, FlushCommits, FlushFails, AddNodeReport, dbVars
  <2>4. CASE Operator
    BY <2>4 DEF Operator, BulkReset, ResetReads, ResetWrites, BulkEnable, BulkDisable,
                ExtendTraffic, PeriodEnds, TermEnds, EditOf, dbVars
  <2>5. CASE Process
    BY <2>5 DEF Process, Crash, Stop, Exit, Start, ProcessGone, dbVars
  <2>6. CASE UNCHANGED vars
    BY <2>6 DEF vars, dbVars
  <2>7. QED
    BY <2>1, <2>2, <2>3, <2>4, <2>5, <2>6 DEF Next
<1>3. QED
  BY <1>1, <1>2, PTL DEF Spec

\* Whatever is reset, extended, renewed, swept or expired, and whatever fails: what
\* brings back a customer an operator switched off is an operator's switch, or the
\* end of a renewal or a reset that had read them as run out before the switch
\* (service/extend.go, autoStatus; clients.go, Bulk, ResetTraffic; renew.go).
THEOREM SwitchedOffStaysOff == Spec => StaysOff
<1>1. TypeOK /\ [Next]_vars =>
        [\A c \in Clients : status[c] = "disabled" /\ status'[c] # "disabled"
            => \/ \E S \in SUBSET Clients : BulkEnable(S)
               \/ "exhausted" \in {plan[c], resetting[c]}]_vars
  <2> SUFFICES ASSUME TypeOK, [Next]_vars, NEW c \in Clients,
                      status[c] = "disabled", status'[c] # "disabled",
                      ~\E S \in SUBSET Clients : BulkEnable(S)
               PROVE  "exhausted" \in {plan[c], resetting[c]}
    OBVIOUS
  <2>0. status' # status /\ status \in [Clients -> Statuses]
    BY DEF TypeOK, DatabaseTypeOK
  <2>1. CASE Kernel
    BY <2>0, <2>1 DEF Kernel, PacketPasses, PacketDropped, TableWiped, dbVars
  <2>2. CASE TickSweep
    BY <2>2 DEF TickSweep
  <2>3. CASE TickExpire
    BY <2>3 DEF TickExpire
  <2>4. ASSUME NEW x \in Clients, RenewOne(x) PROVE plan[c] = "exhausted"
    BY <2>0, <2>4 DEF RenewOne
  <2>5. CASE Tick
    <3>1. CASE TickBegins \/ (\E f \in Files : DrainCounter(f)) \/ DrainFails \/ DrainDone
              \/ (\E x \in Clients : TickSubmit(x)) \/ TickCounted
      BY <2>0, <3>1 DEF TickBegins, DrainCounter, DrainFails, DrainDone, TickSubmit, TickCounted, dbVars
    <3>2. CASE TickRenew \/ RenewFiles \/ RenewDone \/ TickNear \/ TickAsk
      BY <2>0, <3>2 DEF TickRenew, RenewFiles, RenewDone, TickNear, TickAsk, dbVars
    <3>3. CASE TickRead \/ ApplyInPlace \/ ApplyWhole \/ ApplyFallsBack \/ ApplyFails
              \/ EvaluateGoesOn \/ TickFails
      BY <2>0, <3>3 DEF TickRead, ApplyInPlace, ApplyWhole, ApplyFallsBack, WriteWhole, ApplyFails,
                EvaluateGoesOn, TickFails, dbVars
    <3>4. QED
      BY <2>2, <2>3, <2>4, <2>5, <3>1, <3>2, <3>3 DEF Tick
  <2>6. CASE Writer
    BY <2>0, <2>6 DEF Writer, Take, FlushTakes, LastFlushTakes, FlushCommits, FlushFails,
                      AddNodeReport, dbVars
  <2>7. CASE Operator
    <3>1. ASSUME NEW S \in SUBSET Clients \ {{}}, BulkReset(S) \/ BulkDisable(S) PROVE FALSE
      BY <3>1 DEF BulkReset, BulkDisable
    <3>2. ASSUME NEW S \in SUBSET Clients \ {{}}, NEW d \in Raises, ExtendTraffic(S, d) PROVE FALSE
      <4>1. \A q : AutoStatus(c, q) = "disabled"
        BY DEF AutoStatus
      <4>2. QED
        BY <3>2, <4>1 DEF ExtendTraffic
    <3>3. ASSUME NEW x \in Clients, PeriodEnds(x) \/ TermEnds(x) \/ ResetReads(x) PROVE FALSE
      BY <2>0, <3>3 DEF PeriodEnds, TermEnds, ResetReads, dbVars
    <3>4. ASSUME NEW x \in Clients, ResetWrites(x) PROVE resetting[c] = "exhausted"
      BY <2>0, <3>4 DEF ResetWrites
    <3>5. QED
      BY <2>7, <3>1, <3>2, <3>3, <3>4 DEF Operator
  <2>8. CASE Process
    BY <2>0, <2>8 DEF Process, Crash, Stop, Exit, Start, ProcessGone, dbVars
  <2>9. CASE UNCHANGED vars
    BY <2>0, <2>9 DEF vars, dbVars
  <2>10. QED
    BY <2>1, <2>5, <2>6, <2>7, <2>8, <2>9 DEF Next
<1>2. QED
  BY <1>1, TypeCorrect, PTL DEF Spec, StaysOff

-----------------------------------------------------------------------------
(* Sums.  Sum is defined by recursion over sets; what is needed of it is   *)
(* proved by taking a smallest set for which it would fail.                *)

\* The member a sum takes first, and what it is to unfold the sums of g over the
\* subsets of S: Sum is the value at S of such an unfolding.
One(s) == CHOOSE x \in s : TRUE
Unfolds(h, g, S) ==
    h = [s \in SUBSET S |-> IF s = {} THEN 0 ELSE g[One(s)] + h[s \ {One(s)}]]

\* Of subsets of a finite set there is always a smallest one.
LEMMA Smallest ==
  ASSUME NEW S, IsFiniteSet(S), NEW Q \in SUBSET SUBSET S, Q # {}
  PROVE  \E T \in Q : \A U \in Q : U \subseteq T => U = T
<1>1. IsWellFoundedOn(StrictSubsetOrdering(S), FiniteSubsetsOf(S))
  BY FS_StrictSubsetOrderingWellFounded
<1>2. Q \subseteq FiniteSubsetsOf(S)
  BY FS_Subset DEF FiniteSubsetsOf
<1>3. PICK T \in Q : \A U \in Q : ~(<<U, T>> \in StrictSubsetOrdering(S))
  BY <1>1, <1>2, WFMin
<1>4. QED
  BY <1>3 DEF StrictSubsetOrdering

\* The member taken is one of them.
LEMMA OneOf == \A s : s # {} => One(s) \in s
  BY DEF One

\* Two unfoldings of the same figures agree wherever both are defined.
LEMMA UnfoldsAgree ==
  ASSUME NEW g, NEW S, NEW T, IsFiniteSet(S), NEW h, NEW k,
         Unfolds(h, g, S), Unfolds(k, g, T), NEW U \in SUBSET S, U \in SUBSET T
  PROVE  h[U] = k[U]
<1> DEFINE Bad == {s \in SUBSET S : s \in SUBSET T /\ h[s] # k[s]}
<1> SUFFICES ASSUME Bad # {} PROVE FALSE
  OBVIOUS
<1>0. Bad \in SUBSET SUBSET S
  OBVIOUS
<1>1. PICK s \in Bad : \A u \in Bad : u \subseteq s => u = s
  <2> HIDE DEF Bad
  <2>1. QED
    BY <1>0, Smallest
<1>2. s # {}
  BY <1>1 DEF Unfolds
<1>3. h[s \ {One(s)}] = k[s \ {One(s)}]
  BY <1>1, <1>2, OneOf
<1>4. QED
  BY <1>1, <1>2, <1>3 DEF Unfolds

\* Sums can be unfolded, and Sum is computed as its definition says: one member
\* and the sum of the others.
LEMMA SumUnfolds ==
  ASSUME NEW g, NEW S, IsFiniteSet(S)
  PROVE  /\ \E h : Unfolds(h, g, S)
         /\ Sum(g, S) = IF S = {} THEN 0 ELSE g[One(S)] + Sum(g, S \ {One(S)})
<1> DEFINE W(T) == CHOOSE h : Unfolds(h, g, T)
           Exists(T) == \E h : Unfolds(h, g, T)
<1>1. \A T : Sum(g, T) = W(T)[T]
  BY DEF Sum, MapThenSumSet, MapThenFoldSet, Unfolds, One
<1>2. \A T \in SUBSET S : Exists(T) => Unfolds(W(T), g, T)
  OBVIOUS
<1> HIDE DEF W
<1>3. ASSUME NEW T \in SUBSET S, Exists(T), Exists(T \ {One(T)})
      PROVE  Sum(g, T) = IF T = {} THEN 0 ELSE g[One(T)] + Sum(g, T \ {One(T)})
  <2>1. Unfolds(W(T), g, T)
    BY <1>2, <1>3
  <2>2. CASE T = {}
    BY <2>1, <2>2, <1>1 DEF Unfolds
  <2>3. CASE T # {}
    <3> DEFINE R == T \ {One(T)}
    <3>1. Unfolds(W(R), g, R) /\ R \in SUBSET S /\ R \in SUBSET T /\ IsFiniteSet(T)
      BY <1>2, <1>3, FS_Subset
    <3>2. W(T)[R] = W(R)[R]
      BY <2>1, <3>1, UnfoldsAgree
    <3>3. W(T)[T] = g[One(T)] + W(T)[R]
      BY <2>1, <2>3 DEF Unfolds
    <3>4. QED
      BY <1>1, <2>3, <3>2, <3>3
  <2>4. QED
    BY <2>2, <2>3
<1>4. \A T \in SUBSET S : Exists(T)
  <2> DEFINE Bad == {T \in SUBSET S : ~Exists(T)}
  <2> SUFFICES ASSUME Bad # {} PROVE FALSE
    OBVIOUS
  <2>0. Bad \in SUBSET SUBSET S
    OBVIOUS
  <2>1. PICK T \in Bad : \A u \in Bad : u \subseteq T => u = T
    <3> HIDE DEF Bad
    <3>1. QED
      BY <2>0, Smallest
  <2>2. \A u \in SUBSET T : u # T => Exists(u) /\ Exists(u \ {One(u)})
    <3>1. \A u \in SUBSET T : u # T => u \ {One(u)} \in SUBSET T /\ u \ {One(u)} # T
      OBVIOUS
    <3>2. \A u \in SUBSET T : u # T => Exists(u)
      BY <2>1
    <3>3. QED
      BY <3>1, <3>2
  <2> DEFINE h == [s \in SUBSET T |-> IF s = {} THEN 0 ELSE g[One(s)] + Sum(g, s \ {One(s)})]
  <2>3. \A s \in SUBSET T : s # T => h[s] = Sum(g, s)
    BY <1>3, <2>1, <2>2
  <2>4. \A s \in SUBSET T : s # {} => s \ {One(s)} \in SUBSET T /\ s \ {One(s)} # T
    BY OneOf
  <2>5. \A s \in SUBSET T : s # {} => h[s \ {One(s)}] = Sum(g, s \ {One(s)})
    BY <2>3, <2>4
  <2>6. \A s \in SUBSET T : h[s] = IF s = {} THEN 0 ELSE g[One(s)] + h[s \ {One(s)}]
    BY <2>5
  <2>7. h = [s \in SUBSET T |-> h[s]]
    OBVIOUS
  <2> HIDE DEF h
  <2>8. Unfolds(h, g, T)
    BY <2>6, <2>7 DEF Unfolds
  <2>9. QED
    BY <2>1, <2>8
<1>5. S \ {One(S)} \in SUBSET S
  OBVIOUS
<1>6. QED
  BY <1>3, <1>4, <1>5


\* Nothing sums to zero.
LEMMA SumOfNone == \A g : Sum(g, {}) = 0
  BY SumUnfolds, FS_EmptySet

\* The order in which a sum is taken does not matter: any member may come out first.
LEMMA SumWithout ==
  ASSUME NEW S, IsFiniteSet(S), NEW g, \A x \in S : g[x] \in Int
  PROVE  /\ Sum(g, S) \in Int
         /\ \A x \in S : Sum(g, S) = g[x] + Sum(g, S \ {x})
<1> DEFINE Good(T) == /\ Sum(g, T) \in Int
                      /\ \A x \in T : Sum(g, T) = g[x] + Sum(g, T \ {x})
           Bad == {T \in SUBSET S : ~Good(T)}
<1> SUFFICES ASSUME Bad # {} PROVE FALSE
  <2>1. S \in SUBSET S
    OBVIOUS
  <2>2. QED
    BY <2>1
<1>0. Bad \in SUBSET SUBSET S
  OBVIOUS
<1>1. PICK T \in Bad : \A U \in Bad : U \subseteq T => U = T
  <2> HIDE DEF Bad
  <2>1. QED
    BY <1>0, Smallest
<1>2. IsFiniteSet(T) /\ T \in SUBSET S
  BY <1>1, FS_Subset
<1>3. \A U \in SUBSET T : U # T => Good(U)
  <2>1. \A U \in SUBSET T : U \in SUBSET S
    BY <1>2
  <2>2. QED
    BY <1>1, <2>1
<1> HIDE DEF Bad
<1>4. CASE T = {}
  <2>1. Good(T)
    BY <1>4, SumOfNone
  <2>2. QED
    BY <1>1, <2>1 DEF Bad
<1>5. CASE T # {}
  <2> DEFINE y == One(T)
  <2>1. y \in T
    BY <1>5, OneOf
  <2>2. Sum(g, T) = g[y] + Sum(g, T \ {y})
    BY <1>2, <1>5, SumUnfolds
  <2> HIDE DEF y
  <2>3. \A x \in T : g[x] \in Int /\ Good(T \ {x})
    BY <1>2, <1>3
  <2>4. Sum(g, T) \in Int
    BY <2>1, <2>2, <2>3
  <2>5. ASSUME NEW x \in T, x # y PROVE Sum(g, T) = g[x] + Sum(g, T \ {x})
    <3>1. Sum(g, T \ {y}) = g[x] + Sum(g, (T \ {y}) \ {x})
      BY <2>1, <2>3, <2>5
    <3>2. Sum(g, T \ {x}) = g[y] + Sum(g, (T \ {x}) \ {y})
      BY <2>1, <2>3, <2>5
    <3>3. (T \ {y}) \ {x} = (T \ {x}) \ {y}
      OBVIOUS
    <3>4. Sum(g, (T \ {x}) \ {y}) \in Int
      <4>1. (T \ {x}) \ {y} \in SUBSET T /\ (T \ {x}) \ {y} # T
        BY <2>1
      <4>2. QED
        BY <1>3, <4>1
    <3>5. QED
      BY <2>1, <2>2, <2>3, <3>1, <3>2, <3>3, <3>4
  <2>6. Good(T)
    BY <2>2, <2>4, <2>5
  <2>7. QED
    BY <1>1, <2>6 DEF Bad
<1>6. QED
  BY <1>4, <1>5

\* Sums are taken term by term.
LEMMA SumPlus ==
  ASSUME NEW S, IsFiniteSet(S), NEW g, NEW h, NEW k,
         \A x \in S : g[x] \in Int /\ h[x] \in Int /\ k[x] = g[x] + h[x]
  PROVE  Sum(k, S) = Sum(g, S) + Sum(h, S)
<1> DEFINE Good(T) == Sum(k, T) = Sum(g, T) + Sum(h, T)
           Bad == {T \in SUBSET S : ~Good(T)}
<1> SUFFICES ASSUME Bad # {} PROVE FALSE
  <2>1. S \in SUBSET S
    OBVIOUS
  <2>2. QED
    BY <2>1
<1>0. Bad \in SUBSET SUBSET S
  OBVIOUS
<1>1. PICK T \in Bad : \A U \in Bad : U \subseteq T => U = T
  <2> HIDE DEF Bad
  <2>1. QED
    BY <1>0, Smallest
<1>2. T \in SUBSET S /\ IsFiniteSet(T) /\ ~Good(T)
  BY <1>1, FS_Subset
<1>3. T # {}
  BY <1>2, SumOfNone
<1>4. PICK x \in T : TRUE
  BY <1>3
<1>5. T \ {x} \in SUBSET S /\ IsFiniteSet(T \ {x}) /\ Good(T \ {x})
  BY <1>1, <1>2, <1>4, FS_Subset
<1>6. /\ Sum(g, T) = g[x] + Sum(g, T \ {x})
      /\ Sum(h, T) = h[x] + Sum(h, T \ {x})
      /\ Sum(k, T) = k[x] + Sum(k, T \ {x})
  BY <1>2, <1>4, SumWithout
<1>7. Sum(g, T \ {x}) \in Int /\ Sum(h, T \ {x}) \in Int
  BY <1>2, <1>5, SumWithout
<1>8. QED
  BY <1>2, <1>4, <1>5, <1>6, <1>7

\* A sum of figures of nothing is nothing.
LEMMA SumOfZeros ==
  ASSUME NEW S, IsFiniteSet(S), NEW g, \A x \in S : g[x] = 0
  PROVE  Sum(g, S) = 0
<1>1. Sum(g, S) = Sum(g, S) + Sum(g, S)
  BY SumPlus
<1>2. Sum(g, S) \in Int
  BY SumWithout
<1>3. \A n \in Int : n = n + n => n = 0
  OBVIOUS
<1>4. QED
  BY <1>1, <1>2, <1>3

\* Only the figures of the members count.
LEMMA SumSame ==
  ASSUME NEW S, IsFiniteSet(S), NEW g, NEW h,
         \A x \in S : g[x] \in Int /\ h[x] = g[x]
  PROVE  Sum(h, S) = Sum(g, S)
<1> DEFINE none == [x \in S |-> 0]
<1>1. Sum(none, S) = 0
  BY SumOfZeros
<1>2. Sum(h, S) = Sum(g, S) + Sum(none, S)
  BY SumPlus
<1>3. Sum(g, S) \in Int
  BY SumWithout
<1>4. QED
  BY <1>1, <1>2, <1>3

\* One figure raised raises the sum by as much.
LEMMA SumRaised ==
  ASSUME NEW S, IsFiniteSet(S), NEW g, NEW h, NEW y \in S, NEW d \in Int,
         \A x \in S : g[x] \in Int /\ h[x] = IF x = y THEN g[x] + d ELSE g[x]
  PROVE  Sum(h, S) = Sum(g, S) + d
<1>1. Sum(g, S) = g[y] + Sum(g, S \ {y}) /\ Sum(h, S) = h[y] + Sum(h, S \ {y})
  BY SumWithout
<1>2. IsFiniteSet(S \ {y})
  BY FS_Subset
<1>3. Sum(h, S \ {y}) = Sum(g, S \ {y}) /\ Sum(g, S \ {y}) \in Int
  BY <1>2, SumSame, SumWithout
<1>4. QED
  BY <1>1, <1>3

\* What is never negative never sums to less than one of its figures.
LEMMA SumOfNats ==
  ASSUME NEW S, IsFiniteSet(S), NEW g, \A x \in S : g[x] \in Nat
  PROVE  Sum(g, S) \in Nat /\ \A x \in S : g[x] <= Sum(g, S)
<1> DEFINE Good(T) == Sum(g, T) >= 0
           Bad == {T \in SUBSET S : ~Good(T)}
<1>0. Bad = {}
  <2> SUFFICES ASSUME Bad # {} PROVE FALSE
    OBVIOUS
  <2>0. Bad \in SUBSET SUBSET S
    OBVIOUS
  <2>1. PICK T \in Bad : \A U \in Bad : U \subseteq T => U = T
    <3> HIDE DEF Bad
    <3>1. QED
      BY <2>0, Smallest
  <2>2. T \in SUBSET S /\ IsFiniteSet(T) /\ ~Good(T)
    BY <2>1, FS_Subset
  <2>3. T # {}
    BY <2>2, SumOfNone
  <2>4. PICK x \in T : TRUE
    BY <2>3
  <2>5. T \ {x} \in SUBSET S /\ IsFiniteSet(T \ {x}) /\ Good(T \ {x})
    BY <2>1, <2>2, <2>4, FS_Subset
  <2>6. Sum(g, T) = g[x] + Sum(g, T \ {x}) /\ Sum(g, T \ {x}) \in Int /\ g[x] \in Nat
    BY <2>2, <2>4, <2>5, SumWithout
  <2>7. QED
    BY <2>2, <2>5, <2>6
<1>1. \A T \in SUBSET S : Sum(g, T) \in Nat
  <2>1. \A T \in SUBSET S : IsFiniteSet(T) /\ Good(T)
    BY <1>0, FS_Subset
  <2>2. QED
    BY <2>1, SumWithout
<1>2. \A x \in S : Sum(g, S) = g[x] + Sum(g, S \ {x}) /\ S \ {x} \in SUBSET S
  BY SumWithout
<1>3. ASSUME NEW x \in S PROVE g[x] <= Sum(g, S)
  <2>1. Sum(g, S \ {x}) \in Nat /\ g[x] \in Nat
    BY <1>1, <1>2
  <2>2. Sum(g, S) = g[x] + Sum(g, S \ {x})
    BY <1>2
  <2>3. QED
    BY <2>1, <2>2
<1>4. QED
  BY <1>1, <1>3

-----------------------------------------------------------------------------
(* The files and their customer.                                           *)

\* What is held of a customer adds up to what is held of their files, in each of
\* the four places a figure of both can be: the dump, the buffer, a flush, the
\* database.
FilesAddUp ==
    \A c \in Clients :
        /\ bytes[c] = Sum(drained, FilesOf(c))
        /\ usage[c] = Sum(devices, FilesOf(c))
        /\ takenUsage[c] = Sum(takenDevices, FilesOf(c))
        /\ used[c] = Sum(fileUsed, FilesOf(c))

\* A customer's files are finitely many of the files.
LEMMA FilesOfFinite == \A c : IsFiniteSet(FilesOf(c)) /\ FilesOf(c) \subseteq Files
  BY MeteringAssumption, FS_Subset DEF FilesOf

\* Where no period ends no renewal is half done.
LEMMA NothingToZero ==
    ASSUME "period" \notin Allowed
    PROVE  Spec => [](zeroing = {})
<1>1. Init => zeroing = {}
  BY DEF Init
<1>2. due = {} /\ zeroing = {} /\ [Next]_vars => (zeroing = {})'
  <2> SUFFICES ASSUME due = {}, zeroing = {}, [Next]_vars PROVE zeroing' = {}
    OBVIOUS
  <2>1. CASE UNCHANGED evalVars
    BY <2>1 DEF evalVars
  <2>2. CASE UNCHANGED zeroing
    BY <2>2
  <2>3. CASE zeroing' = {}
    BY <2>3
  <2>4. ASSUME NEW c \in Clients, RenewOne(c) PROVE zeroing' = zeroing
    BY <2>4 DEF RenewOne
  <2>5. QED
    BY <2>1, <2>2, <2>3, <2>4 DEF Next, Kernel, Tick, Writer, Operator, Process, vars, evalVars, PassEnds,
       PacketPasses, PacketDropped, TableWiped, TickBegins, DrainCounter,
       DrainFails, DrainDone, TickSubmit, TickCounted, TickRenew,
       RenewFiles, RenewDone, TickNear, TickAsk, TickSweep,
       TickExpire, TickRead, ApplyInPlace, ApplyWhole, ApplyFallsBack,
       WriteWhole, ApplyFails, EvaluateGoesOn, TickFails, FlushTakes, LastFlushTakes, Take, FlushCommits,
       FlushFails, AddNodeReport, BulkReset, ResetReads, ResetWrites, BulkEnable, BulkDisable,
       ExtendTraffic, PeriodEnds, TermEnds, EditOf, Crash, Stop, Exit,
       ProcessGone, Start
<1>3. QED
  BY <1>1, <1>2, NobodyDue, PTL DEF Spec

\* collect, submit, flush, restore and ResetTraffic each move a customer's figure
\* and their files' together.
LEMMA AddingUp ==
    ASSUME "period" \notin Allowed
    PROVE  Spec => []FilesAddUp
<1>1. Init => FilesAddUp
  <2> SUFFICES ASSUME Init, NEW x \in Clients
               PROVE  /\ bytes[x] = Sum(drained, FilesOf(x))
                      /\ usage[x] = Sum(devices, FilesOf(x))
                      /\ takenUsage[x] = Sum(takenDevices, FilesOf(x))
                      /\ used[x] = Sum(fileUsed, FilesOf(x))
    BY DEF FilesAddUp
  <2>1. Sum(NoFiles, FilesOf(x)) = 0
    BY FilesOfFinite, SumOfZeros DEF NoFiles
  <2>2. QED
    BY <2>1 DEF Init, NoClients
<1>2. TypeOK /\ TypeOK' /\ due = {} /\ zeroing = {} /\ FilesAddUp /\ [Next]_vars => FilesAddUp'
  <2> SUFFICES ASSUME TypeOK, TypeOK', due = {}, zeroing = {}, FilesAddUp, [Next]_vars,
                      NEW x \in Clients
               PROVE  /\ bytes'[x] = Sum(drained', FilesOf(x))
                      /\ usage'[x] = Sum(devices', FilesOf(x))
                      /\ takenUsage'[x] = Sum(takenDevices', FilesOf(x))
                      /\ used'[x] = Sum(fileUsed', FilesOf(x))
    BY DEF FilesAddUp
  <2> DEFINE S == FilesOf(x)
             Read == bytes'[x] = Sum(drained', S)
             Buffered == usage'[x] = Sum(devices', S)
             Taken == takenUsage'[x] = Sum(takenDevices', S)
             Written == used'[x] = Sum(fileUsed', S)
             Goal == Read /\ Buffered /\ Taken /\ Written
  <2> SUFFICES Goal
    OBVIOUS
  <2>0. /\ bytes[x] = Sum(drained, S) /\ usage[x] = Sum(devices, S)
        /\ takenUsage[x] = Sum(takenDevices, S) /\ used[x] = Sum(fileUsed, S)
    BY DEF FilesAddUp
  <2>01. IsFiniteSet(S) /\ S \subseteq Files /\ \A f \in Files : f \in S <=> Owner[f] = x
    BY FilesOfFinite DEF FilesOf
  <2>02. \A f \in Files : /\ drained[f] \in Nat /\ devices[f] \in Nat
                          /\ takenDevices[f] \in Nat /\ fileUsed[f] \in Nat
                          /\ counter[f] \in Nat
    BY DEF TypeOK, KernelTypeOK, TickTypeOK, WriterTypeOK, DatabaseTypeOK
  <2>03. /\ bytes[x] \in Nat /\ usage[x] \in Nat /\ takenUsage[x] \in Nat /\ used[x] \in Nat
    BY DEF TypeOK, TickTypeOK, WriterTypeOK, DatabaseTypeOK
  <2>04. Sum(NoFiles, S) = 0 /\ NoClients[x] = 0
    BY <2>01, SumOfZeros DEF NoFiles, NoClients
  <2> HIDE DEF S
  <2>05. UNCHANGED <<drained, bytes>> => Read
    BY <2>0
  <2>06. UNCHANGED bufferVars => Buffered
    BY <2>0 DEF bufferVars
  <2>07. UNCHANGED <<takenUsage, takenDevices>> => Taken
    BY <2>0
  <2>08. UNCHANGED <<used, fileUsed>> => Written
    BY <2>0
  <2>09. UNCHANGED <<drained, bytes, bufferVars, flushVars, used, fileUsed>> => Goal
    BY <2>05, <2>06, <2>07, <2>08 DEF flushVars
  <2> HIDE DEF Goal
  <2>1. CASE Kernel
    BY <2>1, <2>09 DEF Kernel, PacketPasses, PacketDropped, TableWiped, drainVars, dbVars
  <2>2. CASE Tick
    <3>1. ASSUME NEW f \in Files, DrainCounter(f) PROVE Goal
      <4>1. UNCHANGED <<bufferVars, flushVars, used, fileUsed>>
        BY <3>1 DEF DrainCounter, dbVars
      <4>2. drained' = [drained EXCEPT ![f] = @ + counter[f]]
            /\ bytes' = [bytes EXCEPT ![Owner[f]] = @ + counter[f]]
        BY <3>1 DEF DrainCounter
      <4>3. CASE f \in S
        <5>1. \A y \in S : drained'[y] = IF y = f THEN drained[y] + counter[f] ELSE drained[y]
          BY <2>01, <4>2 DEF TypeOK, TickTypeOK
        <5>2. \A y \in S : drained[y] \in Int
          BY <2>01, <2>02
        <5>3. Sum(drained', S) = Sum(drained, S) + counter[f]
          <6>1. counter[f] \in Int
            BY <2>02
          <6>2. QED
            BY <2>01, <4>3, <5>1, <5>2, <6>1, SumRaised
        <5>4. bytes'[x] = bytes[x] + counter[f]
          BY <2>01, <4>2, <4>3 DEF TypeOK, TickTypeOK
        <5>5. QED
          BY <2>0, <2>06, <2>07, <2>08, <4>1, <5>3, <5>4 DEF Goal, flushVars
      <4>4. CASE f \notin S
        <5>1. \A y \in S : drained[y] \in Int /\ drained'[y] = drained[y]
          BY <2>01, <2>02, <4>2, <4>4 DEF TypeOK, TickTypeOK
        <5>2. Sum(drained', S) = Sum(drained, S)
          BY <2>01, <5>1, SumSame
        <5>3. bytes'[x] = bytes[x]
          BY <2>01, <4>2, <4>4 DEF TypeOK, TickTypeOK
        <5>4. QED
          BY <2>0, <2>06, <2>07, <2>08, <4>1, <5>2, <5>3 DEF Goal, flushVars
      <4>5. QED
        BY <4>3, <4>4
    <3>2. ASSUME DrainFails PROVE Goal
      BY <2>04, <2>06, <2>07, <2>08, <3>2 DEF Goal, DrainFails, flushVars, dbVars
    <3>3. ASSUME NEW c \in Clients, TickSubmit(c) PROVE Goal
      <4>1. UNCHANGED <<flushVars, used, fileUsed>>
        BY <3>3 DEF TickSubmit, dbVars
      <4>2. /\ usage' = [usage EXCEPT ![c] = @ + bytes[c]]
            /\ devices' = [f \in Files |-> IF Owner[f] = c THEN devices[f] + drained[f]
                                                           ELSE devices[f]]
            /\ bytes' = [bytes EXCEPT ![c] = 0]
            /\ drained' = [f \in Files |-> IF Owner[f] = c THEN 0 ELSE drained[f]]
        BY <3>3 DEF TickSubmit
      <4>3. CASE c = x
        <5>1. \A y \in S : /\ devices'[y] = devices[y] + drained[y] /\ drained'[y] = 0
                           /\ devices[y] \in Int /\ drained[y] \in Int
          BY <2>01, <2>02, <4>2, <4>3
        <5>2. Sum(devices', S) = Sum(devices, S) + Sum(drained, S) /\ Sum(drained', S) = 0
          BY <2>01, <5>1, SumPlus, SumOfZeros
        <5>3. usage'[x] = usage[x] + bytes[x] /\ bytes'[x] = 0
          BY <4>2, <4>3 DEF TypeOK, TickTypeOK, WriterTypeOK
        <5>4. QED
          BY <2>0, <2>07, <2>08, <4>1, <5>2, <5>3 DEF Goal, flushVars
      <4>4. CASE c # x
        <5>1. \A y \in S : /\ devices'[y] = devices[y] /\ drained'[y] = drained[y]
                           /\ devices[y] \in Int /\ drained[y] \in Int
          BY <2>01, <2>02, <4>2, <4>4
        <5>2. Sum(devices', S) = Sum(devices, S) /\ Sum(drained', S) = Sum(drained, S)
          BY <2>01, <5>1, SumSame
        <5>3. usage'[x] = usage[x] /\ bytes'[x] = bytes[x]
          BY <4>2, <4>4 DEF TypeOK, TickTypeOK, WriterTypeOK
        <5>4. QED
          BY <2>0, <2>07, <2>08, <4>1, <5>2, <5>3 DEF Goal, flushVars
      <4>5. QED
        BY <4>3, <4>4
    <3>4. ASSUME NEW c \in Clients, RenewOne(c) PROVE Goal
      BY <2>09, <3>4 DEF RenewOne, drainVars
    <3>5. ASSUME RenewFiles PROVE Goal
      BY <3>5 DEF RenewFiles
    <3>6. CASE TickBegins \/ DrainDone \/ TickCounted \/ TickRenew \/ RenewDone \/ TickNear \/ TickAsk
               \/ TickSweep \/ TickExpire
      BY <2>09, <3>6 DEF TickBegins, DrainDone, TickCounted, TickRenew, RenewDone, TickNear,
         TickAsk, TickSweep, TickExpire, drainVars, dbVars
    <3>7. CASE TickRead \/ ApplyInPlace \/ ApplyWhole \/ ApplyFallsBack \/ ApplyFails
               \/ EvaluateGoesOn \/ TickFails
      BY <2>09, <3>7 DEF TickRead, ApplyInPlace, ApplyWhole, ApplyFallsBack, WriteWhole,
         ApplyFails, EvaluateGoesOn, TickFails, drainVars, dbVars
    <3>8. QED
      BY <2>2, <3>1, <3>2, <3>3, <3>4, <3>5, <3>6, <3>7 DEF Tick
  <2>3. CASE Writer
    <3>1. ASSUME FlushTakes \/ LastFlushTakes PROVE Goal
      <4>1. /\ takenUsage' = usage /\ takenDevices' = devices
            /\ usage' = NoClients /\ devices' = NoFiles
            /\ UNCHANGED <<drained, bytes, used, fileUsed>>
        BY <3>1 DEF FlushTakes, LastFlushTakes, Take, drainVars, dbVars
      <4>2. QED
        BY <2>0, <2>04, <2>05, <2>08, <4>1 DEF Goal
    <3>2. ASSUME FlushCommits PROVE Goal
      <4>1. /\ used' = Plus(used, takenUsage) /\ fileUsed' = Plus(fileUsed, takenDevices)
            /\ takenUsage' = NoClients /\ takenDevices' = NoFiles
            /\ UNCHANGED <<drained, bytes, bufferVars>>
        BY <3>2 DEF FlushCommits, drainVars
      <4>2. \A y \in S : /\ fileUsed'[y] = fileUsed[y] + takenDevices[y]
                         /\ fileUsed[y] \in Int /\ takenDevices[y] \in Int
        BY <2>01, <2>02, <4>1 DEF Plus, TypeOK, DatabaseTypeOK
      <4>3. Sum(fileUsed', S) = Sum(fileUsed, S) + Sum(takenDevices, S)
        BY <2>01, <4>2, SumPlus
      <4>4. used'[x] = used[x] + takenUsage[x]
        BY <4>1 DEF Plus, TypeOK, DatabaseTypeOK
      <4>5. QED
        BY <2>0, <2>04, <2>05, <2>06, <4>1, <4>3, <4>4 DEF Goal
    <3>3. ASSUME FlushFails PROVE Goal
      <4>1. /\ usage' = Plus(usage, takenUsage) /\ devices' = Plus(devices, takenDevices)
            /\ takenUsage' = NoClients /\ takenDevices' = NoFiles
            /\ UNCHANGED <<drained, bytes, used, fileUsed>>
        BY <3>3 DEF FlushFails, drainVars, dbVars
      <4>2. \A y \in S : /\ devices'[y] = devices[y] + takenDevices[y]
                         /\ devices[y] \in Int /\ takenDevices[y] \in Int
        BY <2>01, <2>02, <4>1 DEF Plus, TypeOK, WriterTypeOK
      <4>3. Sum(devices', S) = Sum(devices, S) + Sum(takenDevices, S)
        BY <2>01, <4>2, SumPlus
      <4>4. usage'[x] = usage[x] + takenUsage[x]
        BY <4>1 DEF Plus, TypeOK, WriterTypeOK
      <4>5. QED
        BY <2>0, <2>04, <2>05, <2>08, <4>1, <4>3, <4>4 DEF Goal
    <3>4. ASSUME NEW f \in Files, NEW p \in Packets, AddNodeReport(f, p) PROVE Goal
      <4>1. /\ usage' = [usage EXCEPT ![Owner[f]] = @ + p]
            /\ devices' = [devices EXCEPT ![f] = @ + p]
            /\ UNCHANGED <<drained, bytes, takenUsage, takenDevices, used, fileUsed>>
        BY <3>4 DEF AddNodeReport, drainVars, flushVars, dbVars
      <4>2. p \in Int
        BY MeteringAssumption
      <4>3. CASE f \in S
        <5>1. \A y \in S : devices'[y] = IF y = f THEN devices[y] + p ELSE devices[y]
          BY <2>01, <4>1 DEF TypeOK, WriterTypeOK
        <5>2. \A y \in S : devices[y] \in Int
          BY <2>01, <2>02
        <5>3. Sum(devices', S) = Sum(devices, S) + p
          BY <2>01, <4>2, <4>3, <5>1, <5>2, SumRaised
        <5>4. usage'[x] = usage[x] + p
          BY <2>01, <4>1, <4>3 DEF TypeOK, WriterTypeOK
        <5>5. QED
          BY <2>0, <2>05, <2>07, <2>08, <4>1, <5>3, <5>4 DEF Goal
      <4>4. CASE f \notin S
        <5>1. \A y \in S : devices[y] \in Int /\ devices'[y] = devices[y]
          BY <2>01, <2>02, <4>1, <4>4 DEF TypeOK, WriterTypeOK
        <5>2. Sum(devices', S) = Sum(devices, S)
          BY <2>01, <5>1, SumSame
        <5>3. usage'[x] = usage[x]
          BY <2>01, <4>1, <4>4 DEF TypeOK, WriterTypeOK
        <5>4. QED
          BY <2>0, <2>05, <2>07, <2>08, <4>1, <5>2, <5>3 DEF Goal
      <4>5. QED
        BY <4>3, <4>4
    <3>5. QED
      BY <2>3, <3>1, <3>2, <3>3, <3>4 DEF Writer
  <2>4. CASE Operator
    <3>1. ASSUME NEW R \in SUBSET Clients \ {{}}, BulkReset(R) PROVE Goal
      <4>1. /\ UNCHANGED <<drained, bytes, bufferVars, flushVars>>
            /\ used' = [c \in Clients |-> IF c \in R THEN 0 ELSE used[c]]
            /\ fileUsed' = [f \in Files |-> IF Owner[f] \in R THEN 0 ELSE fileUsed[f]]
        BY <3>1 DEF BulkReset, EditOf, ZeroFileUsage, drainVars
      <4>2. CASE x \in R
        <5>1. \A y \in S : fileUsed'[y] = 0
          BY <2>01, <4>1, <4>2
        <5>2. Sum(fileUsed', S) = 0
          BY <2>01, <5>1, SumOfZeros
        <5>3. QED
          BY <2>05, <2>06, <2>07, <4>1, <4>2, <5>2 DEF Goal, flushVars
      <4>3. CASE x \notin R
        <5>1. \A y \in S : fileUsed[y] \in Int /\ fileUsed'[y] = fileUsed[y]
          BY <2>01, <2>02, <4>1, <4>3
        <5>2. Sum(fileUsed', S) = Sum(fileUsed, S)
          BY <2>01, <5>1, SumSame
        <5>3. QED
          BY <2>0, <2>05, <2>06, <2>07, <4>1, <4>3, <5>2 DEF Goal, flushVars
      <4>4. QED
        BY <4>2, <4>3
    <3>2. ASSUME NEW R \in SUBSET Clients \ {{}},
                 BulkEnable(R) \/ BulkDisable(R) \/ \E d \in Raises : ExtendTraffic(R, d)
          PROVE  Goal
      BY <2>09, <3>2 DEF BulkEnable, BulkDisable, ExtendTraffic, EditOf, drainVars
    <3>3. ASSUME NEW c \in Clients, PeriodEnds(c) \/ TermEnds(c) \/ ResetReads(c) PROVE Goal
      BY <2>09, <3>3 DEF PeriodEnds, TermEnds, ResetReads, EditOf, drainVars, dbVars
    <3>4. ASSUME NEW c \in Clients, ResetWrites(c) PROVE Goal
      <4>1. /\ UNCHANGED <<drained, bytes, bufferVars, flushVars>>
            /\ used' = [used EXCEPT ![c] = 0]
            /\ fileUsed' = [f \in Files |-> IF Owner[f] \in {c} THEN 0 ELSE fileUsed[f]]
        BY <3>4 DEF ResetWrites, ZeroFileUsage, drainVars
      <4>2. used'[x] = IF x = c THEN 0 ELSE used[x]
        BY <4>1 DEF TypeOK, DatabaseTypeOK
      <4>3. CASE x = c
        <5>1. \A y \in S : fileUsed'[y] = 0
          BY <2>01, <4>1, <4>3
        <5>2. Sum(fileUsed', S) = 0
          BY <2>01, <5>1, SumOfZeros
        <5>3. QED
          BY <2>05, <2>06, <2>07, <4>1, <4>2, <4>3, <5>2 DEF Goal, flushVars
      <4>4. CASE x # c
        <5>1. \A y \in S : fileUsed[y] \in Int /\ fileUsed'[y] = fileUsed[y]
          BY <2>01, <2>02, <4>1, <4>4
        <5>2. Sum(fileUsed', S) = Sum(fileUsed, S)
          BY <2>01, <5>1, SumSame
        <5>3. QED
          BY <2>0, <2>05, <2>06, <2>07, <4>1, <4>2, <4>4, <5>2 DEF Goal, flushVars
      <4>5. QED
        BY <4>3, <4>4
    <3>5. QED
      BY <2>4, <3>1, <3>2, <3>3, <3>4 DEF Operator
  <2>5. CASE Process
    <3>1. ASSUME ProcessGone PROVE Goal
      BY <2>04, <2>08, <3>1 DEF Goal, ProcessGone, dbVars
    <3>2. CASE Stop \/ Start
      BY <2>09, <3>2 DEF Stop, Start, drainVars, dbVars
    <3>3. QED
      BY <2>5, <3>1, <3>2 DEF Process, Crash, Exit
  <2>6. CASE UNCHANGED vars
    BY <2>09, <2>6 DEF vars, drainVars, dbVars
  <2>7. QED
    BY <2>1, <2>2, <2>3, <2>4, <2>5, <2>6 DEF Next
<1>3. QED
  BY <1>1, <1>2, TypeCorrect, NobodyDue, NothingToZero, PTL DEF Spec

\* The per-file rows add up to the customer's usage to the byte, whatever fails and
\* whatever is reset by hand (collect; ResetTraffic), where no plan renews: a
\* renewal writes the customer and their files in two statements.
THEOREM FilesAgree ==
    ASSUME "period" \notin Allowed
    PROVE  Spec => []FilesMatchCustomer
<1>1. FilesAddUp => FilesMatchCustomer
  BY DEF FilesAddUp, FilesMatchCustomer
<1>2. QED
  BY <1>1, AddingUp, PTL

-----------------------------------------------------------------------------
(* The ledger.                                                             *)

\* Without a table there is nothing to lose, and a table the enforcer does not know,
\* or a panel that is not running, is there only after a fault.
LossNeedsAFault ==
    /\ ~table => counter = NoFiles
    /\ table => known \/ faults > 0
    /\ up # "running" => faults > 0

\* Apply forgets the table only when a call failed; only a fault stops the panel.
LEMMA LossesHaveCauses == Spec => []LossNeedsAFault
<1>1. Init => LossNeedsAFault
  BY DEF Init, LossNeedsAFault
<1>2. TypeOK /\ LossNeedsAFault /\ [Next]_vars => LossNeedsAFault'
  <2> SUFFICES ASSUME TypeOK, LossNeedsAFault, [Next]_vars PROVE LossNeedsAFault'
    OBVIOUS
  <2>0. faults \in Nat
    BY MeteringAssumption DEF TypeOK, GhostTypeOK
  <2> USE DEF LossNeedsAFault, panel
  <2>1. CASE UNCHANGED <<table, counter, known, up, faults>>
    BY <2>1
  <2>2. CASE Fault /\ (~table' => counter' = NoFiles)
    BY <2>0, <2>2 DEF Fault
  <2>3. ASSUME NEW f \in Files, NEW p \in Packets, PacketPasses(f, p) PROVE LossNeedsAFault'
    BY <2>3 DEF PacketPasses, enforcerVars, ghostVars
  <2>4. ASSUME NEW f \in Files, NEW p \in Packets, PacketDropped(f, p) PROVE LossNeedsAFault'
    BY <2>1, <2>4 DEF PacketDropped, enforcerVars, ghostVars
  <2>5. CASE TableWiped
    BY <2>2, <2>5 DEF TableWiped
  <2>6. ASSUME NEW f \in Files, DrainCounter(f) PROVE LossNeedsAFault'
    BY <2>6 DEF DrainCounter, enforcerVars, ghostVars, NoFiles
  <2>7. CASE DrainFails
    BY <2>2, <2>7 DEF DrainFails, kernelVars
  <2>8. CASE Tick
    <3>1. CASE TickBegins \/ DrainDone \/ (\E c \in Clients : TickSubmit(c)) \/ TickCounted
               \/ TickRenew \/ (\E c \in Clients : RenewOne(c)) \/ RenewFiles \/ RenewDone
      BY <2>1, <3>1 DEF TickBegins, DrainDone, TickSubmit, TickCounted, TickRenew, RenewOne,
         RenewFiles, RenewDone, kernelVars, enforcerVars, ghostVars
    <3>2. CASE TickNear \/ TickAsk \/ TickSweep \/ TickExpire \/ TickRead
      BY <2>1, <3>2 DEF TickNear, TickAsk, TickSweep, TickExpire, TickRead, kernelVars,
         enforcerVars, ghostVars
    <3>3. CASE ApplyInPlace
      BY <2>1, <3>3 DEF ApplyInPlace, ghostVars
    <3>4. CASE ApplyWhole \/ ApplyFallsBack
      <4>1. table' /\ known' /\ up' = up /\ faults' \in Nat /\ (faults' = faults \/ Fault)
        BY <2>0, <3>4 DEF ApplyWhole, ApplyFallsBack, WriteWhole, Fault
      <4>2. QED
        BY <2>0, <4>1 DEF Fault
    <3>5. CASE ApplyFails
      BY <2>2, <3>5 DEF ApplyFails, kernelVars
    <3>6. CASE EvaluateGoesOn \/ TickFails
      <4>1. UNCHANGED <<table, counter, up>> /\ (known' = known \/ known' = FALSE)
        BY <3>6 DEF EvaluateGoesOn, TickFails, kernelVars, enforcerVars
      <4>2. Fault \/ (up = "stopping" /\ UNCHANGED faults)
        BY <3>6 DEF EvaluateGoesOn, TickFails, StatementFails
      <4>3. QED
        BY <2>0, <4>1, <4>2 DEF Fault
    <3>7. QED
      BY <2>6, <2>7, <2>8, <3>1, <3>2, <3>3, <3>4, <3>5, <3>6 DEF Tick
  <2>9. CASE Writer
    <3>1. UNCHANGED <<table, counter, known, up>>
      BY <2>9 DEF Writer, FlushTakes, LastFlushTakes, Take, FlushCommits, FlushFails,
         AddNodeReport, kernelVars, enforcerVars
    <3>2. Fault \/ UNCHANGED faults
      BY <2>9 DEF Writer, FlushTakes, LastFlushTakes, Take, FlushCommits, FlushFails,
         AddNodeReport, ghostVars
    <3>3. QED
      BY <2>1, <2>2, <3>1, <3>2
  <2>10. CASE Operator
    BY <2>1, <2>10 DEF Operator, BulkReset, ResetReads, ResetWrites, BulkEnable, BulkDisable, ExtendTraffic, PeriodEnds,
       TermEnds, EditOf, kernelVars, enforcerVars
  <2>11. CASE Process
    <3>1. CASE Crash \/ Stop
      BY <2>2, <3>1 DEF Crash, Stop, ProcessGone, kernelVars
    <3>2. CASE Exit
      BY <3>2 DEF Exit, ProcessGone, kernelVars
    <3>3. CASE Start
      BY <3>3 DEF Start, kernelVars, enforcerVars, ghostVars
    <3>4. QED
      BY <2>11, <3>1, <3>2, <3>3 DEF Process
  <2>12. CASE UNCHANGED vars
    BY <2>1, <2>12 DEF vars, kernelVars, enforcerVars, ghostVars
  <2>13. QED
    BY <2>3, <2>4, <2>5, <2>8, <2>9, <2>10, <2>11, <2>12 DEF Next, Kernel
<1>3. QED
  BY <1>1, <1>2, TypeCorrect, PTL DEF Spec

\* The bound on what a file carries holds.
ServedBounded == \A f \in Files : served[f] <= MaxServed

\* Only a packet or a node's report makes a file carry more.
LEMMA ServedInBound == Spec => []ServedBounded
<1>1. Init => ServedBounded
  BY MeteringAssumption DEF Init, ServedBounded, NoFiles
<1>2. TypeOK /\ ServedBounded /\ [Next]_vars => ServedBounded'
  <2> SUFFICES ASSUME TypeOK, ServedBounded, [Next]_vars PROVE ServedBounded'
    OBVIOUS
  <2>1. CASE UNCHANGED served
    BY <2>1 DEF ServedBounded
  <2>2. ASSUME NEW f \in Files, NEW p \in Packets, Carry(f, p) PROVE ServedBounded'
    BY <2>2 DEF ServedBounded, Carry, TypeOK, GhostTypeOK
  <2>3. QED
    BY <2>1, <2>2 DEF Next, Kernel, Tick, Writer, Operator, Process, vars, ghostVars,
       PacketPasses, PacketDropped, TableWiped, TickBegins, DrainCounter,
       DrainFails, DrainDone, TickSubmit, TickCounted, TickRenew, RenewOne,
       RenewFiles, RenewDone, TickNear, TickAsk, TickSweep,
       TickExpire, TickRead, ApplyInPlace, ApplyWhole, ApplyFallsBack,
       WriteWhole, ApplyFails, EvaluateGoesOn, TickFails, FlushTakes, LastFlushTakes, Take, FlushCommits,
       FlushFails, AddNodeReport, BulkReset, ResetReads, ResetWrites, BulkEnable, BulkDisable,
       ExtendTraffic, PeriodEnds, TermEnds, EditOf, Crash, Stop, Exit,
       ProcessGone, Start
<1>3. QED
  BY <1>1, <1>2, TypeCorrect, PTL DEF Spec

\* The ledger's sum over a customer's files is the metering's.
LEMMA ShareIsSum == ASSUME NEW g, NEW c PROVE L!Share(g, c) = Sum(g, FilesOf(c))
  BY DEF L!Share, Sum, FilesOf, MapThenSumSet, MapThenFoldSet, L!MapThenSumSet, L!MapThenFoldSet

\* A step that moves a file's bytes between the places they can be owed in is
\* none to the ledger.
LEMMA LedgerStutters ==
    ASSUME \A f \in Files : Pending(f)' = Pending(f),
           UNCHANGED <<used, fileUsed, faults>>
    PROVE  UNCHANGED L!ledger
  BY DEF L!ledger

\* Once something has failed, less may be owed.
LEMMA LedgerLoses ==
    ASSUME TypeOK, TypeOK', ServedBounded, BytesConserved,
           faults' > 0, UNCHANGED <<used, fileUsed>>,
           \A f \in Files : Pending(f)' <= Pending(f)
    PROVE  L!Next
<1> DEFINE g == [f \in Files |-> Pending(f) - Pending(f)']
<1>1. \A f \in Files : Pending(f) \in Nat /\ Pending(f)' \in Nat /\ Pending(f) <= MaxServed
  BY MeteringAssumption DEF Pending, TypeOK, KernelTypeOK, TickTypeOK, WriterTypeOK,
         DatabaseTypeOK, GhostTypeOK, BytesConserved, ServedBounded
<1>2. g \in L!Batches
  BY <1>1, MeteringAssumption DEF L!Batches
<1>3. [f \in Files |-> Pending(f)'] = [f \in Files |-> [x \in Files |-> Pending(x)][f] - g[f]]
  BY <1>1
<1>4. \A f \in Files : g[f] <= [x \in Files |-> Pending(x)][f]
  BY <1>1
<1> HIDE DEF g
<1>5. L!Lose(g)
  BY <1>3, <1>4 DEF L!Lose
<1>6. QED
  BY <1>2, <1>5 DEF L!Next

\* A packet counted, or a report taken in, is carried.
LEMMA LedgerCarries ==
    ASSUME TypeOK, ServedBounded, NEW f \in Files, NEW p \in Packets, Carry(f, p),
           UNCHANGED <<used, fileUsed, faults>>,
           Pending(f)' = Pending(f) + p,
           \A x \in Files : x # f => Pending(x)' = Pending(x)
    PROVE  L!Next
<1>1. p \in 1 .. MaxServed
  BY MeteringAssumption DEF Carry, TypeOK, GhostTypeOK
<1>2. [x \in Files |-> Pending(x)'] = [[x \in Files |-> Pending(x)] EXCEPT ![f] = @ + p]
  OBVIOUS
<1>3. L!Carry(f)
  BY <1>1, <1>2 DEF L!Carry
<1>4. QED
  BY <1>3 DEF L!Next

\* A commit bills what the flush took, to the files and to their customers alike.
LEMMA LedgerBills ==
    ASSUME TypeOK, TypeOK', ServedBounded, BytesConserved, FilesAddUp, FlushCommits
    PROVE  L!Next
<1> USE DEF TypeOK, KernelTypeOK, TickTypeOK, WriterTypeOK, DatabaseTypeOK, GhostTypeOK
<1>1. \A f \in Files : /\ Pending(f)' = Pending(f) - takenDevices[f]
                       /\ takenDevices[f] \in Nat /\ takenDevices[f] <= Pending(f)
                       /\ Pending(f) <= MaxServed
  <2> SUFFICES ASSUME NEW f \in Files
               PROVE  /\ Pending(f)' = Pending(f) - takenDevices[f]
                      /\ takenDevices[f] \in Nat /\ takenDevices[f] <= Pending(f)
                      /\ Pending(f) <= MaxServed
    OBVIOUS
  <2>1. takenDevices'[f] = 0 /\ UNCHANGED <<counter, drained, devices>>
    BY DEF FlushCommits, NoFiles, kernelVars, drainVars, bufferVars
  <2>2. QED
    BY <2>1, MeteringAssumption DEF Pending, BytesConserved, ServedBounded
<1>2. takenDevices \in L!Batches
  <2>1. \A f \in Files : Pending(f) \in Nat /\ takenDevices[f] \in 0 .. MaxServed
    BY <1>1, MeteringAssumption DEF Pending
  <2>2. QED
    BY <2>1 DEF L!Batches
<1>3. [f \in Files |-> Pending(f)'] = [f \in Files |-> [x \in Files |-> Pending(x)][f] - takenDevices[f]]
  BY <1>1
<1>4. fileUsed' = [f \in Files |-> fileUsed[f] + takenDevices[f]]
  BY DEF FlushCommits, Plus
<1>5. used' = [c \in Clients |-> used[c] + L!Share(takenDevices, c)]
  <2>1. \A c \in Clients : L!Share(takenDevices, c) = takenUsage[c]
    BY ShareIsSum DEF FilesAddUp
  <2>2. used' = [c \in Clients |-> used[c] + takenUsage[c]]
    BY DEF FlushCommits, Plus
  <2>3. QED
    BY <2>1, <2>2
<1>6. UNCHANGED faults
  BY DEF FlushCommits, ghostVars
<1>7. L!Bill(takenDevices)
  BY <1>1, <1>3, <1>4, <1>5, <1>6 DEF L!Bill
<1>8. QED
  BY <1>2, <1>7 DEF L!Next

\* A reset by hand forgives.
LEMMA LedgerForgives ==
    ASSUME TypeOK, NEW S \in SUBSET Clients,
           BulkReset(S) \/ \E c \in Clients : S = {c} /\ ResetWrites(c)
    PROVE  L!Next
<1>1. \A f \in Files : Pending(f)' = Pending(f)
  BY DEF BulkReset, ResetWrites, EditOf, Pending, kernelVars, drainVars, bufferVars, flushVars
<1>2. used' = [c \in Clients |-> IF c \in S THEN 0 ELSE used[c]]
  BY DEF BulkReset, ResetWrites, TypeOK, DatabaseTypeOK
<1>3. fileUsed' = [f \in Files |-> IF Owner[f] \in S THEN 0 ELSE fileUsed[f]] /\ faults' = faults
  BY DEF BulkReset, ResetWrites, EditOf, ZeroFileUsage
<1>4. L!Forgive(S)
  BY <1>1, <1>2, <1>3 DEF L!Forgive
<1>5. QED
  BY <1>4 DEF L!Next

\* The metering implements the ledger where no plan renews: every step of the
\* kernel, the tick, the writer, an operator or the process carries, bills,
\* forgives or, after a fault, loses, as the ledger allows, or changes nothing the
\* ledger can see (traffic.go; ResetTraffic).
THEOREM MeteringRefinesLedger ==
    ASSUME "period" \notin Allowed
    PROVE  Spec => ImplementsLedger
<1>1. Init => L!Init
  BY DEF Init, L!Init, Pending, NoFiles, NoClients
<1>2. /\ TypeOK /\ TypeOK' /\ due = {} /\ zeroing = {} /\ FilesAddUp /\ BytesConserved
      /\ IdleHoldsNothing /\ ServedBounded /\ LossNeedsAFault /\ [Next]_vars
      => [L!Next]_(L!ledger)
  <2> SUFFICES ASSUME TypeOK, TypeOK', due = {}, zeroing = {}, FilesAddUp, BytesConserved,
                      IdleHoldsNothing, ServedBounded, LossNeedsAFault, [Next]_vars
               PROVE  L!Next \/ UNCHANGED L!ledger
    OBVIOUS
  <2> DEFINE Goal == L!Next \/ UNCHANGED L!ledger
  <2> SUFFICES Goal
    OBVIOUS
  <2>0. /\ faults \in Nat /\ faults' \in Nat
        /\ \A f \in Files : /\ counter[f] \in Nat /\ drained[f] \in Nat
                            /\ devices[f] \in Nat /\ takenDevices[f] \in Nat
                            /\ counter'[f] \in Nat /\ drained'[f] \in Nat
                            /\ devices'[f] \in Nat /\ takenDevices'[f] \in Nat
    BY MeteringAssumption
    DEF TypeOK, KernelTypeOK, TickTypeOK, WriterTypeOK, DatabaseTypeOK, GhostTypeOK
  <2>01. UNCHANGED <<counter, drained, devices, takenDevices, used, fileUsed, faults>> => Goal
    BY LedgerStutters DEF Pending
  <2>02. ASSUME Fault \/ (faults > 0 /\ UNCHANGED faults), UNCHANGED <<used, fileUsed>>,
                \A f \in Files : Pending(f)' <= Pending(f)
         PROVE  Goal
    BY <2>0, <2>02, LedgerLoses DEF Fault
  <2>03. ASSUME UNCHANGED <<counter, drained, devices, takenDevices>>
         PROVE  \A f \in Files : Pending(f)' <= Pending(f)
    BY <2>0, <2>03 DEF Pending
  <2>04. ASSUME UNCHANGED <<used, fileUsed, faults>>, \A f \in Files : Pending(f)' = Pending(f)
         PROVE  Goal
    BY <2>04, LedgerStutters
  <2> HIDE DEF Goal
  <2>1. CASE Kernel
    <3>1. ASSUME NEW f \in Files, NEW p \in Packets, PacketPasses(f, p) PROVE Goal
      <4>1. /\ UNCHANGED <<drained, devices, takenDevices, used, fileUsed, faults>>
            /\ counter' = [counter EXCEPT ![f] = @ + p] /\ Carry(f, p)
        BY <3>1 DEF PacketPasses, drainVars, bufferVars, flushVars, dbVars
      <4>2. p \in Nat /\ counter \in [Files -> Nat]
        BY MeteringAssumption DEF TypeOK, KernelTypeOK
      <4>3. Pending(f)' = Pending(f) + p /\ \A x \in Files : x # f => Pending(x)' = Pending(x)
        BY <2>0, <4>1, <4>2 DEF Pending
      <4>4. QED
        BY <4>1, <4>3, LedgerCarries DEF Goal
    <3>2. ASSUME NEW f \in Files, NEW p \in Packets, PacketDropped(f, p) PROVE Goal
      BY <2>01, <3>2 DEF PacketDropped, drainVars, bufferVars, flushVars, dbVars, panel, ghostVars
    <3>3. CASE TableWiped
      <4>1. /\ UNCHANGED <<drained, devices, takenDevices, used, fileUsed>>
            /\ counter' = NoFiles /\ Fault
        BY <3>3 DEF TableWiped, drainVars, bufferVars, flushVars, dbVars
      <4>2. \A f \in Files : Pending(f)' <= Pending(f)
        BY <2>0, <4>1 DEF Pending, NoFiles
      <4>3. QED
        BY <2>02, <4>1, <4>2
    <3>4. QED
      BY <2>1, <3>1, <3>2, <3>3 DEF Kernel
  <2>2. CASE Tick
    <3>1. ASSUME NEW f \in Files, DrainCounter(f) PROVE Goal
      <4>1. /\ UNCHANGED <<devices, takenDevices, used, fileUsed, faults>>
            /\ counter' = [counter EXCEPT ![f] = 0]
            /\ drained' = [drained EXCEPT ![f] = @ + counter[f]]
        BY <3>1 DEF DrainCounter, bufferVars, flushVars, dbVars, panel, ghostVars
      <4>2. \A x \in Files : Pending(x)' = Pending(x)
        BY <2>0, <4>1 DEF Pending, TypeOK, KernelTypeOK, TickTypeOK
      <4>3. QED
        BY <2>04, <4>1, <4>2
    <3>2. CASE DrainFails
      <4>1. /\ UNCHANGED <<counter, devices, takenDevices, used, fileUsed>>
            /\ drained' = NoFiles /\ Fault
        BY <3>2 DEF DrainFails, kernelVars, bufferVars, flushVars, dbVars
      <4>2. \A f \in Files : Pending(f)' <= Pending(f)
        BY <2>0, <4>1 DEF Pending, NoFiles
      <4>3. QED
        BY <2>02, <4>1, <4>2
    <3>3. ASSUME NEW c \in Clients, TickSubmit(c) PROVE Goal
      <4>1. /\ UNCHANGED <<counter, takenDevices, used, fileUsed, faults>>
            /\ devices' = [f \in Files |-> IF Owner[f] = c THEN devices[f] + drained[f]
                                                           ELSE devices[f]]
            /\ drained' = [f \in Files |-> IF Owner[f] = c THEN 0 ELSE drained[f]]
        BY <3>3 DEF TickSubmit, kernelVars, flushVars, dbVars, panel, ghostVars
      <4>2. \A f \in Files : Pending(f)' = Pending(f)
        BY <2>0, <4>1 DEF Pending
      <4>3. QED
        BY <2>04, <4>1, <4>2
    <3>4. CASE TickBegins \/ DrainDone \/ TickCounted \/ TickRenew \/ (\E c \in Clients : RenewOne(c))
               \/ RenewFiles \/ RenewDone
      BY <2>01, <3>4 DEF TickBegins, DrainDone, TickCounted, TickRenew, RenewOne, RenewFiles,
         RenewDone, kernelVars, drainVars, bufferVars, flushVars, dbVars, panel, ghostVars
    <3>5. CASE TickNear \/ TickAsk \/ TickSweep \/ TickExpire \/ TickRead \/ ApplyInPlace
      BY <2>01, <3>5 DEF TickNear, TickAsk, TickSweep, TickExpire, TickRead, ApplyInPlace,
         kernelVars, drainVars, bufferVars, flushVars, dbVars, panel, ghostVars
    <3>6. ASSUME WriteWhole PROVE /\ UNCHANGED <<drained, devices, takenDevices, used, fileUsed>>
                                  /\ counter' = NoFiles
                                  /\ \A f \in Files : Pending(f)' <= Pending(f)
      <4>1. UNCHANGED <<drained, devices, takenDevices, used, fileUsed>> /\ counter' = NoFiles
        BY <3>6 DEF WriteWhole, drainVars, bufferVars, flushVars, dbVars
      <4>2. QED
        BY <2>0, <4>1 DEF Pending, NoFiles
    <3>7. CASE ApplyWhole
      <4>1. WriteWhole /\ UNCHANGED faults /\ (~known \/ ~table)
        BY <3>7 DEF ApplyWhole
      <4>2. CASE table
        BY <2>02, <3>6, <4>1, <4>2 DEF LossNeedsAFault
      <4>3. CASE ~table
        <5>1. counter = NoFiles
          BY <4>3 DEF LossNeedsAFault
        <5>2. QED
          BY <2>01, <3>6, <4>1, <5>1
      <4>4. QED
        BY <4>2, <4>3
    <3>8. CASE ApplyFallsBack
      BY <2>02, <3>6, <3>8 DEF ApplyFallsBack
    <3>9. CASE ApplyFails
      <4>1. UNCHANGED <<counter, drained, devices, takenDevices, used, fileUsed>> /\ Fault
        BY <3>9 DEF ApplyFails, kernelVars, drainVars, bufferVars, flushVars, dbVars
      <4>2. QED
        BY <2>02, <2>03, <4>1
    <3>10. CASE EvaluateGoesOn \/ TickFails
      <4>1. UNCHANGED <<counter, drained, devices, takenDevices, used, fileUsed>>
        BY <3>10 DEF EvaluateGoesOn, TickFails, kernelVars, drainVars, bufferVars, flushVars, dbVars
      <4>2. Fault \/ UNCHANGED faults
        BY <3>10 DEF EvaluateGoesOn, TickFails, StatementFails
      <4>3. QED
        BY <2>01, <2>02, <2>03, <4>1, <4>2
    <3>11. QED
      BY <2>2, <3>1, <3>2, <3>3, <3>4, <3>5, <3>7, <3>8, <3>9, <3>10 DEF Tick
  <2>3. CASE Writer
    <3>1. CASE FlushTakes \/ LastFlushTakes
      <4>1. /\ UNCHANGED <<counter, drained, used, fileUsed, faults>>
            /\ takenDevices' = devices /\ devices' = NoFiles /\ takenDevices = NoFiles
        BY <3>1 DEF FlushTakes, LastFlushTakes, Take, kernelVars, drainVars, dbVars, ghostVars,
           IdleHoldsNothing
      <4>2. \A f \in Files : Pending(f)' = Pending(f)
        BY <2>0, <4>1 DEF Pending, NoFiles
      <4>3. QED
        BY <2>04, <4>1, <4>2
    <3>2. CASE FlushCommits
      BY <3>2, LedgerBills DEF Goal
    <3>3. CASE FlushFails
      <4>1. /\ UNCHANGED <<counter, drained, used, fileUsed>>
            /\ devices' = Plus(devices, takenDevices) /\ takenDevices' = NoFiles
            /\ Fault \/ UNCHANGED faults
        BY <3>3 DEF FlushFails, kernelVars, drainVars, dbVars
      <4>2. \A f \in Files : devices'[f] = devices[f] + takenDevices[f] /\ takenDevices'[f] = 0
        BY <4>1 DEF Plus, NoFiles, TypeOK, WriterTypeOK
      <4>3. \A f \in Files : Pending(f)' = Pending(f)
        BY <2>0, <4>1, <4>2 DEF Pending
      <4>4. \A f \in Files : Pending(f)' <= Pending(f)
        BY <2>0, <4>3 DEF Pending
      <4>5. QED
        BY <2>02, <2>04, <4>1, <4>3, <4>4
    <3>4. ASSUME NEW f \in Files, NEW p \in Packets, AddNodeReport(f, p) PROVE Goal
      <4>1. /\ UNCHANGED <<counter, drained, takenDevices, used, fileUsed, faults>>
            /\ devices' = [devices EXCEPT ![f] = @ + p] /\ Carry(f, p)
        BY <3>4 DEF AddNodeReport, kernelVars, drainVars, flushVars, dbVars
      <4>2. p \in Nat /\ devices \in [Files -> Nat]
        BY MeteringAssumption DEF TypeOK, WriterTypeOK
      <4>3. Pending(f)' = Pending(f) + p /\ \A x \in Files : x # f => Pending(x)' = Pending(x)
        BY <2>0, <4>1, <4>2 DEF Pending
      <4>4. QED
        BY <4>1, <4>3, LedgerCarries DEF Goal
    <3>5. QED
      BY <2>3, <3>1, <3>2, <3>3, <3>4 DEF Writer
  <2>4. CASE Operator
    <3>1. ASSUME NEW S \in SUBSET Clients \ {{}}, BulkReset(S) PROVE Goal
      BY <3>1, LedgerForgives DEF Goal
    <3>2. ASSUME NEW S \in SUBSET Clients \ {{}},
                 BulkEnable(S) \/ BulkDisable(S) \/ \E d \in Raises : ExtendTraffic(S, d)
          PROVE  Goal
      BY <2>01, <3>2 DEF BulkEnable, BulkDisable, ExtendTraffic, EditOf, kernelVars, drainVars,
         bufferVars, flushVars
    <3>3. ASSUME NEW c \in Clients, PeriodEnds(c) \/ TermEnds(c) \/ ResetReads(c) PROVE Goal
      BY <2>01, <3>3 DEF PeriodEnds, TermEnds, ResetReads, EditOf, kernelVars, drainVars,
         bufferVars, flushVars, dbVars
    <3>4. ASSUME NEW c \in Clients, ResetWrites(c) PROVE Goal
      BY <3>4, LedgerForgives DEF Goal
    <3>5. QED
      BY <2>4, <3>1, <3>2, <3>3, <3>4 DEF Operator
  <2>5. CASE Process
    <3>1. CASE Crash \/ Exit
      <4>1. /\ UNCHANGED <<counter, used, fileUsed>>
            /\ drained' = NoFiles /\ devices' = NoFiles /\ takenDevices' = NoFiles
        BY <3>1 DEF Crash, Exit, ProcessGone, kernelVars, dbVars
      <4>2. \A f \in Files : Pending(f)' <= Pending(f)
        BY <2>0, <4>1 DEF Pending, NoFiles
      <4>3. Fault \/ (faults > 0 /\ UNCHANGED faults)
        BY <3>1 DEF Crash, Exit, LossNeedsAFault
      <4>4. QED
        BY <2>02, <4>1, <4>2, <4>3
    <3>2. CASE Stop
      <4>1. UNCHANGED <<counter, drained, devices, takenDevices, used, fileUsed>> /\ Fault
        BY <3>2 DEF Stop, kernelVars, drainVars, bufferVars, flushVars, dbVars
      <4>2. QED
        BY <2>02, <2>03, <4>1
    <3>3. CASE Start
      BY <2>01, <3>3 DEF Start, kernelVars, drainVars, bufferVars, flushVars, dbVars, panel, ghostVars
    <3>4. QED
      BY <2>5, <3>1, <3>2, <3>3 DEF Process
  <2>6. CASE UNCHANGED vars
    BY <2>01, <2>6 DEF vars, kernelVars, drainVars, bufferVars, flushVars, dbVars, panel, ghostVars
  <2>7. QED
    BY <2>1, <2>2, <2>3, <2>4, <2>5, <2>6 DEF Next
<1>3. QED
  BY <1>1, <1>2, TypeCorrect, NobodyDue, NothingToZero, AddingUp, Conservation, HandsEmpty,
     ServedInBound, LossesHaveCauses, PTL DEF Spec, ImplementsLedger, L!Spec

-----------------------------------------------------------------------------
(* The allowance.                                                          *)

\* One server, whose allowances stay as they are and whose kernel keeps its table;
\* customers may be switched off and on and run out of time, and the database may
\* fail.
Calm == Allowed \subseteq {"disable", "enable", "term", "db"}

\* So far nobody has edited anything and nothing has failed, or what may is harmless.
Quietly == Calm \/ (edits = 0 /\ faults = 0)

\* Edits and faults are counted and never forgotten.
LEMMA CountsGrow ==
    ASSUME TypeOK, [Next]_vars
    PROVE  edits <= edits' /\ faults <= faults'
<1>0. edits \in Nat /\ faults \in Nat
  BY MeteringAssumption DEF TypeOK, GhostTypeOK
<1>1. CASE UNCHANGED ghostVars
  BY <1>0, <1>1 DEF ghostVars
<1>2. CASE UNCHANGED <<faults, edits>>
  BY <1>0, <1>2
<1>3. CASE Fault /\ UNCHANGED edits
  BY <1>0, <1>3 DEF Fault
<1>4. CASE Edit /\ UNCHANGED faults
  BY <1>0, <1>4 DEF Edit
<1>5. QED
  BY <1>1, <1>2, <1>3, <1>4 DEF Next, Kernel, Tick, Writer, Operator, Process, vars,
     PacketPasses, PacketDropped, TableWiped, TickBegins, DrainCounter,
     DrainFails, DrainDone, TickSubmit, TickCounted, TickRenew,
     RenewOne, RenewFiles, RenewDone, TickNear, TickAsk, TickSweep,
     TickExpire, TickRead, ApplyInPlace, ApplyWhole, ApplyFallsBack,
     WriteWhole, ApplyFails, EvaluateGoesOn, TickFails, StatementFails, FlushTakes,
     LastFlushTakes, Take, FlushCommits, FlushFails, AddNodeReport, BulkReset,
     ResetReads, ResetWrites, BulkEnable, BulkDisable, ExtendTraffic, PeriodEnds,
     TermEnds, EditOf, Crash, Stop, Exit, ProcessGone, Start

\* A step after which all is quiet found it quiet, and was no fault of the kernel's,
\* nft's or the process's, no edit of usage or an allowance and no period's end.
LEMMA QuietSteps ==
    ASSUME TypeOK, [Next]_vars, Quietly'
    PROVE  /\ Quietly
           /\ ~(TableWiped \/ DrainFails \/ ApplyFallsBack \/ ApplyFails \/ Crash \/ Stop)
           /\ \A S : ~BulkReset(S) /\ \A d : ~ExtendTraffic(S, d)
           /\ \A c : ~PeriodEnds(c) /\ ~ResetReads(c)
<1>0. edits \in Nat /\ faults \in Nat /\ edits <= edits' /\ faults <= faults'
  BY CountsGrow, MeteringAssumption DEF TypeOK, GhostTypeOK
<1>1. CASE Calm
  <2>1. "wipe" \notin Allowed /\ "nft" \notin Allowed /\ "crash" \notin Allowed
        /\ "stop" \notin Allowed /\ "reset" \notin Allowed /\ "raise" \notin Allowed
        /\ "period" \notin Allowed
    BY <1>1 DEF Calm
  <2>2. QED
    BY <1>1, <2>1 DEF Quietly, TableWiped, DrainFails, ApplyFallsBack, ApplyFails, Crash, Stop,
       BulkReset, ExtendTraffic, PeriodEnds, ResetReads, EditOf
<1>2. CASE edits' = 0 /\ faults' = 0
  <2>1. edits = 0 /\ faults = 0
    BY <1>0, <1>2
  <2>2. ~Fault /\ ~Edit
    BY <1>2, <2>1 DEF Fault, Edit
  <2>3. QED
    BY <2>1, <2>2 DEF Quietly, TableWiped, DrainFails, ApplyFallsBack, ApplyFails, Crash, Stop,
       BulkReset, ExtendTraffic, PeriodEnds, ResetReads, EditOf
<1>3. QED
  BY <1>1, <1>2 DEF Quietly

\* Nothing but the panel's own first write makes the table, and nothing removes it.
InStep ==
    /\ up = "running" /\ resetting = NoPlan
    /\ table = known
    /\ due = {} /\ zeroing = {}
    /\ quota = FirstQuota
    /\ \A c \in Clients :
        /\ seen[c] <= used[c]
        /\ pc = "apply" => /\ rules[c].quota = FirstQuota[c]
                           /\ seen[c] <= rules[c].used /\ rules[c].used <= used[c]

\* Apply is the only writer of the table there is, and what it applies was read
\* of usage that has only grown since.
LEMMA StaysInStep == Spec => [](Quietly => InStep)
<1>1. Init => InStep
  <2>1. \A c \in Clients : NoClients[c] = 0
    BY DEF NoClients
  <2>2. SUFFICES ASSUME Init PROVE InStep
    OBVIOUS
  <2>3. pc # "apply" /\ \A c \in Clients : seen[c] = 0 /\ used[c] = 0
    BY <2>1, <2>2 DEF Init
  <2>4. up = "running" /\ resetting = NoPlan /\ table = known /\ due = {} /\ zeroing = {} /\ quota = FirstQuota
    BY <2>2 DEF Init
  <2>5. QED
    BY <2>3, <2>4 DEF InStep
<1>2. TypeOK /\ TypeOK' /\ (Quietly => InStep) /\ [Next]_vars => (Quietly => InStep)'
  <2> SUFFICES ASSUME TypeOK, TypeOK', InStep, [Next]_vars,
                      ~(TableWiped \/ DrainFails \/ ApplyFallsBack \/ ApplyFails \/ Crash \/ Stop),
                      \A S : ~BulkReset(S) /\ \A d : ~ExtendTraffic(S, d),
                      \A c : ~PeriodEnds(c) /\ ~ResetReads(c)
               PROVE  InStep'
    BY QuietSteps
  <2> DEFINE Read(c) == /\ rules[c].quota = FirstQuota[c]
                        /\ seen[c] <= rules[c].used /\ rules[c].used <= used[c]
  <2>1. /\ up = "running" /\ resetting = NoPlan /\ table = known /\ due = {} /\ zeroing = {} /\ quota = FirstQuota
        /\ \A c \in Clients : seen[c] <= used[c] /\ (pc = "apply" => Read(c))
    BY DEF InStep
  <2>2. \A c \in Clients : /\ used[c] \in Nat /\ seen[c] \in Nat /\ rules[c].used \in Nat
                           /\ takenUsage[c] \in Nat
    BY DEF TypeOK, KernelTypeOK, TickTypeOK, DatabaseTypeOK, WriterTypeOK
  <2> HIDE DEF Read
  <2>3. ASSUME UNCHANGED <<panel, table, known, due, zeroing, quota, seen, used, rules>>,
               pc' = "apply" => pc = "apply"
        PROVE  InStep'
    BY <2>1, <2>3 DEF InStep, Read, panel
  <2>4. CASE Kernel
    BY <2>3, <2>4 DEF Kernel, PacketPasses, PacketDropped, enforcerVars, evalVars,
       dbVars
  <2>5. CASE Tick
    <3>1. CASE TickBegins \/ (\E f \in Files : DrainCounter(f)) \/ DrainFails \/ DrainDone
               \/ (\E c \in Clients : TickSubmit(c)) \/ TickCounted
      BY <2>3, <3>1 DEF TickBegins, DrainCounter, DrainDone, TickSubmit, TickCounted,
         kernelVars, enforcerVars, evalVars, dbVars
    <3>2. CASE TickRenew \/ (\E c \in Clients : RenewOne(c)) \/ RenewFiles \/ RenewDone
      BY <2>1, <2>3, <3>2 DEF TickRenew, RenewOne, RenewFiles, RenewDone, kernelVars, enforcerVars,
         evalVars, dbVars
    <3>3. CASE TickNear \/ TickAsk \/ TickSweep \/ TickExpire
      BY <2>1, <2>3, <3>3 DEF TickNear, TickAsk, TickSweep, TickExpire, kernelVars, enforcerVars,
         evalVars, dbVars
    <3>4. CASE TickRead
      BY <2>1, <2>2, <3>4 DEF TickRead, InStep, kernelVars, enforcerVars, evalVars, dbVars, panel
    <3>5. CASE ApplyInPlace
      BY <2>1, <2>2, <3>5 DEF ApplyInPlace, InStep, Read, PassEnds, dbVars, panel
    <3>6. CASE ApplyWhole
      BY <2>1, <2>2, <3>6 DEF ApplyWhole, WriteWhole, InStep, Read, PassEnds, dbVars, panel
    <3>7. CASE ApplyFallsBack \/ ApplyFails
      BY <3>7
    <3>8. CASE EvaluateGoesOn
      BY <2>1, <3>8 DEF EvaluateGoesOn, InStep, kernelVars, enforcerVars, dbVars, panel
    <3>9. CASE TickFails
      BY <2>1, <3>9 DEF TickFails, InStep, PassEnds, kernelVars, dbVars, panel
    <3>10. QED
      BY <2>5, <3>1, <3>2, <3>3, <3>4, <3>5, <3>6, <3>7, <3>8, <3>9 DEF Tick
  <2>6. CASE Writer
    <3>1. CASE FlushTakes \/ LastFlushTakes \/ FlushFails \/ (\E f \in Files, p \in Packets : AddNodeReport(f, p))
      BY <2>1, <2>3, <3>1 DEF FlushTakes, LastFlushTakes, Take, FlushFails, AddNodeReport, kernelVars,
         enforcerVars, evalVars, dbVars
    <3>2. CASE FlushCommits
      <4>1. UNCHANGED <<panel, table, known, due, zeroing, quota, seen, rules, pc>>
        BY <3>2 DEF FlushCommits, kernelVars, enforcerVars, evalVars
      <4>2. \A c \in Clients : used'[c] = used[c] + takenUsage[c]
        BY <3>2 DEF FlushCommits, Plus, TypeOK, DatabaseTypeOK
      <4>3. \A c \in Clients : used[c] <= used'[c] /\ used'[c] \in Nat
        BY <2>2, <4>2
      <4>4. \A c \in Clients : seen'[c] <= used'[c]
        BY <2>1, <2>2, <4>1, <4>3
      <4>5. \A c \in Clients : pc = "apply" => rules'[c].used <= used'[c]
        BY <2>1, <2>2, <4>1, <4>3 DEF Read
      <4>6. QED
        BY <2>1, <4>1, <4>4, <4>5 DEF InStep, Read, panel
    <3>3. QED
      BY <2>6, <3>1, <3>2 DEF Writer
  <2>7. CASE Operator
    <3>1. \A c \in Clients : ~ResetWrites(c)
      BY <2>1 DEF ResetWrites, NoPlan
    <3>2. QED
      BY <2>3, <2>7, <3>1 DEF Operator, BulkEnable, BulkDisable, TermEnds, EditOf, kernelVars,
         enforcerVars, evalVars
  <2>8. CASE Process
    BY <2>1, <2>8 DEF Process, Exit, Start
  <2>9. CASE UNCHANGED vars
    BY <2>3, <2>9 DEF vars, kernelVars, enforcerVars, evalVars, dbVars
  <2>10. QED
    BY <2>4, <2>5, <2>6, <2>7, <2>8, <2>9 DEF Next
<1>3. QED
  BY <1>1, <1>2, TypeCorrect, PTL DEF Spec

\* What a customer is charged for is never less than what is written.
LEMMA OwedNat ==
    ASSUME TypeOK, NEW c \in Clients
    PROVE  Owed(c) \in Nat /\ used[c] \in Nat /\ used[c] <= Owed(c)
<1> DEFINE P == [f \in Files |-> Pending(f)]
<1>1. \A f \in FilesOf(c) : P[f] \in Nat
  BY FilesOfFinite DEF Pending, TypeOK, KernelTypeOK, TickTypeOK, WriterTypeOK
<1>2. Sum(P, FilesOf(c)) \in Nat
  <2> HIDE DEF P
  <2>1. QED
    BY <1>1, FilesOfFinite, SumOfNats
<1>3. used[c] \in Nat
  BY DEF TypeOK, DatabaseTypeOK
<1>4. QED
  BY <1>2, <1>3 DEF Owed

\* Bytes on their way are owed wherever they are.
LEMMA OwedStays ==
    ASSUME NEW c \in Clients, \A f \in Files : Pending(f)' = Pending(f), used'[c] = used[c]
    PROVE  Owed(c)' = Owed(c)
<1>1. [f \in Files |-> Pending(f)'] = [f \in Files |-> Pending(f)]
  OBVIOUS
<1>2. QED
  BY <1>1 DEF Owed

\* A commit writes what was owed already.
LEMMA OwedWritten ==
    ASSUME TypeOK, TypeOK', FilesAddUp, FlushCommits, NEW c \in Clients
    PROVE  Owed(c)' = Owed(c)
<1> DEFINE P == [f \in Files |-> Pending(f)]
           Q == [f \in Files |-> Pending(f)']
<1> USE DEF TypeOK, KernelTypeOK, TickTypeOK, WriterTypeOK, DatabaseTypeOK
<1>1. \A f \in Files : takenDevices'[f] = 0 /\ UNCHANGED <<counter, drained, devices>>
  BY DEF FlushCommits, NoFiles, kernelVars, drainVars, bufferVars
<1>2. \A f \in FilesOf(c) : Q[f] \in Int /\ takenDevices[f] \in Int /\ P[f] = Q[f] + takenDevices[f]
  BY <1>1, FilesOfFinite DEF Pending
<1>3. used'[c] = used[c] + takenUsage[c] /\ takenUsage[c] = Sum(takenDevices, FilesOf(c))
  BY DEF FlushCommits, Plus, FilesAddUp
<1> HIDE DEF P, Q
<1>4. /\ Sum(P, FilesOf(c)) = Sum(Q, FilesOf(c)) + Sum(takenDevices, FilesOf(c))
      /\ Sum(Q, FilesOf(c)) \in Int
  BY <1>2, FilesOfFinite, SumPlus, SumWithout
<1>5. used[c] \in Int /\ takenUsage[c] \in Int
  OBVIOUS
<1>6. used'[c] + Sum(Q, FilesOf(c)) = used[c] + Sum(P, FilesOf(c))
  BY <1>3, <1>4, <1>5
<1>7. QED
  BY <1>6 DEF Owed, P, Q

\* A packet adds to what its own customer owes.
LEMMA OwedRaised ==
    ASSUME TypeOK, TypeOK', NEW f \in Files, NEW p \in Nat, NEW c \in Clients,
           Pending(f)' = Pending(f) + p, \A x \in Files : x # f => Pending(x)' = Pending(x),
           used'[c] = used[c]
    PROVE  Owed(c)' = IF c = Owner[f] THEN Owed(c) + p ELSE Owed(c)
<1> DEFINE P == [x \in Files |-> Pending(x)]
           Q == [x \in Files |-> Pending(x)']
<1> USE DEF TypeOK, KernelTypeOK, TickTypeOK, WriterTypeOK, DatabaseTypeOK
<1>1. \A x \in FilesOf(c) : P[x] \in Int /\ Q[x] = IF x = f THEN P[x] + p ELSE P[x]
  BY FilesOfFinite DEF Pending
<1>2. f \in FilesOf(c) <=> c = Owner[f]
  BY DEF FilesOf
<1> HIDE DEF P, Q
<1>3. Sum(P, FilesOf(c)) \in Int
  BY <1>1, FilesOfFinite, SumWithout
<1>4. Sum(Q, FilesOf(c)) = IF c = Owner[f] THEN Sum(P, FilesOf(c)) + p ELSE Sum(P, FilesOf(c))
  <2>1. CASE c = Owner[f]
    <3>1. f \in FilesOf(c) /\ p \in Int
      BY <1>2, <2>1
    <3>2. QED
      BY <1>1, <2>1, <3>1, FilesOfFinite, SumRaised
  <2>2. CASE c # Owner[f]
    <3>1. \A x \in FilesOf(c) : P[x] \in Int /\ Q[x] = P[x]
      BY <1>1, <1>2, <2>2
    <3>2. QED
      BY <2>2, <3>1, FilesOfFinite, SumSame
  <2>3. QED
    BY <2>1, <2>2
<1>5. used[c] \in Int
  OBVIOUS
<1>6. Owed(c) = used[c] + Sum(P, FilesOf(c)) /\ Owed(c)' = used'[c] + Sum(Q, FilesOf(c))
  BY DEF Owed, P, Q
<1>7. QED
  BY <1>3, <1>4, <1>5, <1>6

\* What is owed falls when any part of it does.
LEMMA OwedFalls ==
    ASSUME TypeOK, TypeOK', NEW c \in Clients, used'[c] <= used[c],
           \A f \in Files : Pending(f)' <= Pending(f)
    PROVE  Owed(c)' <= Owed(c) /\ Owed(c)' \in Nat
<1> DEFINE P == [f \in Files |-> Pending(f)]
           Q == [f \in Files |-> Pending(f)']
           D == [f \in Files |-> Pending(f) - Pending(f)']
<1> USE DEF TypeOK, KernelTypeOK, TickTypeOK, WriterTypeOK, DatabaseTypeOK
<1>1. \A f \in Files : Pending(f) \in Nat /\ Pending(f)' \in Nat
  BY DEF Pending
<1>2. \A f \in FilesOf(c) : Q[f] \in Nat /\ D[f] \in Nat /\ P[f] = Q[f] + D[f]
  BY <1>1, FilesOfFinite
<1>3. Owed(c) = used[c] + Sum(P, FilesOf(c)) /\ Owed(c)' = used'[c] + Sum(Q, FilesOf(c))
  BY DEF Owed
<1> HIDE DEF P, Q, D
<1>4. Sum(P, FilesOf(c)) = Sum(Q, FilesOf(c)) + Sum(D, FilesOf(c))
  <2>1. \A f \in FilesOf(c) : Q[f] \in Int /\ D[f] \in Int /\ P[f] = Q[f] + D[f]
    BY <1>2
  <2>2. QED
    BY <2>1, FilesOfFinite, SumPlus
<1>5. Sum(Q, FilesOf(c)) \in Nat /\ Sum(D, FilesOf(c)) \in Nat
  BY <1>2, FilesOfFinite, SumOfNats
<1>6. used[c] \in Nat /\ used'[c] \in Nat
  OBVIOUS
<1>7. QED
  BY <1>3, <1>4, <1>5, <1>6

\* When the kernel is programmed, what customer c has carried is not further ahead
\* of the usage read than the margin needsReseed allows a tally to be.
LagWithinMargin(c) ==
    pc = "apply" /\ quota[c] > 0 =>
        Owed(c) + Near - 1 - rules[c].used <= Larger(KernelAhead, quota[c] \div 10)

\* The kernel's tally is what the customer owes, or has reached the allowance with a
\* packet that was dropped uncounted.
TallyLeads(c) ==
    /\ ~table => Owed(c) = 0
    /\ table => limit[c] = quota[c]
    /\ table /\ quota[c] > 0 =>
        /\ tally[c] <= quota[c] /\ Owed(c) <= tally[c]
        /\ tally[c] < quota[c] => tally[c] = Owed(c)
        /\ tally[c] < Owed(c) + Near

\* Every step keeps the tally level with what is owed: the kernel raises both, the
\* panel moves bytes, and a quota is not written again while the lag is within the
\* margin (changeScript, needsReseed).
LEMMA TallyStep ==
    ASSUME "node" \notin Allowed, NEW c \in Clients, TypeOK, TypeOK', FilesAddUp,
           IdleHoldsNothing, Quietly => InStep, Quietly', TallyLeads(c),
           LagWithinMargin(c), [Next]_vars
    PROVE  TallyLeads(c)'
<1>0. /\ InStep
      /\ ~(TableWiped \/ DrainFails \/ ApplyFallsBack \/ ApplyFails \/ Crash \/ Stop)
      /\ \A S : ~BulkReset(S) /\ \A d : ~ExtendTraffic(S, d)
      /\ \A d : ~PeriodEnds(d) /\ ~ResetReads(d)
  BY QuietSteps
<1>00. quota' = quota
  <2>1. \A d \in Clients : ~ResetWrites(d)
    BY <1>0 DEF InStep, ResetWrites, NoPlan
  <2>2. QED
    BY <1>0, <2>1 DEF Next, Kernel, Tick, Writer, Operator, Process, vars, dbVars,
       PacketPasses, PacketDropped, TickBegins, DrainCounter, DrainDone, TickSubmit,
       TickCounted, TickRenew, RenewOne, RenewFiles, RenewDone, TickNear, TickAsk,
       TickSweep, TickExpire, TickRead, ApplyInPlace, ApplyWhole, WriteWhole,
       EvaluateGoesOn, TickFails, FlushTakes, LastFlushTakes, Take, FlushCommits,
       FlushFails, AddNodeReport, BulkEnable, BulkDisable, TermEnds, EditOf, Exit,
       ProcessGone, Start
<1> DEFINE Goal == /\ ~table' => Owed(c)' = 0
                   /\ table' => limit'[c] = quota'[c]
                   /\ table' /\ quota'[c] > 0 =>
                       /\ tally'[c] <= quota'[c] /\ Owed(c)' <= tally'[c]
                       /\ tally'[c] < quota'[c] => tally'[c] = Owed(c)'
                       /\ tally'[c] < Owed(c)' + Near
<1> SUFFICES Goal
  BY DEF TallyLeads
<1>1. /\ ~table => Owed(c) = 0
      /\ table => limit[c] = quota[c]
      /\ table /\ quota[c] > 0 =>
          /\ tally[c] <= quota[c] /\ Owed(c) <= tally[c]
          /\ tally[c] < quota[c] => tally[c] = Owed(c)
          /\ tally[c] < Owed(c) + Near
  BY DEF TallyLeads
<1>2. /\ Owed(c) \in Nat /\ used[c] \in Nat /\ used[c] <= Owed(c) /\ Near \in Nat \ {0}
      /\ quota[c] \in Nat /\ limit[c] \in Nat /\ tally[c] \in Nat
      /\ rules[c].used \in Nat
  BY OwedNat, MeteringAssumption DEF TypeOK, KernelTypeOK, TickTypeOK, DatabaseTypeOK
<1>3. quota' = quota /\ quota = FirstQuota
  BY <1>0, <1>00 DEF InStep
<1>4. \A f \in Files : /\ counter[f] \in Nat /\ drained[f] \in Nat
                       /\ devices[f] \in Nat /\ takenDevices[f] \in Nat
                       /\ counter'[f] \in Nat /\ drained'[f] \in Nat
                       /\ devices'[f] \in Nat /\ takenDevices'[f] \in Nat
  BY DEF TypeOK, KernelTypeOK, TickTypeOK, WriterTypeOK
<1>5. ASSUME UNCHANGED <<table, limit, tally>>, Owed(c)' = Owed(c) PROVE Goal
  BY <1>1, <1>3, <1>5
<1>6. ASSUME UNCHANGED <<table, limit, tally, used>>, \A f \in Files : Pending(f)' = Pending(f)
      PROVE  Goal
  BY <1>5, <1>6, OwedStays
<1>7. ASSUME UNCHANGED <<table, limit, tally, used, counter, drained, devices, takenDevices>>
      PROVE  Goal
  BY <1>6, <1>7 DEF Pending
<1> HIDE DEF Goal
<1>8. CASE Kernel
  <2>1. ASSUME NEW f \in Files, NEW p \in Packets, PacketPasses(f, p) PROVE Goal
    <3>1. /\ table /\ UNCHANGED <<table, limit, drained, devices, takenDevices, used>>
          /\ counter' = [counter EXCEPT ![f] = @ + p]
          /\ limit[Owner[f]] = 0 \/ tally[Owner[f]] + p <= limit[Owner[f]]
          /\ tally' = IF limit[Owner[f]] = 0 THEN tally ELSE [tally EXCEPT ![Owner[f]] = @ + p]
      BY <2>1 DEF PacketPasses, drainVars, bufferVars, flushVars, dbVars
    <3>2. p \in Nat /\ counter \in [Files -> Nat] /\ tally \in [Clients -> Nat]
      BY MeteringAssumption DEF TypeOK, KernelTypeOK
    <3>3. Pending(f)' = Pending(f) + p /\ \A x \in Files : x # f => Pending(x)' = Pending(x)
      BY <1>4, <3>1, <3>2 DEF Pending
    <3>4. Owed(c)' = IF c = Owner[f] THEN Owed(c) + p ELSE Owed(c)
      BY <3>1, <3>2, <3>3, OwedRaised
    <3>5. CASE c = Owner[f]
      <4>1. quota[c] > 0 => tally'[c] = tally[c] + p /\ tally[c] + p <= quota[c]
        BY <1>1, <1>2, <3>1, <3>2, <3>5
      <4>2. p > 0
        BY MeteringAssumption
      <4>3. QED
        BY <1>1, <1>2, <1>3, <3>1, <3>2, <3>4, <3>5, <4>1, <4>2 DEF Goal
    <3>6. CASE c # Owner[f]
      <4>1. tally'[c] = tally[c]
        BY <3>1, <3>2, <3>6
      <4>2. QED
        BY <1>1, <1>2, <1>3, <3>1, <3>4, <3>6, <4>1 DEF Goal
    <3>7. QED
      BY <3>5, <3>6
  <2>2. ASSUME NEW f \in Files, NEW p \in Packets, PacketDropped(f, p) PROVE Goal
    <3>1. /\ UNCHANGED <<table, limit, counter, drained, devices, takenDevices, used>>
          /\ tally[Owner[f]] < limit[Owner[f]] /\ tally[Owner[f]] + p >= limit[Owner[f]]
          /\ tally' = [tally EXCEPT ![Owner[f]] = limit[Owner[f]]]
      BY <2>2 DEF PacketDropped, drainVars, bufferVars, flushVars, dbVars
    <3>2. p \in Nat /\ p < Near /\ tally \in [Clients -> Nat]
      BY MeteringAssumption DEF TypeOK, KernelTypeOK
    <3>3. Owed(c)' = Owed(c)
      BY <3>1, OwedStays DEF Pending
    <3>4. CASE c = Owner[f]
      <4>1. tally'[c] = limit[c] /\ tally[c] < limit[c] /\ limit[c] <= tally[c] + p
        BY <1>2, <3>1, <3>2, <3>4
      <4>2. QED
        BY <1>1, <1>2, <1>3, <3>1, <3>2, <3>3, <4>1 DEF Goal
    <3>5. CASE c # Owner[f]
      <4>1. tally'[c] = tally[c]
        BY <3>1, <3>2, <3>5
      <4>2. QED
        BY <1>1, <1>2, <1>3, <3>1, <3>3, <4>1 DEF Goal
    <3>6. QED
      BY <3>4, <3>5
  <2>3. QED
    BY <1>0, <1>8, <2>1, <2>2 DEF Kernel
<1>9. CASE Tick
  <2>1. ASSUME NEW f \in Files, DrainCounter(f) PROVE Goal
    <3>1. /\ UNCHANGED <<table, limit, tally, devices, takenDevices, used>>
          /\ counter' = [counter EXCEPT ![f] = 0]
          /\ drained' = [drained EXCEPT ![f] = @ + counter[f]]
      BY <2>1 DEF DrainCounter, bufferVars, flushVars, dbVars
    <3>2. \A x \in Files : Pending(x)' = Pending(x)
      BY <1>4, <3>1 DEF Pending, TypeOK, KernelTypeOK, TickTypeOK
    <3>3. QED
      BY <1>6, <3>1, <3>2
  <2>2. ASSUME NEW d \in Clients, TickSubmit(d) PROVE Goal
    <3>1. /\ UNCHANGED <<table, limit, tally, counter, takenDevices, used>>
          /\ devices' = [f \in Files |-> IF Owner[f] = d THEN devices[f] + drained[f]
                                                         ELSE devices[f]]
          /\ drained' = [f \in Files |-> IF Owner[f] = d THEN 0 ELSE drained[f]]
      BY <2>2 DEF TickSubmit, kernelVars, flushVars, dbVars
    <3>2. \A f \in Files : Pending(f)' = Pending(f)
      BY <1>4, <3>1 DEF Pending
    <3>3. QED
      BY <1>6, <3>1, <3>2
  <2>3. CASE TickBegins \/ DrainDone \/ TickCounted \/ TickRenew \/ RenewDone \/ TickNear \/ TickAsk
    BY <1>7, <2>3 DEF TickBegins, DrainDone, TickCounted, TickRenew, RenewDone, TickNear, TickAsk,
       kernelVars, drainVars, bufferVars, flushVars, dbVars
  <2>4. CASE (\E d \in Clients : RenewOne(d)) \/ RenewFiles
    <3>1. due = {} /\ zeroing = {}
      BY <1>0 DEF InStep
    <3>2. UNCHANGED <<table, limit, tally, used, counter, drained, devices, takenDevices>>
      BY <2>4, <3>1 DEF RenewOne, RenewFiles, kernelVars, drainVars, bufferVars, flushVars
    <3>3. QED
      BY <1>7, <3>2
  <2>5. CASE TickSweep \/ TickExpire \/ TickRead \/ EvaluateGoesOn \/ TickFails
    BY <1>7, <2>5 DEF TickSweep, TickExpire, TickRead, EvaluateGoesOn, TickFails, kernelVars,
       drainVars, bufferVars, flushVars, dbVars
  <2>6. CASE ApplyInPlace
    <3>1. pc = "apply" /\ table /\ UNCHANGED <<table, used, counter, drained, devices, takenDevices>>
      BY <2>6 DEF ApplyInPlace, drainVars, bufferVars, flushVars, dbVars
    <3>2. Owed(c)' = Owed(c)
      BY <3>1, OwedStays DEF Pending
    <3>3. /\ rules[c].quota = quota[c] /\ limit[c] = quota[c]
          /\ seen[c] <= rules[c].used /\ rules[c].used <= used[c] /\ seen[c] \in Nat
      BY <1>0, <1>1, <1>3, <3>1 DEF InStep, TypeOK, KernelTypeOK
    <3>4. limit'[c] = quota[c]
      BY <2>6, <3>3 DEF ApplyInPlace
    <3>5. quota[c] > 0 => tally'[c] = tally[c]
      <4> SUFFICES ASSUME quota[c] > 0 PROVE tally'[c] = tally[c]
        OBVIOUS
      <4>1. Owed(c) + Near - 1 - rules[c].used <= Larger(KernelAhead, quota[c] \div 10)
        BY <3>1 DEF LagWithinMargin
      <4> DEFINE seeded == Smaller(rules[c].used, quota[c])
                 ahead == Larger(KernelAhead, quota[c] \div 10)
                 behind == Larger(StoredAhead, quota[c] \div 100)
      <4>2. quota[c] \div 10 \in Nat /\ quota[c] \div 100 \in Nat
        BY <1>2
      <4>3. ahead \in Nat /\ behind \in Nat
        BY <4>2, MeteringAssumption DEF Larger
      <4>4. tally[c] <= quota[c] /\ Owed(c) <= tally[c] /\ tally[c] < Owed(c) + Near
        BY <1>1, <3>1
      <4>5. seeded \in Nat /\ seeded <= tally[c]
        BY <1>2, <3>3, <4>4 DEF Smaller
      <4>6. ~(seeded - tally[c] > behind)
        <5> HIDE DEF seeded, behind
        <5>1. QED
          BY <1>2, <4>3, <4>5
      <4>7. tally[c] - seeded <= ahead
        <5>1. CASE rules[c].used <= quota[c]
          <6>1. seeded = rules[c].used
            BY <5>1 DEF Smaller
          <6> HIDE DEF seeded, ahead
          <6>2. Owed(c) + Near - 1 - rules[c].used <= ahead
            BY <4>1 DEF ahead
          <6>3. QED
            BY <1>2, <4>3, <4>4, <6>1, <6>2
        <5>2. CASE ~(rules[c].used <= quota[c])
          <6>1. seeded = quota[c]
            BY <5>2 DEF Smaller
          <6> HIDE DEF seeded, ahead
          <6>2. QED
            BY <1>2, <4>3, <4>4, <6>1
        <5>3. QED
          BY <5>1, <5>2
      <4> HIDE DEF seeded, ahead, behind
      <4>8. ~(tally[c] - seeded > ahead)
        BY <1>2, <4>3, <4>5, <4>7
      <4>9. ~NeedsReseed(rules[c].quota, rules[c].used, seen[c], tally[c], applies' = 0)
        <5>1. ~(rules[c].used < seen[c])
          BY <1>2, <3>3
        <5>2. QED
          BY <3>3, <4>6, <4>8, <5>1 DEF NeedsReseed, seeded, ahead, behind
      <4>10. QED
        BY <2>6, <3>3, <4>9 DEF ApplyInPlace
    <3>6. QED
      BY <1>1, <1>3, <3>1, <3>2, <3>4, <3>5 DEF Goal
  <2>7. CASE ApplyWhole
    <3>1. pc = "apply" /\ ~table /\ table' /\ UNCHANGED <<used, drained, devices, takenDevices>>
          /\ counter' = NoFiles
      BY <1>0, <2>7 DEF ApplyWhole, WriteWhole, InStep, drainVars, bufferVars, flushVars, dbVars
    <3>2. rules[c].quota = quota[c] /\ rules[c].used <= used[c]
      BY <1>0, <1>3, <3>1 DEF InStep
    <3>3. limit'[c] = rules[c].quota /\ tally'[c] = Smaller(rules[c].used, rules[c].quota)
      BY <2>7 DEF ApplyWhole, WriteWhole
    <3>4. Owed(c) = 0 /\ rules[c].used = 0
      BY <1>1, <1>2, <3>1, <3>2
    <3>5. Owed(c)' = 0
      <4>1. \A f \in Files : Pending(f)' <= Pending(f)
        BY <1>4, <3>1 DEF Pending, NoFiles
      <4>2. Owed(c)' <= Owed(c) /\ Owed(c)' \in Nat
        BY <1>2, <3>1, <4>1, OwedFalls
      <4>3. QED
        BY <3>4, <4>2
    <3>6. QED
      BY <1>2, <1>3, <3>1, <3>2, <3>3, <3>4, <3>5 DEF Goal, Smaller
  <2>8. CASE DrainFails \/ ApplyFallsBack \/ ApplyFails
    BY <1>0, <2>8
  <2>9. QED
    BY <1>9, <2>1, <2>2, <2>3, <2>4, <2>5, <2>6, <2>7, <2>8 DEF Tick
<1>10. CASE Writer
  <2>1. CASE FlushTakes \/ LastFlushTakes
    <3>1. /\ UNCHANGED <<table, limit, tally, counter, drained, used>>
          /\ takenDevices' = devices /\ devices' = NoFiles /\ takenDevices = NoFiles
      BY <2>1 DEF FlushTakes, LastFlushTakes, Take, kernelVars, drainVars, dbVars, IdleHoldsNothing
    <3>2. \A f \in Files : Pending(f)' = Pending(f)
      BY <1>4, <3>1 DEF Pending, NoFiles
    <3>3. QED
      BY <1>6, <3>1, <3>2
  <2>2. CASE FlushCommits
    <3>1. UNCHANGED <<table, limit, tally>>
      BY <2>2 DEF FlushCommits, kernelVars
    <3>2. QED
      BY <1>5, <2>2, <3>1, OwedWritten
  <2>3. CASE FlushFails
    <3>1. /\ UNCHANGED <<table, limit, tally, counter, drained, used>>
          /\ devices' = Plus(devices, takenDevices) /\ takenDevices' = NoFiles
      BY <2>3 DEF FlushFails, kernelVars, drainVars, dbVars
    <3>2. \A f \in Files : devices'[f] = devices[f] + takenDevices[f] /\ takenDevices'[f] = 0
      BY <3>1 DEF Plus, NoFiles, TypeOK, WriterTypeOK
    <3>3. \A f \in Files : Pending(f)' = Pending(f)
      BY <1>4, <3>1, <3>2 DEF Pending
    <3>4. QED
      BY <1>6, <3>1, <3>3
  <2>4. QED
    BY <1>0, <1>10, <2>1, <2>2, <2>3 DEF Writer, AddNodeReport
<1>11. CASE Operator
  <2>1. \A d \in Clients : ~ResetWrites(d)
    BY <1>0 DEF InStep, ResetWrites, NoPlan
  <2>2. QED
    BY <1>0, <1>7, <1>11, <2>1 DEF Operator, BulkEnable, BulkDisable, TermEnds, EditOf,
       kernelVars, drainVars, bufferVars, flushVars
<1>12. CASE Process
  <2>1. up = "running"
    BY <1>0 DEF InStep
  <2>2. QED
    BY <1>0, <1>12, <2>1 DEF Process, Exit, Start
<1>13. CASE UNCHANGED vars
  BY <1>7, <1>13 DEF vars, kernelVars, drainVars, bufferVars, flushVars, dbVars
<1>14. QED
  BY <1>8, <1>9, <1>10, <1>11, <1>12, <1>13 DEF Next

\* At the start nothing has been carried.
LEMMA TallyStart == Init => \A c \in Clients : TallyLeads(c) /\ Owed(c) = 0
<1> SUFFICES ASSUME Init, NEW c \in Clients PROVE Owed(c) = 0 /\ ~table
  BY DEF TallyLeads
<1>1. \A f \in FilesOf(c) : [x \in Files |-> Pending(x)][f] = 0
  BY FilesOfFinite DEF Init, Pending, NoFiles
<1>2. Sum([x \in Files |-> Pending(x)], FilesOf(c)) = 0
  BY <1>1, FilesOfFinite, SumOfZeros
<1>3. QED
  BY <1>2 DEF Init, Owed, NoClients

\* Nobody has been served past their allowance.
NobodyBeyond == \A c \in Clients : quota[c] > 0 => Owed(c) <= quota[c]

\* The tally never passes the allowance, nor does what is owed pass the tally.
LEMMA TallyLeadsEnough ==
    ASSUME TypeOK, NEW c \in Clients, TallyLeads(c), quota[c] > 0
    PROVE  Owed(c) <= quota[c]
<1>1. Owed(c) \in Nat /\ quota[c] \in Nat /\ tally[c] \in Nat
  BY OwedNat DEF TypeOK, KernelTypeOK, DatabaseTypeOK
<1>2. QED
  BY <1>1 DEF TallyLeads

\* Where nothing fails but the database, and customers are only switched off and on
\* or run out of time, nobody gets past their allowance, as long as what they carry
\* is not further ahead of the usage stored than the drift margin (needsReseed).
THEOREM AllowanceHolds ==
    ASSUME Calm
    PROVE  Spec /\ [](\A c \in Clients : LagWithinMargin(c)) => []NobodyBeyond
<1>0. "period" \notin Allowed /\ "node" \notin Allowed
  BY DEF Calm
<1> DEFINE Leads == \A c \in Clients : TallyLeads(c)
           Lags == \A c \in Clients : LagWithinMargin(c)
<1>1. /\ TypeOK /\ TypeOK' /\ FilesAddUp /\ IdleHoldsNothing /\ (Quietly => InStep)
      /\ Leads /\ Lags /\ [Next]_vars
      => Leads'
  BY <1>0, TallyStep DEF Quietly
<1>2. TypeOK /\ Leads => NobodyBeyond
  BY TallyLeadsEnough DEF NobodyBeyond
<1>3. Init => Leads
  BY TallyStart
<1>4. Spec => []FilesAddUp
  BY <1>0, AddingUp
<1>5. Spec /\ []Lags => []NobodyBeyond
  <2> HIDE DEF Leads, Lags
  <2>1. QED
    BY <1>1, <1>2, <1>3, <1>4, StaysInStep, TypeCorrect, HandsEmpty, PTL DEF Spec
<1>6. QED
  BY <1>5

\* The margin is never passed by a customer whose whole allowance is within it
\* (driftKernelAheadMin, one gigabyte): there they never get past their allowance.
THEOREM SmallAllowanceHolds ==
    ASSUME Calm, \A c \in Clients : FirstQuota[c] + Near - 1 <= KernelAhead
    PROVE  Spec => []NobodyBeyond
<1>0. "period" \notin Allowed
  BY DEF Calm
<1> DEFINE Leads == \A c \in Clients : TallyLeads(c)
           Lags == \A c \in Clients : LagWithinMargin(c)
<1>1. TypeOK /\ (Quietly => InStep) /\ Leads => Lags
  <2> SUFFICES ASSUME TypeOK, InStep, NEW c \in Clients, TallyLeads(c), quota[c] > 0
               PROVE  Owed(c) + Near - 1 - rules[c].used <= Larger(KernelAhead, quota[c] \div 10)
    BY DEF LagWithinMargin, Quietly
  <2>1. /\ Owed(c) \in Nat /\ quota[c] \in Nat /\ rules[c].used \in Nat
        /\ Near \in Nat /\ KernelAhead \in Nat
        /\ quota[c] + Near - 1 <= KernelAhead
    BY OwedNat, MeteringAssumption DEF TypeOK, KernelTypeOK, TickTypeOK, DatabaseTypeOK, InStep
  <2>2. Owed(c) <= quota[c]
    BY TallyLeadsEnough
  <2>3. Owed(c) + Near - 1 - rules[c].used <= KernelAhead
    BY <2>1, <2>2
  <2>4. quota[c] \div 10 \in Nat
    BY <2>1
  <2>5. KernelAhead <= Larger(KernelAhead, quota[c] \div 10)
        /\ Larger(KernelAhead, quota[c] \div 10) \in Nat
    BY <2>1, <2>4 DEF Larger
  <2>6. QED
    BY <2>1, <2>3, <2>5
<1>2. Spec /\ []Lags => []NobodyBeyond
  BY AllowanceHolds
<1>3. /\ TypeOK /\ TypeOK' /\ FilesAddUp /\ IdleHoldsNothing /\ (Quietly => InStep)
      /\ Leads /\ [Next]_vars
      => Leads'
  <2>1. "node" \notin Allowed
    BY DEF Calm
  <2>2. QED
    BY <1>1, <2>1, TallyStep DEF Quietly
<1>4. Init => Leads
  BY TallyStart
<1>5. Spec => []FilesAddUp
  BY <1>0, AddingUp
<1> HIDE DEF Leads, Lags
<1>6. QED
  BY <1>1, <1>2, <1>3, <1>4, <1>5, StaysInStep, TypeCorrect, HandsEmpty, PTL DEF Spec

-----------------------------------------------------------------------------
(* The allowance, whatever makes the kernel's quota be written again.      *)

\* Customer c may be m past what the kernel enforces, and the kernel enforces no
\* more than their allowance; so does what is about to be written to it.
Overshoot(c, m) ==
    quota[c] > 0 =>
        /\ Owed(c) <= quota[c] + m
        /\ table => /\ 0 < limit[c] /\ limit[c] <= quota[c]
                    /\ tally[c] <= limit[c] /\ Owed(c) <= tally[c] + m
        /\ pc = "apply" => /\ 0 < rules[c].quota /\ rules[c].quota <= quota[c]
                           /\ Owed(c) <= rules[c].quota + m
                           /\ table => limit[c] <= rules[c].quota

\* A quota written again starts from the usage read, which trails by m at the most;
\* everything else the kernel counts towards it, and a reset, a loss or a crash only
\* takes away from what is owed (changeScript, BuildRuleset, chainRules).
LEMMA OvershootStep ==
    ASSUME "node" \notin Allowed, Raises \subseteq Nat, NEW m \in Nat, NEW c \in Clients,
           TypeOK, TypeOK', FilesAddUp, IdleHoldsNothing, TrailsBy(m), Overshoot(c, m),
           [Next]_vars
    PROVE  Overshoot(c, m)'
<1> DEFINE Goal == quota'[c] > 0 =>
                     /\ Owed(c)' <= quota'[c] + m
                     /\ table' => /\ 0 < limit'[c] /\ limit'[c] <= quota'[c]
                                  /\ tally'[c] <= limit'[c] /\ Owed(c)' <= tally'[c] + m
                     /\ pc' = "apply" => /\ 0 < rules'[c].quota /\ rules'[c].quota <= quota'[c]
                                         /\ Owed(c)' <= rules'[c].quota + m
                                         /\ table' => limit'[c] <= rules'[c].quota
<1> SUFFICES Goal
  BY DEF Overshoot
<1>1. quota[c] > 0 =>
        /\ Owed(c) <= quota[c] + m
        /\ table => /\ 0 < limit[c] /\ limit[c] <= quota[c]
                    /\ tally[c] <= limit[c] /\ Owed(c) <= tally[c] + m
        /\ pc = "apply" => /\ 0 < rules[c].quota /\ rules[c].quota <= quota[c]
                           /\ Owed(c) <= rules[c].quota + m
                           /\ table => limit[c] <= rules[c].quota
                           /\ Owed(c) - rules[c].used <= m
  BY DEF Overshoot, TrailsBy
<1>2. /\ Owed(c) \in Nat /\ used[c] \in Nat /\ quota[c] \in Nat /\ limit[c] \in Nat
      /\ tally[c] \in Nat /\ rules[c].used \in Nat /\ rules[c].quota \in Nat
  BY OwedNat DEF TypeOK, KernelTypeOK, TickTypeOK, DatabaseTypeOK
<1>3. Owed(c)' \in Nat /\ quota'[c] \in Nat
  <2>1. \A f \in FilesOf(c) : [x \in Files |-> Pending(x)'][f] \in Nat
    BY FilesOfFinite DEF Pending, TypeOK, KernelTypeOK, TickTypeOK, WriterTypeOK
  <2>2. Sum([x \in Files |-> Pending(x)'], FilesOf(c)) \in Nat
    BY <2>1, FilesOfFinite, SumOfNats
  <2>3. used'[c] \in Nat /\ quota'[c] \in Nat
    BY DEF TypeOK, DatabaseTypeOK
  <2>4. QED
    BY <2>2, <2>3 DEF Owed
<1>4. \A f \in Files : /\ counter[f] \in Nat /\ drained[f] \in Nat
                       /\ devices[f] \in Nat /\ takenDevices[f] \in Nat
                       /\ counter'[f] \in Nat /\ drained'[f] \in Nat
                       /\ devices'[f] \in Nat /\ takenDevices'[f] \in Nat
  BY DEF TypeOK, KernelTypeOK, TickTypeOK, WriterTypeOK
<1>5. ASSUME UNCHANGED <<table, limit, tally>>, quota'[c] = quota[c],
             pc' = "apply" => pc = "apply" /\ rules' = rules, Owed(c)' <= Owed(c)
      PROVE  Goal
  BY <1>1, <1>2, <1>3, <1>5
<1>6. ASSUME UNCHANGED <<table, limit, tally>>, quota'[c] = quota[c],
             pc' = "apply" => pc = "apply" /\ rules' = rules,
             used'[c] <= used[c], \A f \in Files : Pending(f)' <= Pending(f)
      PROVE  Goal
  BY <1>5, <1>6, OwedFalls
<1>7. ASSUME UNCHANGED <<table, limit, tally, quota, used, counter, drained, devices, takenDevices>>,
             pc' = "apply" => pc = "apply" /\ rules' = rules
      PROVE  Goal
  <2>1. \A f \in Files : Pending(f)' <= Pending(f)
    BY <1>4, <1>7 DEF Pending
  <2>2. QED
    BY <1>2, <1>6, <1>7, <2>1
<1>8. ASSUME UNCHANGED <<table, limit, tally, quota, pc, rules, used>>,
             \A f \in Files : Pending(f)' = Pending(f)
      PROVE  Goal
  <2>1. \A f \in Files : Pending(f)' <= Pending(f)
    BY <1>4, <1>8 DEF Pending
  <2>2. QED
    BY <1>2, <1>6, <1>8, <2>1
<1> HIDE DEF Goal
<1>9. CASE Kernel
  <2>1. ASSUME NEW f \in Files, NEW p \in Packets, PacketPasses(f, p) PROVE Goal
    <3>1. /\ table /\ UNCHANGED <<table, limit, quota, drained, devices, takenDevices, used, pc, rules>>
          /\ counter' = [counter EXCEPT ![f] = @ + p]
          /\ limit[Owner[f]] = 0 \/ tally[Owner[f]] + p <= limit[Owner[f]]
          /\ tally' = IF limit[Owner[f]] = 0 THEN tally ELSE [tally EXCEPT ![Owner[f]] = @ + p]
      BY <2>1 DEF PacketPasses, drainVars, evalVars, bufferVars, flushVars, dbVars
    <3>2. p \in Nat /\ counter \in [Files -> Nat] /\ tally \in [Clients -> Nat]
      BY MeteringAssumption DEF TypeOK, KernelTypeOK
    <3>3. Pending(f)' = Pending(f) + p /\ \A x \in Files : x # f => Pending(x)' = Pending(x)
      BY <1>4, <3>1, <3>2 DEF Pending
    <3>4. Owed(c)' = IF c = Owner[f] THEN Owed(c) + p ELSE Owed(c)
      BY <3>1, <3>2, <3>3, OwedRaised
    <3>5. CASE c = Owner[f]
      <4>1. quota[c] > 0 => tally'[c] = tally[c] + p /\ tally[c] + p <= limit[c]
        BY <1>1, <1>2, <3>1, <3>2, <3>5
      <4>2. QED
        BY <1>1, <1>2, <3>1, <3>2, <3>4, <3>5, <4>1 DEF Goal
    <3>6. CASE c # Owner[f]
      <4>1. tally'[c] = tally[c]
        BY <3>1, <3>2, <3>6
      <4>2. QED
        BY <1>1, <1>2, <3>1, <3>4, <3>6, <4>1 DEF Goal
    <3>7. QED
      BY <3>5, <3>6
  <2>2. ASSUME NEW f \in Files, NEW p \in Packets, PacketDropped(f, p) PROVE Goal
    <3>1. /\ UNCHANGED <<table, limit, quota, counter, drained, devices, takenDevices, used, pc, rules>>
          /\ tally[Owner[f]] < limit[Owner[f]]
          /\ tally' = [tally EXCEPT ![Owner[f]] = limit[Owner[f]]]
      BY <2>2 DEF PacketDropped, drainVars, evalVars, bufferVars, flushVars, dbVars
    <3>2. Owed(c)' = Owed(c)
      BY <3>1, OwedStays DEF Pending
    <3>3. tally'[c] = tally[c] \/ (tally'[c] = limit[c] /\ tally[c] < limit[c])
      BY <3>1 DEF TypeOK, KernelTypeOK
    <3>4. QED
      BY <1>1, <1>2, <3>1, <3>2, <3>3 DEF Goal
  <2>3. CASE TableWiped
    <3>1. /\ ~table' /\ counter' = NoFiles
          /\ UNCHANGED <<quota, drained, devices, takenDevices, used, pc, rules>>
      BY <2>3 DEF TableWiped, drainVars, evalVars, bufferVars, flushVars, dbVars
    <3>2. \A f \in Files : Pending(f)' <= Pending(f)
      BY <1>4, <3>1 DEF Pending, NoFiles
    <3>3. Owed(c)' <= Owed(c)
      BY <1>2, <3>1, <3>2, OwedFalls
    <3>4. QED
      BY <1>1, <1>2, <1>3, <3>1, <3>3 DEF Goal
  <2>4. QED
    BY <1>9, <2>1, <2>2, <2>3 DEF Kernel
<1>10. CASE Tick
  <2>1. ASSUME NEW f \in Files, DrainCounter(f) PROVE Goal
    <3>1. /\ UNCHANGED <<table, limit, tally, quota, pc, rules, devices, takenDevices, used>>
          /\ counter' = [counter EXCEPT ![f] = 0]
          /\ drained' = [drained EXCEPT ![f] = @ + counter[f]]
      BY <2>1 DEF DrainCounter, bufferVars, flushVars, dbVars
    <3>2. \A x \in Files : Pending(x)' = Pending(x)
      BY <1>4, <3>1 DEF Pending, TypeOK, KernelTypeOK, TickTypeOK
    <3>3. QED
      BY <1>8, <3>1, <3>2
  <2>2. ASSUME NEW d \in Clients, TickSubmit(d) PROVE Goal
    <3>1. /\ UNCHANGED <<table, limit, tally, quota, pc, rules, counter, takenDevices, used>>
          /\ devices' = [f \in Files |-> IF Owner[f] = d THEN devices[f] + drained[f]
                                                         ELSE devices[f]]
          /\ drained' = [f \in Files |-> IF Owner[f] = d THEN 0 ELSE drained[f]]
      BY <2>2 DEF TickSubmit, kernelVars, flushVars, dbVars
    <3>2. \A f \in Files : Pending(f)' = Pending(f)
      BY <1>4, <3>1 DEF Pending
    <3>3. QED
      BY <1>8, <3>1, <3>2
  <2>3. CASE DrainFails
    <3>1. /\ UNCHANGED <<table, limit, tally, quota, counter, devices, takenDevices, used>>
          /\ drained' = NoFiles
          /\ pc' = "apply" => pc = "apply" /\ rules' = rules
      BY <2>3 DEF DrainFails, PassEnds, kernelVars, bufferVars, flushVars, dbVars
    <3>2. \A f \in Files : Pending(f)' <= Pending(f)
      BY <1>4, <3>1 DEF Pending, NoFiles
    <3>3. QED
      BY <1>2, <1>6, <3>1, <3>2
  <2>4. CASE TickBegins \/ DrainDone \/ TickCounted \/ TickRenew \/ RenewDone \/ TickNear \/ TickAsk
    BY <1>7, <2>4 DEF TickBegins, DrainDone, TickCounted, TickRenew, RenewDone, TickNear, TickAsk,
       kernelVars, drainVars, bufferVars, flushVars, dbVars
  <2>5. CASE (\E d \in Clients : RenewOne(d)) \/ RenewFiles
    <3>1. /\ UNCHANGED <<table, limit, tally, quota, pc, rules, counter, drained, devices, takenDevices>>
          /\ used'[c] = used[c] \/ used'[c] = 0
      BY <2>5 DEF RenewOne, RenewFiles, kernelVars, drainVars, bufferVars, flushVars,
         TypeOK, DatabaseTypeOK
    <3>2. \A f \in Files : Pending(f)' <= Pending(f)
      BY <1>4, <3>1 DEF Pending
    <3>3. used'[c] <= used[c]
      BY <1>2, <3>1
    <3>4. QED
      BY <1>6, <3>1, <3>2, <3>3
  <2>6. CASE TickSweep \/ TickExpire \/ EvaluateGoesOn \/ TickFails \/ ApplyFails
    BY <1>7, <2>6 DEF TickSweep, TickExpire, EvaluateGoesOn, TickFails, ApplyFails, PassEnds,
       kernelVars, drainVars, bufferVars, flushVars, dbVars
  <2>7. CASE TickRead
    <3>1. /\ UNCHANGED <<table, limit, tally, quota, counter, drained, devices, takenDevices, used>>
          /\ rules'[c].quota = quota[c]
      BY <2>7 DEF TickRead, kernelVars, drainVars, bufferVars, flushVars, dbVars
    <3>2. Owed(c)' = Owed(c)
      BY <3>1, OwedStays DEF Pending
    <3>3. QED
      BY <1>1, <1>2, <3>1, <3>2 DEF Goal
  <2>8. ASSUME pc = "apply", pc' # "apply", table', UNCHANGED <<quota, drained, devices, takenDevices, used>>,
               limit'[c] = rules[c].quota,
               \/ tally'[c] = Smaller(rules[c].used, rules[c].quota)
               \/ table /\ tally'[c] = tally[c] /\ rules[c].quota = limit[c],
               counter' = counter \/ counter' = NoFiles
        PROVE  Goal
    <3>1. \A f \in Files : Pending(f)' <= Pending(f)
      BY <1>4, <2>8 DEF Pending, NoFiles
    <3>2. Owed(c)' <= Owed(c)
      BY <1>2, <2>8, <3>1, OwedFalls
    <3>3. CASE tally'[c] = Smaller(rules[c].used, rules[c].quota)
      <4>1. tally'[c] = IF rules[c].used <= rules[c].quota THEN rules[c].used ELSE rules[c].quota
        BY <3>3 DEF Smaller
      <4>2. QED
        BY <1>1, <1>2, <1>3, <2>8, <3>2, <4>1 DEF Goal
    <3>4. CASE table /\ tally'[c] = tally[c] /\ rules[c].quota = limit[c]
      BY <1>1, <1>2, <1>3, <2>8, <3>2, <3>4 DEF Goal
    <3>5. QED
      BY <2>8, <3>3, <3>4
  <2>9. CASE ApplyInPlace
    <3>1. /\ pc = "apply" /\ pc' # "apply" /\ table'
          /\ UNCHANGED <<table, quota, counter, drained, devices, takenDevices, used>>
          /\ limit'[c] = rules[c].quota
      BY <2>9 DEF ApplyInPlace, PassEnds, drainVars, bufferVars, flushVars, dbVars
    <3>2. \/ tally'[c] = Smaller(rules[c].used, rules[c].quota)
          \/ table /\ tally'[c] = tally[c] /\ rules[c].quota = limit[c]
      BY <2>9 DEF ApplyInPlace
    <3>3. QED
      BY <2>8, <3>1, <3>2
  <2>10. CASE ApplyWhole \/ ApplyFallsBack
    <3>1. /\ pc = "apply" /\ pc' # "apply" /\ table'
          /\ UNCHANGED <<quota, drained, devices, takenDevices, used>>
          /\ limit'[c] = rules[c].quota /\ counter' = NoFiles
          /\ tally'[c] = Smaller(rules[c].used, rules[c].quota)
      BY <2>10 DEF ApplyWhole, ApplyFallsBack, WriteWhole, PassEnds, drainVars, bufferVars,
         flushVars, dbVars
    <3>2. QED
      BY <2>8, <3>1
  <2>11. QED
    BY <1>10, <2>1, <2>2, <2>3, <2>4, <2>5, <2>6, <2>7, <2>9, <2>10 DEF Tick
<1>11. CASE Writer
  <2>1. CASE FlushTakes \/ LastFlushTakes
    <3>1. /\ UNCHANGED <<table, limit, tally, quota, pc, rules, counter, drained, used>>
          /\ takenDevices' = devices /\ devices' = NoFiles /\ takenDevices = NoFiles
      BY <2>1 DEF FlushTakes, LastFlushTakes, Take, kernelVars, drainVars, evalVars, dbVars,
         IdleHoldsNothing
    <3>2. \A f \in Files : Pending(f)' = Pending(f)
      BY <1>4, <3>1 DEF Pending, NoFiles
    <3>3. QED
      BY <1>8, <3>1, <3>2
  <2>2. CASE FlushCommits
    <3>1. UNCHANGED <<table, limit, tally, quota, pc, rules>>
      BY <2>2 DEF FlushCommits, kernelVars, evalVars
    <3>2. Owed(c)' = Owed(c)
      BY <2>2, OwedWritten
    <3>3. QED
      BY <1>2, <1>5, <3>1, <3>2
  <2>3. CASE FlushFails
    <3>1. /\ UNCHANGED <<table, limit, tally, quota, pc, rules, counter, drained, used>>
          /\ devices' = Plus(devices, takenDevices) /\ takenDevices' = NoFiles
      BY <2>3 DEF FlushFails, kernelVars, drainVars, evalVars, dbVars
    <3>2. \A f \in Files : devices'[f] = devices[f] + takenDevices[f] /\ takenDevices'[f] = 0
      BY <3>1 DEF Plus, NoFiles, TypeOK, WriterTypeOK
    <3>3. \A f \in Files : Pending(f)' = Pending(f)
      BY <1>4, <3>1, <3>2 DEF Pending
    <3>4. QED
      BY <1>8, <3>1, <3>3
  <2>4. QED
    BY <1>11, <2>1, <2>2, <2>3 DEF Writer, AddNodeReport
<1>12. CASE Operator
  <2>1. ASSUME NEW S \in SUBSET Clients \ {{}},
               BulkReset(S) \/ BulkEnable(S) \/ BulkDisable(S)
        PROVE  Goal
    <3>1. /\ UNCHANGED <<table, limit, tally, quota, pc, rules, counter, drained, devices, takenDevices>>
          /\ used'[c] = used[c] \/ used'[c] = 0
      BY <2>1 DEF BulkReset, BulkEnable, BulkDisable, EditOf, kernelVars, drainVars, evalVars,
         bufferVars, flushVars
    <3>2. used'[c] <= used[c] /\ \A f \in Files : Pending(f)' <= Pending(f)
      BY <1>2, <1>4, <3>1 DEF Pending
    <3>3. QED
      BY <1>6, <3>1, <3>2
  <2>2. ASSUME NEW S \in SUBSET Clients \ {{}}, NEW d \in Raises, ExtendTraffic(S, d) PROVE Goal
    <3>1. UNCHANGED <<table, limit, tally, pc, rules, counter, drained, devices, takenDevices, used>>
      BY <2>2 DEF ExtendTraffic, EditOf, kernelVars, drainVars, evalVars, bufferVars, flushVars
    <3>2. Owed(c)' = Owed(c)
      BY <3>1, OwedStays DEF Pending
    <3>3. quota'[c] = IF c \in S /\ quota[c] > 0 THEN Larger(quota[c] + d, Larger(used[c], 1))
                                                ELSE quota[c]
      BY <2>2 DEF ExtendTraffic
    <3>4. quota[c] <= quota'[c] /\ (quota'[c] > 0 => quota[c] > 0)
      <4>1. d \in Nat
        OBVIOUS
      <4>2. QED
        BY <1>2, <3>3, <4>1 DEF Larger
    <3>5. QED
      BY <1>1, <1>2, <1>3, <3>1, <3>2, <3>4 DEF Goal
  <2>3. ASSUME NEW d \in Clients, ResetReads(d) \/ PeriodEnds(d) \/ TermEnds(d) PROVE Goal
    BY <1>7, <2>3 DEF ResetReads, PeriodEnds, TermEnds, EditOf, kernelVars, drainVars, evalVars,
       bufferVars, flushVars, dbVars
  <2>4. ASSUME NEW d \in Clients, ResetWrites(d) PROVE Goal
    <3>1. /\ UNCHANGED <<table, limit, tally, quota, pc, rules, counter, drained, devices, takenDevices>>
          /\ used'[c] = used[c] \/ used'[c] = 0
      BY <2>4 DEF ResetWrites, kernelVars, drainVars, evalVars, bufferVars, flushVars,
         TypeOK, DatabaseTypeOK
    <3>2. used'[c] <= used[c] /\ \A f \in Files : Pending(f)' <= Pending(f)
      BY <1>2, <1>4, <3>1 DEF Pending
    <3>3. QED
      BY <1>6, <3>1, <3>2
  <2>5. QED
    BY <1>12, <2>1, <2>2, <2>3, <2>4 DEF Operator
<1>13. CASE Process
  <2>1. CASE Crash \/ Exit
    <3>1. /\ UNCHANGED <<table, limit, tally, quota, counter, used>> /\ pc' # "apply"
          /\ drained' = NoFiles /\ devices' = NoFiles /\ takenDevices' = NoFiles
      BY <2>1 DEF Crash, Exit, ProcessGone, PassEnds, kernelVars, dbVars
    <3>2. \A f \in Files : Pending(f)' <= Pending(f)
      BY <1>4, <3>1 DEF Pending, NoFiles
    <3>3. QED
      BY <1>2, <1>6, <3>1, <3>2
  <2>2. CASE Stop \/ Start
    BY <1>7, <2>2 DEF Stop, Start, kernelVars, drainVars, evalVars, bufferVars, flushVars, dbVars
  <2>3. QED
    BY <1>13, <2>1, <2>2 DEF Process
<1>14. CASE UNCHANGED vars
  BY <1>7, <1>14 DEF vars, kernelVars, drainVars, evalVars, bufferVars, flushVars, dbVars
<1>15. QED
  BY <1>9, <1>10, <1>11, <1>12, <1>13, <1>14 DEF Next

\* Where usage trails by m, the drift margin covers it for customer c.
Fits(c, m) == m + Near - 1 <= Larger(KernelAhead, FirstQuota[c] \div 10)

\* On one server, whatever is reset or raised, whatever fails and however often the
\* quota is written again, nobody gets more past their allowance than the usage it is
\* written from trails by; and nothing at all before the first edit or fault, as long
\* as the drift margin covers that and one packet (needsReseed).
THEOREM AllowanceKept ==
    ASSUME "node" \notin Allowed, "period" \notin Allowed, Raises \subseteq Nat
    PROVE  Spec => WithinAllowance
<1> DEFINE Kept(m) == \A c \in Clients : Overshoot(c, m)
           Sharp(m) == \A c \in Clients : Quietly /\ Fits(c, m) => TallyLeads(c)
           Bound(m) == \A c \in Clients : quota[c] > 0 => Owed(c) <= quota[c] + Again(c, m)
<1>1. ASSUME NEW m \in 0 .. MaxTrail
      PROVE  Spec => ([]TrailsBy(m) => []Bound(m))
  <2>0. m \in Nat
    BY MeteringAssumption
  <2>1. Init => Kept(m) /\ Sharp(m)
    <3> SUFFICES ASSUME Init, NEW c \in Clients PROVE Overshoot(c, m) /\ TallyLeads(c)
      OBVIOUS
    <3>1. Owed(c) = 0 /\ TallyLeads(c) /\ ~table /\ pc # "apply" /\ quota[c] \in Nat
      BY TallyStart, MeteringAssumption DEF Init
    <3>2. QED
      BY <2>0, <3>1 DEF Overshoot
  <2>2. /\ TypeOK /\ TypeOK' /\ FilesAddUp /\ IdleHoldsNothing /\ TrailsBy(m)
        /\ Kept(m) /\ [Next]_vars
        => Kept(m)'
    BY <2>0, OvershootStep
  <2>3. /\ TypeOK /\ TypeOK' /\ FilesAddUp /\ IdleHoldsNothing /\ (Quietly => InStep)
        /\ TrailsBy(m) /\ Sharp(m) /\ [Next]_vars
        => Sharp(m)'
    <3> SUFFICES ASSUME TypeOK, TypeOK', FilesAddUp, IdleHoldsNothing, Quietly => InStep,
                        TrailsBy(m), Sharp(m), [Next]_vars,
                        NEW c \in Clients, Quietly', Fits(c, m)
                 PROVE  TallyLeads(c)'
      BY DEF Fits
    <3>1. Quietly /\ InStep
      BY QuietSteps
    <3>2. LagWithinMargin(c)
      <4> SUFFICES ASSUME pc = "apply", quota[c] > 0
                   PROVE  Owed(c) + Near - 1 - rules[c].used <= Larger(KernelAhead, quota[c] \div 10)
        BY DEF LagWithinMargin
      <4>1. Owed(c) - rules[c].used <= m
        BY DEF TrailsBy
      <4>2. m + Near - 1 <= Larger(KernelAhead, quota[c] \div 10)
        BY <3>1 DEF Fits, InStep
      <4>3. Owed(c) \in Nat /\ rules[c].used \in Nat /\ quota[c] \in Nat /\ KernelAhead \in Nat
            /\ Near \in Nat
        BY OwedNat, MeteringAssumption DEF TypeOK, TickTypeOK, DatabaseTypeOK
      <4>4. Larger(KernelAhead, quota[c] \div 10) \in Nat
        BY <4>3 DEF Larger
      <4> DEFINE margin == Larger(KernelAhead, quota[c] \div 10)
      <4> HIDE DEF margin
      <4>5. margin \in Nat /\ m + Near - 1 <= margin
        BY <4>2, <4>4 DEF margin
      <4>6. Owed(c) + Near - 1 - rules[c].used <= margin
        BY <2>0, <4>1, <4>3, <4>5
      <4>7. QED
        BY <4>6 DEF margin
    <3>3. QED
      BY <3>1, <3>2, TallyStep
  <2>4. TypeOK /\ (Quietly => InStep) /\ Kept(m) /\ Sharp(m) => Bound(m)
    <3> SUFFICES ASSUME TypeOK, Quietly => InStep, Kept(m), Sharp(m),
                        NEW c \in Clients, quota[c] > 0
                 PROVE  Owed(c) <= quota[c] + Again(c, m)
      OBVIOUS
    <3>1. CASE edits = 0 /\ faults = 0 /\ m + Near - 1 <= Larger(KernelAhead, quota[c] \div 10)
      <4>1. InStep /\ Quietly
        BY <3>1 DEF Quietly
      <4>2. TallyLeads(c)
        BY <3>1, <4>1 DEF InStep, Fits
      <4>3. Owed(c) <= quota[c]
        BY <4>2, TallyLeadsEnough
      <4>4. Again(c, m) = 0 /\ quota[c] \in Nat
        BY <3>1 DEF Again, TypeOK, DatabaseTypeOK
      <4>5. QED
        BY <4>3, <4>4
    <3>2. CASE ~(edits = 0 /\ faults = 0 /\ m + Near - 1 <= Larger(KernelAhead, quota[c] \div 10))
      BY <3>2 DEF Again, Overshoot
    <3>3. QED
      BY <3>1, <3>2
  <2>5. Spec => []FilesAddUp
    BY AddingUp
  <2> HIDE DEF Kept, Sharp, Bound
  <2>6. QED
    BY <2>1, <2>2, <2>3, <2>4, <2>5, StaysInStep, TypeCorrect, HandsEmpty, PTL DEF Spec
<1>2. QED
  BY <1>1 DEF WithinAllowance

=============================================================================
