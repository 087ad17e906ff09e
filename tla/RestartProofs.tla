------------------------------ MODULE RestartProofs ------------------------------
(***************************************************************************)
(* What a restart may not undo.  The gateways' replay rule, for any        *)
(* openings, readers, window, steps and cache, and whatever crashes, fails *)
(* or is lost; and a restore (Upkeep, the instance U), however many        *)
(* restores, requests and crashes there are and whatever the files:        *)
(* whenever the panel serves, its data is all of one state, but for a      *)
(* database that refused the archive's dump, as long as no restore is      *)
(* asked for while one is about to be applied.                             *)
(***************************************************************************)
EXTENDS Replay, FiniteSetTheorems, TLAPS

-----------------------------------------------------------------------------
(* The cache.                                                              *)

\* Expiring drops salts only.
LEMMA ExpireFits ==
  ASSUME NEW S \in SUBSET Openings, Cardinality(S) <= CacheMax, NEW now
  PROVE  /\ ExpireLocked(S, now) \subseteq S
         /\ Cardinality(ExpireLocked(S, now)) <= Cardinality(S)
         /\ Cardinality(ExpireLocked(S, now)) <= CacheMax
<1>1. IsFiniteSet(S) /\ Cardinality(S) \in Nat
  BY FS_Subset, FS_CardinalityType, ReplayAssumption
<1>2. ExpireLocked(S, now) \subseteq S
  BY DEF ExpireLocked
<1>3. Cardinality(ExpireLocked(S, now)) <= Cardinality(S)
  BY <1>1, <1>2, FS_Subset
<1>4. Cardinality(ExpireLocked(S, now)) \in Nat
  BY <1>1, <1>2, FS_Subset, FS_CardinalityType
<1>5. QED
  BY <1>1, <1>2, <1>3, <1>4, ReplayAssumption

\* Recording keeps to the cache's limit, and below it does record.
LEMMA RecordFits ==
  ASSUME NEW S \in SUBSET Openings, Cardinality(S) <= CacheMax,
         NEW o \in Openings
  PROVE  /\ Recorded(S, o) \in SUBSET Openings
         /\ Cardinality(Recorded(S, o)) <= CacheMax
         /\ S \subseteq Recorded(S, o)
         /\ Cardinality(S) < CacheMax => o \in Recorded(S, o)
<1>1. IsFiniteSet(S) /\ Cardinality(S) \in Nat
  BY FS_Subset, FS_CardinalityType, ReplayAssumption
<1>2. Cardinality(S \cup {o}) \in {Cardinality(S), Cardinality(S) + 1}
  BY <1>1, FS_AddElement
<1>3. QED
  BY <1>1, <1>2, ReplayAssumption DEF Recorded

\* A judgement drops salts only, of openings the window is past.
LEMMA JudgedFits ==
  ASSUME TypeOK, NEW o, NEW now
  PROVE  /\ SaltsJudged(o, now) \in SUBSET Openings
         /\ SaltsJudged(o, now) \subseteq salts
         /\ Cardinality(SaltsJudged(o, now)) <= CacheMax
BY ExpireFits DEF TypeOK, SaltsJudged, Room

-----------------------------------------------------------------------------
(* Types.                                                                  *)

LEMMA ReaderParts ==
  ASSUME NEW x \in ReaderTypes, x.at # "idle"
  PROVE  /\ x.of \in Openings /\ x.now \in Nat
         /\ x.at \in {"judge", "judged", "wait"}
         /\ \A where \in {"judge", "judged", "wait"} :
                [x EXCEPT !.at = where] \in ReaderTypes
BY DEF ReaderTypes

LEMMA TickParts ==
  ASSUME NEW x \in TickTypes
  PROVE  /\ x.at \in {"expire", "write", "written"} => x.now \in Nat
         /\ x.at \in {"write", "written"} => x.want \in Nat
         /\ x.at = "write" => [x EXCEPT !.at = "written"] \in TickTypes
BY DEF TickTypes

LEMMA DueType ==
  ASSUME TypeOK
  PROVE  Due(clock) \in Nat /\ Due(clock) <= clock + Window + LimitStep
         /\ (Due(clock) # 0 => limit < Due(clock))
<1>1. clock \in Nat /\ limit \in Nat /\ askLimit \in Nat
  BY DEF TypeOK
<1>2. QED
  BY <1>1, ReplayAssumption DEF Due, Larger, Fewer

LEMMA TypeInit == Init => TypeOK
BY ReplayAssumption, FS_EmptySet
   DEF Init, TypeOK, Limits, NoLimit, TickTypes, ReaderTypes, Idle

LEMMA TypeStep == TypeOK /\ [Next]_vars => TypeOK'
<1> SUFFICES ASSUME TypeOK, [Next]_vars PROVE TypeOK'
  OBVIOUS
<1> USE ReplayAssumption
<1> Idle \in ReaderTypes /\ Idle \in TickTypes
  BY DEF Idle, ReaderTypes, TickTypes
<1>1. CASE ClockMoves
  BY <1>1 DEF ClockMoves, TypeOK, gateway, history
<1>2. CASE Listen
  <2>1. tick' \in TickTypes
    BY <1>2 DEF Listen, TickTypes
  <2>2. floor' \in Nat /\ limit' \in Nat
    BY <1>2 DEF Listen, OpenReplay, TypeOK, Limits, NoLimit
  <2>3. QED
    BY <1>2, <2>1, <2>2, FS_EmptySet DEF Listen, OpenReplay, TypeOK
<1>3. CASE Crash
  BY <1>3, FS_EmptySet DEF Crash, Fault, TypeOK
<1>4. CASE FileLost
  BY <1>4 DEF FileLost, Fault, TypeOK, Limits, gateway
<1>5. CASE TickStarts
  <2>1. tick' \in TickTypes
    BY <1>5 DEF TickStarts, TickTypes
  <2>2. QED
    BY <1>5, <2>1 DEF TickStarts, TypeOK, gateway, history
<1>6. CASE WriteDue
  <2>1. tick' \in TickTypes
    BY <1>6, DueType DEF WriteDue, TickTypes, TypeOK
  <2>2. QED
    BY <1>6, <2>1 DEF WriteDue, TypeOK, history
<1>7. CASE WriteLimit
  <2>1. tick' \in TickTypes /\ disk' \in Limits
    BY <1>7, TickParts DEF WriteLimit, TypeOK, Limits
  <2>2. QED
    BY <1>7, <2>1 DEF WriteLimit, TypeOK, gateway, history
<1>8. CASE InForce
  <2>1. tick' \in TickTypes /\ limit' \in Nat
    <3>1. tick.now \in Nat /\ tick.want \in Nat /\ limit \in Nat
      BY <1>8, TickParts DEF InForce, TypeOK
    <3>2. QED
      BY <1>8, <3>1 DEF InForce, TickTypes, Larger
  <2>2. QED
    BY <1>8, <2>1 DEF InForce, TypeOK, history
<1>9. CASE WriteFails
  <2>1. tick' \in TickTypes
    <3>1. tick.now \in Nat
      BY <1>9, TickParts DEF WriteFails, TypeOK
    <3>2. QED
      BY <1>9, <3>1 DEF WriteFails, TickTypes
  <2>2. QED
    BY <1>9, <2>1 DEF WriteFails, Fault, TypeOK, gateway
<1>10. CASE TickExpires
  BY <1>10, ExpireFits DEF TickExpires, TypeOK, history
<1>11. ASSUME NEW r \in Readers, NEW o \in Openings, Receive(r, o)
       PROVE  TypeOK'
  <2>1. [at |-> "judge", of |-> o, now |-> clock] \in ReaderTypes
    BY DEF ReaderTypes, TypeOK
  <2>2. QED
    BY <1>11, <2>1 DEF Receive, TypeOK, gateway, history
<1>12. ASSUME NEW r \in Readers, Reader(r) PROVE TypeOK'
  <2> DEFINE o == reader[r].of
  <2>1. /\ reader[r] \in ReaderTypes /\ reader[r].at # "idle"
        /\ o \in Openings /\ reader[r].now \in Nat
        /\ \A where \in {"judge", "judged", "wait"} :
              [reader[r] EXCEPT !.at = where] \in ReaderTypes
    BY <1>12, ReaderParts
       DEF TypeOK, Reader, Judge, JudgeAgain, Refuse, Record, Claim
  <2>2. \A now : /\ SaltsJudged(o, now) \in SUBSET Openings
                 /\ Cardinality(SaltsJudged(o, now)) <= CacheMax
                 /\ Recorded(SaltsJudged(o, now), o) \in SUBSET Openings
                 /\ Cardinality(Recorded(SaltsJudged(o, now), o)) <= CacheMax
    BY <2>1, JudgedFits, RecordFits
  <2>3. /\ salts \in SUBSET Openings /\ Cardinality(salts) <= CacheMax
        /\ Recorded(salts, o) \in SUBSET Openings
        /\ Cardinality(Recorded(salts, o)) <= CacheMax
    BY <2>1, RecordFits DEF TypeOK
  <2>4. salts' \in SUBSET Openings /\ Cardinality(salts') <= CacheMax
    BY <1>12, <2>2, <2>3
       DEF Reader, Judge, JudgeAgain, Refuse, Record, Claim, MaySpend
  <2>5. reader' \in [Readers -> ReaderTypes]
    BY <1>12, <2>1 DEF TypeOK, Reader, Judge, JudgeAgain, Refuse, Record,
                       Claim, Goes, Done
  <2>6. askLimit' \in Nat
    BY <1>12, <2>1 DEF TypeOK, Reader, Judge, JudgeAgain, Refuse, Record,
                       Claim, Larger
  <2>7. /\ UNCHANGED <<streams, clock, disk, status, floor, limit, tick, startedAt, faults>>
        /\ opened' \subseteq Openings /\ again' \subseteq Openings
    BY <1>12, <2>1 DEF TypeOK, Reader, Judge, JudgeAgain, Refuse, Record,
                       Claim, Opens, history
  <2>8. QED
    BY <2>4, <2>5, <2>6, <2>7 DEF TypeOK
<1>13. CASE UNCHANGED vars
  BY <1>13 DEF vars, gateway, history, TypeOK
<1>14. QED
  BY <1>1, <1>2, <1>3, <1>4, <1>5, <1>6, <1>7, <1>8, <1>9, <1>10, <1>11,
     <1>12, <1>13 DEF Next, Ticker, Active

\* Every variable keeps its type and the cache its limit, with any number of
\* readers spending and claiming at once (replay.go, recordLocked).
THEOREM TypeCorrect == Spec => []TypeOK
BY TypeInit, TypeStep, PTL DEF Spec

-----------------------------------------------------------------------------
(* No opening twice.                                                       *)

\* A look at the clock the ticker still holds is not ahead of the clock, and
\* a raise it writes or has written is above the limit and within bounds.
TickerOK ==
    /\ tick.at \in {"expire", "write", "written"} => tick.now <= clock
    /\ tick.at \in {"write", "written"} =>
          limit <= tick.want /\ tick.want <= clock + Window + LimitStep
    /\ tick.at = "written" => disk \in {NoLimit, tick.want}

\* An opening the rule would still accept.
Acceptable(o) == /\ Stamp[o] > floor /\ Stamp[o] <= limit
                 /\ Stamp[o] + Window >= clock
                 /\ Stamp[o] <= clock + Window

\* What a reader carries: its look at the clock is a true one until it has
\* judged, and what it judged is acceptable still.
ReaderOK ==
    \A r \in Readers :
        /\ reader[r].at = "judge" => reader[r].now = clock
        /\ reader[r].at # "idle" => reader[r].now <= clock
        /\ reader[r].at = "judged" =>
              /\ Acceptable(reader[r].of)
              /\ ~streams => /\ reader[r].of \notin opened
                             /\ Cardinality(salts) < CacheMax

\* What has started a session is covered: by the window, by the file, and in
\* a run by the limit and, above the floor, by the cache.
Covered ==
    \A o \in opened :
        /\ Stamp[o] <= clock + Window
        /\ disk # NoLimit => Stamp[o] <= disk
        /\ status # "down" => Stamp[o] <= limit
        /\ status # "down" /\ Stamp[o] > floor /\ Stamp[o] + Window >= clock
              => o \in salts

\* Only the one reader of a datagram gateway works.
OthersIdle == \A r \in Readers \ Active : reader[r].at = "idle"

\* The limits are in order: floor, limit, file.
LimitsOK ==
    /\ disk <= clock + Window + LimitStep
    /\ startedAt <= clock
    /\ status # "down" => /\ floor <= limit
                          /\ disk # NoLimit => limit <= disk
                          /\ floor <= startedAt + Window + LimitStep
    /\ status = "down" => tick.at = "idle"
    /\ status # "serving" => \A r \in Readers : reader[r].at = "idle"

ReplayInv == TypeOK /\ TickerOK /\ ReaderOK /\ OthersIdle /\ Covered /\ LimitsOK /\ again = {}

\* What a verdict says.
LEMMA Judged ==
  ASSUME TypeOK, NEW o \in Openings, NEW now \in Nat
  PROVE  /\ Verdict(o, now) = "accepted" =>
              /\ Stamp[o] + Window >= now /\ Stamp[o] <= now + Window
              /\ Stamp[o] > floor /\ Stamp[o] <= limit /\ o \notin salts
              /\ Cardinality(SaltsJudged(o, now)) < CacheMax
         /\ \A p \in salts : Stamp[p] + Window >= now => p \in SaltsJudged(o, now)
<1> USE ReplayAssumption
<1>1. floor \in Nat /\ limit \in Nat /\ Stamp[o] \in Nat /\ salts \subseteq Openings
  BY DEF TypeOK
<1>2. Cardinality(salts) \in Nat /\ Cardinality(Room(now)) \in Nat
  <2>1. IsFiniteSet(salts) /\ Room(now) \subseteq salts
    BY <1>1, FS_Subset DEF Room, ExpireLocked
  <2>2. QED
    BY <2>1, FS_Subset, FS_CardinalityType
<1>3. ASSUME Verdict(o, now) = "accepted"
      PROVE  /\ InWindow(o, now) /\ Stamp[o] > floor /\ Stamp[o] <= limit
             /\ o \notin salts /\ Cardinality(Room(now)) < CacheMax
  BY <1>1, <1>2, <1>3 DEF Verdict, JudgeLocked
<1>4. ASSUME NEW p \in salts, Stamp[p] + Window >= now
      PROVE  p \in SaltsJudged(o, now)
  BY <1>4 DEF SaltsJudged, Room, ExpireLocked
<1>5. QED
  BY <1>3, <1>4 DEF SaltsJudged, InWindow

\* A reader's step keeps the invariant: what it takes is acceptable and was
\* never taken, and what it took is in the cache.
LEMMA ReaderStep ==
  ASSUME ReplayInv, NEW r \in Active, Reader(r)
  PROVE  TickerOK' /\ ReaderOK' /\ Covered' /\ LimitsOK' /\ (again = {})'
<1> USE ReplayAssumption
<1> DEFINE o == reader[r].of
           now == reader[r].now
<1>0. r \in Readers
  BY DEF Active
<1>1. /\ TypeOK /\ TickerOK /\ ReaderOK /\ Covered /\ LimitsOK /\ again = {}
      /\ clock \in Nat /\ floor \in Nat /\ limit \in Nat
      /\ opened \subseteq Openings /\ salts \subseteq Openings
      /\ \A x \in Openings : Stamp[x] \in Nat
      /\ reader \in [Readers -> ReaderTypes] /\ Idle.at = "idle" /\ r \in Readers
  BY <1>0 DEF ReplayInv, TypeOK, Idle
<1>2. /\ reader[r].at # "idle" /\ reader[r] \in ReaderTypes
      /\ o \in Openings /\ now \in Nat /\ now <= clock
  <2>1. reader[r].at # "idle"
    BY DEF Reader, Judge, JudgeAgain, Refuse, Record, Claim
  <2>2. QED
    BY <1>0, <1>1, <2>1, ReaderParts DEF ReaderOK
<1>3. status = "serving"
  BY <1>1, <1>2 DEF LimitsOK, TypeOK
<1>4. /\ UNCHANGED <<streams, clock, disk, status, floor, limit, tick, startedAt, faults>>
      /\ \A s \in Readers \ {r} : reader'[s] = reader[s]
      /\ reader'[r] = Idle \/ reader'[r] = [reader[r] EXCEPT !.at = reader'[r].at]
  BY <1>0, <1>1 DEF Reader, Judge, JudgeAgain, Refuse, Record, Claim, Goes, Done, history
<1>5. TickerOK'
  BY <1>1, <1>4 DEF TickerOK
<1>6. LimitsOK'
  BY <1>1, <1>3, <1>4 DEF LimitsOK
\* The cache keeps what could still be accepted.
<1>7. \A p \in salts : Stamp[p] + Window >= clock => p \in salts'
  <2>1. \A n \in {now, clock} : \A p \in salts :
           Stamp[p] + Window >= clock => p \in SaltsJudged(o, n)
    BY <1>1, <1>2, Judged
  <2>2. \A n \in {now, clock} :
           /\ SaltsJudged(o, n) \subseteq Recorded(SaltsJudged(o, n), o)
           /\ salts \subseteq Recorded(salts, o)
    BY DEF Recorded
  <2>3. salts' \in {salts, Recorded(salts, o)} \cup
            UNION {{SaltsJudged(o, n), Recorded(SaltsJudged(o, n), o)} : n \in {now, clock}}
    BY DEF Reader, Judge, JudgeAgain, Refuse, Record, Claim, MaySpend
  <2>4. QED
    BY <2>1, <2>2, <2>3
\* The readers this one is not are those of a stream gateway.
<1>8. \A s \in Readers \ {r} : streams \/ reader[s].at = "idle"
  BY DEF ReplayInv, OthersIdle, Active
\* The reader has taken the opening, or the history is what it was.
<1>9. CASE Opens(o) /\ ~(UNCHANGED <<opened, again>>)
  <2>1. /\ Acceptable(o) /\ o \notin opened /\ o \in salts' /\ Done(r)
    <3>1. CASE Record(r)
      <4>1. /\ Acceptable(o) /\ o \notin opened /\ Cardinality(salts) < CacheMax
        BY <3>1, <1>1 DEF Record, ReaderOK
      <4>2. o \in salts'
        BY <3>1, <4>1, <1>1, <1>2, RecordFits DEF Record, TypeOK
      <4>3. QED
        BY <3>1, <4>1, <4>2 DEF Record
    <3>2. CASE Claim(r)
      <4>1. /\ Verdict(o, now) = "accepted"
            /\ salts' = Recorded(SaltsJudged(o, now), o)
        BY <3>2, <1>9 DEF Claim
      <4>2. /\ Stamp[o] > floor /\ Stamp[o] <= limit /\ o \notin salts
            /\ Cardinality(SaltsJudged(o, now)) < CacheMax
        BY <4>1, <1>1, <1>2, Judged
      <4>3. Acceptable(o)
        BY <3>2, <1>1 DEF Claim, ReaderOK
      <4>4. o \notin opened
        BY <4>2, <4>3, <1>1, <1>3 DEF Covered, Acceptable
      <4>5. o \in salts'
        BY <4>1, <4>2, <1>1, <1>2, JudgedFits, RecordFits
      <4>6. QED
        BY <3>2, <4>3, <4>4, <4>5 DEF Claim
    <3>3. QED
      BY <1>9, <3>1, <3>2 DEF Reader, Judge, JudgeAgain, Refuse, history
  <2>2. again' = {}
    BY <2>1, <1>1, <1>9 DEF Opens
  <2>3. Covered'
    <3>1. disk # NoLimit => Stamp[o] <= disk
      BY <2>1, <1>1, <1>2, <1>3 DEF Acceptable, LimitsOK, NoLimit, TypeOK, Limits
    <3>2. QED
      BY <2>1, <1>1, <1>2, <1>3, <1>4, <1>7, <1>9, <3>1
         DEF Covered, Opens, Acceptable
  <2>4. ReaderOK'
    BY <2>1, <1>1, <1>2, <1>4, <1>8 DEF ReaderOK, Done, Acceptable
  <2>5. QED
    BY <1>5, <1>6, <2>2, <2>3, <2>4
<1>10. CASE UNCHANGED <<opened, again>>
  <2>1. Covered'
    BY <1>10, <1>1, <1>3, <1>4, <1>7 DEF Covered
  <2>2. ReaderOK'
    <3>1. ASSUME reader'[r].at = "judged"
          PROVE  /\ Acceptable(o)
                 /\ ~streams => o \notin opened /\ Cardinality(salts') < CacheMax
      <4>1. \E n \in {now, clock} :
               /\ Verdict(o, n) = "accepted" /\ salts' = SaltsJudged(o, n)
               /\ n = clock
        <5>1. Judge(r) \/ JudgeAgain(r)
          BY <3>1, <1>1 DEF Reader, Refuse, Record, Claim, Done
        <5>2. CASE Judge(r)
          <6>1. now = clock
            BY <5>2, <1>1 DEF Judge, ReaderOK
          <6>2. ~Done(r) /\ ~Goes(r, "wait")
            BY <3>1, <1>1, <1>2 DEF Done, Goes, ReaderTypes
          <6>3. Verdict(o, now) = "accepted" /\ salts' = SaltsJudged(o, now)
            BY <5>2, <6>2 DEF Judge
          <6>4. QED
            BY <6>1, <6>3
        <5>3. CASE JudgeAgain(r)
          BY <5>3, <3>1, <1>1 DEF JudgeAgain, Done, Goes
        <5>4. QED
          BY <5>1, <5>2, <5>3
      <4>2. /\ Stamp[o] + Window >= clock /\ Stamp[o] <= clock + Window
            /\ Stamp[o] > floor /\ Stamp[o] <= limit /\ o \notin salts
            /\ Cardinality(salts') < CacheMax
        BY <4>1, <1>1, <1>2, Judged
      <4>3. o \notin opened
        BY <4>2, <1>1, <1>3 DEF Covered
      <4>4. QED
        BY <4>2, <4>3 DEF Acceptable
    <3>2. reader'[r].at # "idle" => reader'[r].of = o /\ reader'[r].now = now
      BY <1>1, <1>2, <1>4 DEF ReaderTypes, Idle
    <3>3. reader'[r].at # "judge"
      BY <1>1, <1>2 DEF Reader, Judge, JudgeAgain, Refuse, Record, Claim,
         Goes, Done, ReaderTypes
    <3>4. QED
      BY <1>1, <1>2, <1>4, <1>8, <1>10, <3>1, <3>2, <3>3 DEF ReaderOK, Acceptable
  <2>3. QED
    BY <1>1, <1>5, <1>6, <1>10, <2>1, <2>2
<1>11. QED
  BY <1>9, <1>10 DEF Reader, Judge, JudgeAgain, Refuse, Record, Claim, history

\* A reader that is not one of this gateway's stays out of it.
LEMMA OthersStayIdle ==
  ASSUME TypeOK, OthersIdle, [Next]_vars
  PROVE  OthersIdle'
<1>1. streams' = streams
  BY DEF Next, vars, ClockMoves, Listen, Crash, FileLost, Ticker, TickStarts, WriteDue,
     WriteLimit, InForce, WriteFails, TickExpires, Receive, Reader, Judge, JudgeAgain,
     Refuse, Record, Claim
<1>2. CASE Crash
  BY <1>1, <1>2 DEF Crash, OthersIdle, Active, Idle
<1>3. ASSUME NEW r \in Active, Reader(r) \/ \E o \in Openings : Receive(r, o)
      PROVE  OthersIdle'
  <2>1. \A s \in Readers \ {r} : reader'[s] = reader[s]
    BY <1>3 DEF TypeOK, Receive, Reader, Judge, JudgeAgain, Refuse, Record, Claim, Goes, Done
  <2>2. QED
    BY <1>1, <1>3, <2>1 DEF OthersIdle, Active
<1>4. CASE UNCHANGED reader
  BY <1>1, <1>4 DEF OthersIdle, Active
<1>5. QED
  BY <1>2, <1>3, <1>4 DEF Next, vars, ClockMoves, Listen, FileLost, Ticker, TickStarts,
     WriteDue, WriteLimit, InForce, WriteFails, TickExpires

LEMMA ReplayStep ==
  ASSUME ~MayLag, ReplayInv, [Next]_vars
  PROVE  ReplayInv'
<1> USE ReplayAssumption
<1>0. TypeOK' /\ OthersIdle'
  BY TypeStep, OthersStayIdle DEF ReplayInv
<1> DEFINE Rest == TickerOK /\ ReaderOK /\ Covered /\ LimitsOK /\ again = {}
<1> SUFFICES Rest'
  BY <1>0 DEF ReplayInv
<1>a. TypeOK /\ Rest
  BY DEF ReplayInv
<1>b. /\ clock \in Nat /\ floor \in Nat /\ limit \in Nat /\ startedAt \in Nat
      /\ disk \in Nat \cup {-1} /\ NoLimit = -1
      /\ opened \subseteq Openings /\ salts \subseteq Openings
      /\ \A o \in Openings : Stamp[o] \in Nat
      /\ reader \in [Readers -> ReaderTypes] /\ tick \in TickTypes
      /\ Idle.at = "idle"
  BY <1>a DEF TypeOK, Limits, NoLimit, Idle
<1>c. /\ tick.at \in {"expire", "write", "written"} => tick.now \in Nat
      /\ tick.at \in {"write", "written"} => tick.want \in Nat
      /\ \A r \in Readers : reader[r].at # "idle" =>
              reader[r].now \in Nat /\ reader[r].of \in Openings
  BY <1>b, TickParts, ReaderParts
<1>1. CASE ClockMoves
  <2>1. \A r \in Readers : reader[r].at \notin {"judge", "judged"}
    BY <1>1 DEF ClockMoves, Working
  <2>2. TickerOK'
    BY <1>1, <1>a, <1>b, <1>c DEF ClockMoves, TickerOK, gateway
  <2>c. LimitsOK'
    BY <1>1, <1>a, <1>b DEF ClockMoves, LimitsOK, gateway, history
  <2>3. ReaderOK'
    BY <1>1, <2>1, <1>a, <1>b, <1>c
       DEF ClockMoves, ReaderOK, gateway, history
  <2>4. Covered'
    BY <1>1, <1>a, <1>b DEF ClockMoves, Covered, gateway, history
  <2>5. QED
    BY <1>1, <1>a, <2>2, <2>c, <2>3, <2>4 DEF ClockMoves, history
<1>2. CASE Listen
  <2>1. TickerOK' /\ ReaderOK'
    BY <1>2, <1>a, <1>b DEF Listen, TickerOK, ReaderOK, LimitsOK
  <2>2. Covered' /\ LimitsOK'
    BY <1>2, <1>a, <1>b DEF Listen, OpenReplay, Covered, LimitsOK
  <2>3. QED
    BY <1>2, <1>a, <2>1, <2>2 DEF Listen
<1>3. CASE Crash
  <2>1. TickerOK' /\ ReaderOK'
    BY <1>3, <1>b DEF Crash, TickerOK, ReaderOK
  <2>2. Covered' /\ LimitsOK'
    BY <1>3, <1>a, <1>b DEF Crash, Covered, LimitsOK
  <2>3. QED
    BY <1>3, <1>a, <2>1, <2>2 DEF Crash
<1>4. CASE FileLost
  <2>1. TickerOK' /\ ReaderOK'
    BY <1>4, <1>a, <1>b
       DEF FileLost, TickerOK, ReaderOK, Acceptable, gateway
  <2>2. Covered' /\ LimitsOK'
    BY <1>4, <1>a, <1>b DEF FileLost, Covered, LimitsOK, gateway
  <2>3. QED
    BY <1>4, <1>a, <2>1, <2>2 DEF FileLost
<1>5. CASE TickStarts
  <2>1. TickerOK' /\ ReaderOK' /\ Covered' /\ LimitsOK'
    BY <1>5, <1>a, <1>b DEF TickStarts, TickerOK, ReaderOK, Covered, LimitsOK,
       Acceptable, gateway, history
  <2>2. QED
    BY <1>5, <1>a, <2>1 DEF TickStarts, history
<1>6. CASE WriteDue
  <2>1. TickerOK'
    BY <1>6, <1>a, <1>b, DueType DEF WriteDue, TickerOK
  <2>2. ReaderOK' /\ Covered' /\ LimitsOK'
    BY <1>6, <1>a, <1>b DEF WriteDue, ReaderOK, Covered, LimitsOK, Acceptable,
       history
  <2>3. QED
    BY <1>6, <1>a, <2>1, <2>2 DEF WriteDue, history
<1>7. CASE WriteLimit
  <2>0. /\ tick.want \in Nat /\ tick.now \in Nat
        /\ tick'.at = "written" /\ tick'.want = tick.want /\ tick'.now = tick.now
    BY <1>7, <1>b, TickParts DEF WriteLimit, TickTypes
  <2>1. TickerOK'
    BY <1>7, <1>a, <1>b, <2>0 DEF WriteLimit, TickerOK, gateway
  <2>2. ReaderOK' /\ Covered' /\ LimitsOK'
    BY <1>7, <1>a, <1>b, <2>0 DEF WriteLimit, TickerOK, ReaderOK, Covered,
       LimitsOK, Acceptable, gateway, history
  <2>3. QED
    BY <1>7, <1>a, <2>1, <2>2 DEF WriteLimit, history
<1>8. CASE InForce
  <2>0. /\ tick.want \in Nat /\ tick.now \in Nat /\ limit' = tick.want
        /\ tick'.at = "expire" /\ tick'.now = tick.now
    BY <1>8, <1>a, <1>b, <1>c DEF InForce, Larger, TickerOK
  <2>1. TickerOK'
    BY <1>8, <1>a, <1>b, <2>0 DEF InForce, TickerOK
  <2>a. limit <= limit' /\ UNCHANGED <<streams, clock, disk, status, floor, salts, reader, history>>
    BY <1>8, <1>a, <2>0 DEF InForce, TickerOK
  <2>b. ReaderOK'
    BY <2>a, <2>0, <1>a, <1>b, <1>c DEF ReaderOK, Acceptable, history
  <2>c. Covered'
    BY <2>a, <2>0, <1>a, <1>b DEF Covered, history
  <2>d. LimitsOK'
    BY <1>8, <2>a, <2>0, <1>a, <1>b DEF InForce, TickerOK, LimitsOK, history
  <2>2. ReaderOK' /\ Covered' /\ LimitsOK'
    BY <2>b, <2>c, <2>d
  <2>3. QED
    BY <1>8, <1>a, <2>1, <2>2 DEF InForce, history
<1>9. CASE WriteFails
  <2>1. TickerOK'
    BY <1>9, <1>a, <1>b DEF WriteFails, TickerOK
  <2>2. ReaderOK' /\ Covered' /\ LimitsOK'
    BY <1>9, <1>a, <1>b DEF WriteFails, ReaderOK, Covered, LimitsOK, Acceptable,
       gateway
  <2>3. QED
    BY <1>9, <1>a, <2>1, <2>2 DEF WriteFails
<1>10. CASE TickExpires
  <2>1. tick.now \in Nat /\ tick.now <= clock
    BY <1>10, <1>a, <1>b, TickParts DEF TickExpires, TickerOK
  <2>2. /\ salts' \subseteq salts
        /\ \A o \in salts : Stamp[o] + Window >= clock => o \in salts'
    BY <1>10, <1>b, <2>1 DEF TickExpires, ExpireLocked
  <2>3. Cardinality(salts) < CacheMax => Cardinality(salts') < CacheMax
    <3>1. /\ IsFiniteSet(salts) /\ Cardinality(salts) \in Nat
          /\ Cardinality(salts') \in Nat /\ Cardinality(salts') <= Cardinality(salts)
      BY <1>b, <2>2, FS_Subset, FS_CardinalityType
    <3>2. QED
      BY <3>1
  <2>4. TickerOK'
    BY <1>10, <1>b DEF TickExpires, TickerOK
  <2>5. ReaderOK'
    BY <1>10, <1>a, <2>3 DEF TickExpires, ReaderOK, Acceptable, history
  <2>6. Covered' /\ LimitsOK'
    <3>1. status # "down"
      BY <1>10, <1>a DEF TickExpires, LimitsOK
    <3>2. QED
      BY <1>10, <1>a, <1>b, <2>2, <3>1 DEF TickExpires, Covered, LimitsOK, history
  <2>7. QED
    BY <1>10, <1>a, <2>4, <2>5, <2>6 DEF TickExpires, history
<1>11. ASSUME NEW r \in Active, NEW o \in Openings, Receive(r, o)
       PROVE  Rest'
  <2>1. TickerOK' /\ Covered' /\ LimitsOK'
    BY <1>11, <1>a, <1>b DEF Receive, TickerOK, Covered, LimitsOK, gateway, history
  <2>2. ReaderOK'
    BY <1>11, <1>a, <1>b DEF Receive, ReaderOK, Acceptable, gateway, history
  <2>3. QED
    BY <1>11, <1>a, <2>1, <2>2 DEF Receive, history
<1>12. ASSUME NEW r \in Active, Reader(r) PROVE Rest'
  BY <1>12, ReaderStep DEF ReplayInv
<1>13. CASE UNCHANGED vars
  BY <1>13, <1>a DEF vars, gateway, history, TickerOK, ReaderOK, Covered, LimitsOK,
     Acceptable
<1>14. QED
  BY <1>1, <1>2, <1>3, <1>4, <1>5, <1>6, <1>7, <1>8, <1>9, <1>10, <1>11,
     <1>12, <1>13 DEF Next, Ticker

LEMMA ReplayInit == Init => ReplayInv
BY TypeInit, ReplayAssumption DEF Init, ReplayInv, OthersIdle, TickerOK, ReaderOK, Covered,
   LimitsOK, NoLimit, Idle

LEMMA Invariance ==
  ASSUME ~MayLag
  PROVE  Spec => []ReplayInv
<1>1. ReplayInv /\ [Next]_vars => ReplayInv'
  BY ReplayStep
<1>2. QED
  BY <1>1, ReplayInit, PTL DEF Spec

\* When a reader uses its look at the clock before the clock moves, no opening
\* starts a session twice: not from another address, not after a crash at any
\* point of a raise, not with the file lost (replay.go, the comment at its
\* top).
THEOREM NoOpeningTwice ==
  ASSUME ~MayLag
  PROVE  Spec => []NeverAgain
<1>1. ReplayInv => NeverAgain
  BY DEF ReplayInv, NeverAgain
<1>2. QED
  BY <1>1, Invariance, PTL

\* And the next start's floor covers all that ever started one (writeLimit's
\* rename comes before the raise is in force).
THEOREM FloorCovers ==
  ASSUME ~MayLag
  PROVE  Spec => []NextFloorCovers
<1>1. ReplayInv => NextFloorCovers
  BY DEF ReplayInv, NextFloorCovers, Covered
<1>2. QED
  BY <1>1, Invariance, PTL

\* The pause after a start is bounded by the window and one step (due's cap).
THEOREM PauseBounded ==
  ASSUME ~MayLag
  PROVE  Spec => []PauseIsBounded
<1>1. ReplayInv => PauseIsBounded
  BY DEF ReplayInv, PauseIsBounded, LimitsOK
<1>2. QED
  BY <1>1, Invariance, PTL

-----------------------------------------------------------------------------
(* Restores.                                                               *)

CONSTANTS Others, Versions, MaxRestores, MaxAsks, MaxCrashes, MayRepeat

VARIABLES phase, data, wal, ours, staged, import, setAside, start, restore, leaving,
          restores, asking, stage, helper, installed, running, told, asks, crashes

U == INSTANCE Upkeep

Marked == "marker" \in DOMAIN staged

\* What the database will be of, once it is opened and a waiting dump loaded.
Top == IF import # U!None THEN import ELSE IF wal # U!None THEN wal ELSE data["db"]

\* The other files are of the same, or of the archive whose dump was set aside.
Settled ==
    \/ \A f \in Others : data[f] = Top
    \/ import = U!None /\ \A f \in Others : data[f] = setAside

\* A marked restore: what it still needs is staged, the rest is in place.
Half(a) ==
    /\ \A f \in DOMAIN staged : staged[f] = a
    /\ \A f \in Others : f \in DOMAIN staged \/ data[f] = a
    /\ "db" \in DOMAIN staged \/ "dump" \in DOMAIN staged \/ data["db"] = a \/ import = a
    /\ import \in {U!None, a}

\* The start that moves the files has all of them still to move that are staged.
Moving ==
    /\ Marked
    /\ \A f \in U!Data : f \in DOMAIN staged => f \in start.todo
    /\ "dump" \in DOMAIN staged => "dump" \in start.todo \/ start.byFile
    /\ start.byFile => "db" \in start.todo \/ data["db"] = staged["marker"]
    /\ start.todo \subseteq DOMAIN staged \cap U!Archived

\* A restore under way stages one archive, its files and its dump.
Staging ==
    /\ restore.at \in {"unpack", "stash", "mark"} =>
          /\ \A f \in DOMAIN staged : staged[f] = restore.of
          /\ Others \cup {"dump"} \subseteq DOMAIN staged \cup restore.left
    /\ restore.at \in {"stash", "mark"} => restore.left = {}
    /\ restore.at = "clear" => Others \cup {"dump"} \subseteq restore.left
    /\ "marker" \notin restore.left
    /\ restore.at # "idle" => phase = "up" /\ ~leaving

Shape ==
    /\ data \in [U!Data -> Nat]
    /\ wal \in Nat \cup {U!None} /\ import \in Nat \cup {U!None}
    /\ \A f \in DOMAIN staged : staged[f] \in Nat
    /\ restore.of \in Nat /\ restores \in Nat
    /\ restore.at \in U!Steps
    /\ phase \in {"up", "boot", "move", "discard", "open", "load", "loaded", "refused", "address"}

Phases ==
    /\ phase = "up" /\ ~leaving => ~Marked
    /\ phase = "move" => Moving
    /\ phase = "discard" =>
          /\ wal = U!None
          /\ U!Data \cap DOMAIN staged = {}
          /\ Marked => staged["marker"] \in {data["db"], import}
    /\ phase \in {"open", "load", "loaded", "refused", "address"} => DOMAIN staged = {}
    /\ phase \in {"load", "loaded", "refused", "address", "up"} => wal = data["db"]
    /\ phase = "loaded" => import = data["db"]
    /\ phase = "refused" => import # U!None
    /\ phase \in {"address", "up"} => import = U!None

RestoreInv ==
    /\ Shape /\ Staging /\ Phases
    /\ Marked => Half(staged["marker"])
    /\ ~(phase \in {"boot", "move"} /\ Marked) => Settled

LEMMA RestoreInitial == U!Init => RestoreInv
<1> SUFFICES ASSUME U!Init PROVE RestoreInv
  OBVIOUS
<1>1. DOMAIN staged = {}
  BY DEF U!Init, U!Empty
<1>2. Shape
  BY <1>1 DEF U!Init, Shape, U!NoRestore, U!Steps, U!None
<1>3. Staging
  BY DEF U!Init, Staging, U!NoRestore
<1>4. Phases /\ ~Marked /\ Settled
  BY <1>1 DEF U!Init, Phases, Marked, Settled, Top, U!None, U!Data
<1>5. QED
  BY <1>2, <1>3, <1>4 DEF RestoreInv

LEMMA RestoreInvMeansOneState == RestoreInv => U!OneState
  BY DEF RestoreInv, Phases, Settled, Top, U!OneState, Shape, U!Data, U!None

\* What the update does is nothing to the data.
LEMMA UpdatingLeaves ==
  ASSUME RestoreInv, UNCHANGED <<phase, U!restoring>>
  PROVE  RestoreInv'
  BY DEF RestoreInv, Shape, Staging, Phases, Moving, Marked, Half, Settled, Top, U!restoring, U!disk

\* Wherever the process ends, the next start finds what it needs.
LEMMA EndedKeeps ==
  ASSUME RestoreInv, U!Ended, UNCHANGED <<U!disk, restores>>
  PROVE  RestoreInv'
<1>1. /\ data' = data /\ wal' = wal /\ import' = import /\ staged' = staged
      /\ setAside' = setAside /\ restores' = restores /\ phase' = "boot" /\ restore' = U!NoRestore /\ leaving' = FALSE
  BY DEF U!Ended, U!disk
<1>2. Shape'
  BY <1>1 DEF RestoreInv, Shape, U!NoRestore, U!Steps
<1>3. Staging'
  BY <1>1 DEF Staging, U!NoRestore
<1>4. Phases'
  BY <1>1 DEF Phases
<1>5. (Marked => Half(staged["marker"]))'
  BY <1>1 DEF RestoreInv, Marked, Half
<1>6. (~(phase \in {"boot", "move"} /\ Marked) => Settled)'
  BY <1>1 DEF RestoreInv, Marked, Settled, Top
<1>7. QED
  BY <1>2, <1>3, <1>4, <1>5, <1>6 DEF RestoreInv

LEMMA RestoreKeeps ==
  ASSUME U!UpkeepAssumption, RestoreInv, ~MayRepeat,
         U!RestoreAsked \/ U!RestoreClears \/ U!RestoreUnpacks \/ U!RestoreMarks
  PROVE  RestoreInv'
<1> USE DEF U!UpkeepAssumption
<1>0. /\ phase = "up" /\ phase' = phase /\ data' = data /\ wal' = wal /\ import' = import
      /\ setAside' = setAside /\ import = U!None
  BY DEF U!RestoreAsked, U!RestoreClears, U!RestoreUnpacks, U!RestoreMarks, U!disk, RestoreInv,
     Phases
<1>1. Settled'
  BY <1>0 DEF RestoreInv, Settled, Top
<1>2. ~leaving => ~Marked
  BY <1>0 DEF RestoreInv, Phases
<1>3. CASE U!RestoreAsked
  <2>1. ~leaving /\ leaving' = leaving /\ staged' = staged
    BY <1>3 DEF U!RestoreAsked, U!disk
  <2>2. PICK files \in {U!Archived, U!Archived \ {"db"}} :
           restore' = [at |-> "clear", of |-> restores + 1, left |-> files]
    BY <1>3 DEF U!RestoreAsked
  <2>3. Others \cup {"dump"} \subseteq files /\ "marker" \notin files
    BY DEF U!Archived, U!Data
  <2>4. Staging'
    BY <1>0, <2>1, <2>2, <2>3 DEF Staging
  <2>5. Shape'
    BY <1>0, <1>3, <2>1, <2>2 DEF RestoreInv, Shape, U!Steps, U!RestoreAsked
  <2>6. Phases'
    BY <1>0, <2>1 DEF RestoreInv, Phases, Marked
  <2>7. ~Marked'
    BY <1>2, <2>1 DEF Marked
  <2>8. QED
    BY <1>0, <1>1, <2>4, <2>5, <2>6, <2>7 DEF RestoreInv
<1>4. CASE U!RestoreClears
  <2>1. restore.at = "clear" /\ ~leaving /\ ~Marked /\ leaving' = leaving /\ restores' = restores
    BY <1>2, <1>4 DEF U!RestoreClears, RestoreInv, Staging
  <2>2. CASE \E f \in DOMAIN staged : staged' = U!Without(staged, f) /\ UNCHANGED restore
    <3>1. PICK f \in DOMAIN staged : staged' = U!Without(staged, f)
      BY <2>2
    <3>a. /\ DOMAIN U!Without(staged, f) = DOMAIN staged \ {f}
          /\ \A g \in DOMAIN staged \ {f} : U!Without(staged, f)[g] = staged[g]
      BY DEF U!Without
    <3>2. DOMAIN staged' \subseteq DOMAIN staged /\ \A g \in DOMAIN staged' : staged'[g] = staged[g]
      BY <3>1, <3>a
    <3>3. Shape' /\ Staging' /\ ~Marked'
      BY <1>0, <2>1, <2>2, <3>2 DEF RestoreInv, Shape, Staging, Marked
    <3>4. Phases'
      BY <1>0, <2>1, <3>3 DEF RestoreInv, Phases
    <3>5. QED
      BY <1>1, <3>3, <3>4 DEF RestoreInv
  <2>3. CASE DOMAIN staged = {} /\ restore' = [restore EXCEPT !.at = "unpack"] /\ staged' = staged
    <3>1. restore'.at = "unpack" /\ restore'.left = restore.left /\ restore'.of = restore.of
      BY <2>3 DEF RestoreInv, Staging
    <3>2. Shape' /\ Staging' /\ ~Marked'
      BY <1>0, <2>1, <2>3, <3>1 DEF RestoreInv, Shape, Staging, Marked, U!Steps
    <3>3. Phases'
      BY <1>0, <2>1, <3>2 DEF RestoreInv, Phases
    <3>4. QED
      BY <1>1, <3>2, <3>3 DEF RestoreInv
  <2>4. QED
    BY <1>4, <2>2, <2>3 DEF U!RestoreClears
<1>5. CASE U!RestoreUnpacks
  <2>1. restore.at = "unpack" /\ ~leaving /\ ~Marked /\ leaving' = leaving /\ restores' = restores
    BY <1>2, <1>5 DEF U!RestoreUnpacks, RestoreInv, Staging
  <2>2. ASSUME NEW f \in restore.left, staged' = U!With(staged, f, restore.of),
               restore' = [restore EXCEPT !.left = @ \ {f}]
        PROVE  RestoreInv'
    <3>1. /\ DOMAIN U!With(staged, f, restore.of) = DOMAIN staged \cup {f}
          /\ U!With(staged, f, restore.of)[f] = restore.of
          /\ \A g \in DOMAIN staged : g # f => U!With(staged, f, restore.of)[g] = staged[g]
      BY DEF U!With
    <3>2. \A g \in DOMAIN staged' : staged'[g] = restore.of
      BY <2>1, <2>2, <3>1 DEF RestoreInv, Staging
    <3>3. restore'.at = "unpack" /\ restore'.left = restore.left \ {f} /\ restore'.of = restore.of
      BY <2>1, <2>2 DEF RestoreInv, Staging
    <3>4. f # "marker"
      BY <2>2 DEF RestoreInv, Staging
    <3>5. ~Marked' /\ DOMAIN staged' = DOMAIN staged \cup {f}
      BY <2>1, <2>2, <3>1, <3>4 DEF Marked
    <3>6. Shape' /\ Staging'
      BY <1>0, <2>1, <3>2, <3>3, <3>5 DEF RestoreInv, Shape, Staging, U!Steps
    <3>7. Phases'
      BY <1>0, <2>1, <3>5 DEF RestoreInv, Phases
    <3>8. QED
      BY <1>1, <3>5, <3>6, <3>7 DEF RestoreInv
  <2>3. CASE restore.left = {} /\ restore' = [restore EXCEPT !.at = "stash"] /\ staged' = staged
    <3>1. restore'.at = "stash" /\ restore'.left = {} /\ restore'.of = restore.of
      BY <2>3 DEF RestoreInv, Staging
    <3>2. Shape' /\ Staging' /\ ~Marked'
      BY <1>0, <2>1, <2>3, <3>1 DEF RestoreInv, Shape, Staging, Marked, U!Steps
    <3>3. Phases'
      BY <1>0, <2>1, <3>2 DEF RestoreInv, Phases
    <3>4. QED
      BY <1>1, <3>2, <3>3 DEF RestoreInv
  <2>4. QED
    BY <1>5, <2>2, <2>3 DEF U!RestoreUnpacks
<1>6. CASE U!RestoreMarks
  <2>1. restore.at \in {"stash", "mark"} /\ ~leaving /\ ~Marked /\ restores' = restores
    BY <1>2, <1>6 DEF U!RestoreMarks, RestoreInv, Staging
  <2>2. /\ \A f \in DOMAIN staged : staged[f] = restore.of
        /\ Others \cup {"dump"} \subseteq DOMAIN staged
    BY <2>1 DEF RestoreInv, Staging
  <2>3. CASE /\ restore.at = "stash" /\ staged' = U!With(staged, "addresses", restore.of)
             /\ restore' = [restore EXCEPT !.at = "mark"] /\ leaving' = leaving
    <3>1. /\ DOMAIN U!With(staged, "addresses", restore.of) = DOMAIN staged \cup {"addresses"}
          /\ U!With(staged, "addresses", restore.of)["addresses"] = restore.of
          /\ \A g \in DOMAIN staged : g # "addresses" => U!With(staged, "addresses", restore.of)[g] = staged[g]
      BY DEF U!With
    <3>2. restore'.at = "mark" /\ restore'.left = restore.left /\ restore'.of = restore.of
      BY <2>3 DEF RestoreInv, Staging
    <3>3. /\ \A g \in DOMAIN staged' : staged'[g] = restore.of
          /\ DOMAIN staged' = DOMAIN staged \cup {"addresses"} /\ ~Marked'
      BY <2>1, <2>2, <2>3, <3>1 DEF Marked
    <3>4. Shape' /\ Staging'
      BY <1>0, <2>1, <2>2, <2>3, <3>2, <3>3 DEF RestoreInv, Shape, Staging, U!Steps
    <3>5. Phases'
      BY <1>0, <2>1, <2>3, <3>3 DEF RestoreInv, Phases
    <3>6. QED
      BY <1>1, <3>3, <3>4, <3>5 DEF RestoreInv
  <2>4. CASE /\ restore.at = "mark" /\ staged' = U!With(staged, "marker", restore.of)
             /\ restore' = U!NoRestore /\ leaving' = TRUE
    <3>1. /\ DOMAIN U!With(staged, "marker", restore.of) = DOMAIN staged \cup {"marker"}
          /\ U!With(staged, "marker", restore.of)["marker"] = restore.of
          /\ \A g \in DOMAIN staged : g # "marker" => U!With(staged, "marker", restore.of)[g] = staged[g]
      BY DEF U!With
    <3>2. /\ \A g \in DOMAIN staged' : staged'[g] = restore.of
          /\ DOMAIN staged' = DOMAIN staged \cup {"marker"} /\ staged'["marker"] = restore.of
      BY <2>1, <2>2, <2>4, <3>1
    <3>3. Shape' /\ Staging'
      BY <1>0, <2>1, <2>4, <3>2 DEF RestoreInv, Shape, Staging, U!Steps, U!NoRestore
    <3>4. Phases'
      BY <1>0, <2>1, <2>4 DEF RestoreInv, Phases
    <3>5. Half(staged["marker"])'
      BY <1>0, <2>2, <3>2 DEF Half
    <3>6. QED
      BY <1>1, <3>3, <3>4, <3>5 DEF RestoreInv
  <2>5. QED
    BY <1>6, <2>3, <2>4 DEF U!RestoreMarks
<1>7. QED
  BY <1>3, <1>4, <1>5, <1>6

\* The files of a marked restore are moved over the ones in place, one by one.
LEMMA MoveKeeps ==
  ASSUME U!UpkeepAssumption, RestoreInv, NEW f \in U!Archived, U!MoveOne(f)
  PROVE  RestoreInv'
<1> DEFINE a == staged["marker"]
<1> USE DEF U!UpkeepAssumption
<1>0. /\ phase = "move" /\ f \in start.todo /\ Marked /\ Half(a) /\ Moving /\ Shape
      /\ phase' = phase /\ wal' = wal /\ restore' = restore /\ leaving' = leaving
      /\ restores' = restores /\ start' = [start EXCEPT !.todo = @ \ {f}]
      /\ f \in DOMAIN staged /\ staged[f] = a /\ f # "marker"
  BY DEF U!MoveOne, RestoreInv, Phases, Moving, Half, U!Archived, U!Data
<1>1. restore.at = "idle" /\ Staging'
  BY <1>0 DEF RestoreInv, Staging, Shape, U!Steps
<1>2. start'.todo = start.todo \ {f} /\ start'.byFile = start.byFile
  BY <1>0 DEF Moving, U!Archived, U!Data
<1>3. a \in Nat /\ a # U!None
  BY <1>0 DEF Shape, Marked, U!None
<1>4. /\ DOMAIN U!Without(staged, f) = DOMAIN staged \ {f}
      /\ \A g \in DOMAIN staged \ {f} : U!Without(staged, f)[g] = staged[g]
  BY DEF U!Without
<1>5. CASE f = "dump" /\ start.byFile
  <2>1. staged' = staged /\ import' = import /\ data' = data
    BY <1>5 DEF U!MoveOne
  <2>2. Shape'
    BY <1>0, <2>1 DEF Shape
  <2>3. Moving' /\ Marked' /\ Half(a)' /\ a' = a
    BY <1>0, <1>2, <1>5, <2>1 DEF Moving, Marked, Half, U!Data
  <2>4. QED
    BY <1>0, <1>1, <2>2, <2>3 DEF RestoreInv, Phases
<1>6. CASE f = "dump" /\ ~start.byFile
  <2>1. staged' = U!Without(staged, f) /\ import' = a /\ data' = data
    BY <1>0, <1>6 DEF U!MoveOne
  <2>2. /\ DOMAIN staged' = DOMAIN staged \ {f}
        /\ \A g \in DOMAIN staged' : staged'[g] = a
        /\ Marked' /\ a' = a
    BY <1>0, <1>4, <2>1 DEF Marked, Half
  <2>3. Shape'
    BY <1>0, <1>3, <2>1, <2>2 DEF Shape
  <2>4. Moving' /\ Half(a)'
    BY <1>0, <1>2, <1>6, <2>1, <2>2 DEF Moving, Half, U!Data, U!Archived
  <2>5. QED
    BY <1>0, <1>1, <2>2, <2>3, <2>4 DEF RestoreInv, Phases
<1>7. CASE f # "dump"
  <2>1. /\ staged' = U!Without(staged, f) /\ import' = import /\ f \in U!Data
        /\ data' = [data EXCEPT ![f] = a]
    BY <1>0, <1>7 DEF U!MoveOne, U!Archived
  <2>2. /\ DOMAIN staged' = DOMAIN staged \ {f}
        /\ \A g \in DOMAIN staged' : staged'[g] = a
        /\ Marked' /\ a' = a
    BY <1>0, <1>4, <2>1 DEF Marked, Half
  <2>3. /\ data' \in [U!Data -> Nat] /\ data'[f] = a
        /\ \A g \in U!Data : g # f => data'[g] = data[g]
    BY <1>0, <1>3, <2>1 DEF Shape
  <2>4. Shape'
    BY <1>0, <1>3, <2>1, <2>2, <2>3 DEF Shape
  <2>5. Moving'
    BY <1>0, <1>2, <1>7, <2>1, <2>2, <2>3 DEF Moving, U!Data, U!Archived
  <2>6. Half(a)'
    BY <1>0, <2>1, <2>2, <2>3 DEF Half, U!Data
  <2>7. QED
    BY <1>0, <1>1, <2>2, <2>4, <2>5, <2>6 DEF RestoreInv, Phases
<1>8. QED
  BY <1>5, <1>6, <1>7

\* Once all are moved and the log is gone, what is left of the staging
\* directory no longer matters.
LEMMA MovedKeeps ==
  ASSUME U!UpkeepAssumption, RestoreInv, U!Moved
  PROVE  RestoreInv'
<1> DEFINE a == staged["marker"]
<1> USE DEF U!UpkeepAssumption
<1>0. /\ phase = "move" /\ start.todo = {} /\ Marked /\ Half(a) /\ Moving /\ Shape
      /\ phase' = "discard" /\ wal' = U!None /\ restore' = restore /\ leaving' = leaving
      /\ restores' = restores /\ start' = start /\ data' = data /\ staged' = staged
      /\ import' = import
  BY DEF U!Moved, RestoreInv, Phases, Moving
<1>1. U!Data \cap DOMAIN staged = {}
  BY <1>0 DEF Moving
<1>2. /\ \A f \in Others : data[f] = a
      /\ a \in {data["db"], import} /\ import \in {U!None, a} /\ a \in Nat
  BY <1>0, <1>1 DEF Half, Moving, U!Data, Shape, Marked
<1>3. Settled'
  BY <1>0, <1>2 DEF Settled, Top, U!None
<1>4. Shape' /\ Staging' /\ Phases'
  BY <1>0, <1>1, <1>2 DEF RestoreInv, Shape, Staging, Phases, Marked
<1>5. (Marked => Half(staged["marker"]))'
  BY <1>0 DEF Marked, Half
<1>6. QED
  BY <1>3, <1>4, <1>5 DEF RestoreInv

LEMMA DiscardKeeps ==
  ASSUME U!UpkeepAssumption, RestoreInv, U!Discard
  PROVE  RestoreInv'
<1> DEFINE a == staged["marker"]
<1> USE DEF U!UpkeepAssumption
<1>0. /\ phase = "discard" /\ restore' = restore /\ leaving' = leaving
      /\ restores' = restores /\ start' = start /\ data' = data /\ wal' = wal
      /\ import' = import /\ setAside' = setAside /\ Shape /\ Settled /\ restore.at = "idle"
  BY DEF U!Discard, RestoreInv, Phases, Shape, U!Steps, Staging
<1>1. Settled'
  BY <1>0 DEF Settled, Top
<1>2. ASSUME NEW f \in DOMAIN staged, staged' = U!Without(staged, f), phase' = phase PROVE RestoreInv'
  <2>1. /\ DOMAIN U!Without(staged, f) = DOMAIN staged \ {f}
        /\ \A g \in DOMAIN staged \ {f} : U!Without(staged, f)[g] = staged[g]
    BY DEF U!Without
  <2>2. DOMAIN staged' = DOMAIN staged \ {f} /\ \A g \in DOMAIN staged' : staged'[g] = staged[g]
    BY <1>2, <2>1
  <2>3. Shape' /\ Staging'
    BY <1>0, <1>2, <2>2 DEF RestoreInv, Shape, Staging
  <2>4. Phases'
    BY <1>0, <1>2, <2>2 DEF RestoreInv, Phases, Marked
  <2>5. Marked' => Half(a)' /\ a' = a
    <3>1. SUFFICES ASSUME Marked' PROVE Half(a)' /\ a' = a
      OBVIOUS
    <3>2. Marked /\ a' = a
      BY <2>2, <3>1 DEF Marked
    <3>3. /\ \A g \in DOMAIN staged : staged[g] = a
          /\ \A g \in Others : data[g] = a
          /\ a \in {data["db"], import} /\ import \in {U!None, a}
      BY <1>0, <3>2 DEF RestoreInv, Phases, Half, U!Data
    <3>4. QED
      BY <1>0, <2>2, <3>2, <3>3 DEF Half
  <2>6. QED
    BY <1>1, <2>3, <2>4, <2>5 DEF RestoreInv
<1>3. CASE DOMAIN staged = {} /\ phase' = "open" /\ staged' = staged
  <2>1. Shape' /\ Staging' /\ Phases' /\ ~Marked'
    BY <1>0, <1>3 DEF RestoreInv, Shape, Staging, Phases, Marked
  <2>2. QED
    BY <1>1, <2>1 DEF RestoreInv
<1>4. QED
  BY <1>2, <1>3 DEF U!Discard

LEMMA StartKeeps ==
  ASSUME U!UpkeepAssumption, RestoreInv, U!Boot \/ U!Open \/ U!Load \/ U!Loaded \/ U!PutBack
  PROVE  RestoreInv'
<1> USE DEF U!UpkeepAssumption
<1>0. /\ restore' = restore /\ leaving' = leaving /\ restores' = restores
      /\ Shape /\ restore.at = "idle" /\ phase # "up"
  BY DEF U!Boot, U!Open, U!Load, U!Loaded, U!PutBack, RestoreInv, Shape, U!Steps, Staging
<1>1. Staging'
  BY <1>0 DEF RestoreInv, Staging
<1>2. CASE U!Boot /\ Marked
  <2>1. /\ phase = "boot" /\ phase' = "move" /\ staged' = staged /\ data' = data /\ wal' = wal
        /\ import' = import
        /\ start' = [todo |-> DOMAIN staged \cap U!Archived,
                     byFile |-> "db" \in DOMAIN staged,
                     keep |-> "addresses" \in DOMAIN staged, restored |-> TRUE]
    BY <1>2 DEF U!Boot, Marked
  <2>2. Shape' /\ Marked' /\ Half(staged["marker"])'
    BY <1>0, <1>2, <2>1 DEF RestoreInv, Shape, Marked, Half
  <2>3. Moving'
    BY <1>2, <2>1 DEF Moving, Marked, U!Archived, U!Data
  <2>4. Phases'
    BY <2>1, <2>3 DEF Phases
  <2>5. QED
    BY <1>1, <2>1, <2>2, <2>4 DEF RestoreInv
<1>3. CASE U!Boot /\ ~Marked
  <2>1. /\ phase' = "open" /\ staged' = U!Empty /\ data' = data /\ wal' = wal /\ import' = import
        /\ setAside' = setAside
    BY <1>3 DEF U!Boot, Marked
  <2>2. DOMAIN staged' = {}
    BY <2>1 DEF U!Empty
  <2>3. Shape' /\ ~Marked' /\ Phases'
    BY <1>0, <2>1, <2>2 DEF Shape, Marked, Phases
  <2>4. Settled'
    BY <1>3, <2>1 DEF RestoreInv, Settled, Top
  <2>5. QED
    BY <1>1, <2>3, <2>4 DEF RestoreInv
<1>4. CASE U!Open
  <2>1. /\ phase = "open" /\ phase' = "load" /\ staged' = staged /\ import' = import
        /\ wal' = data'["db"] /\ setAside' = setAside
        /\ data' = IF wal # U!None THEN [data EXCEPT !["db"] = wal] ELSE data
    BY <1>4 DEF U!Open
  <2>2. /\ data' \in [U!Data -> Nat]
        /\ \A f \in Others : data'[f] = data[f]
        /\ data'["db"] = IF wal # U!None THEN wal ELSE data["db"]
    BY <1>0, <2>1 DEF Shape, U!Data
  <2>3. DOMAIN staged = {} /\ Settled
    BY <2>1 DEF RestoreInv, Phases
  <2>4. Shape' /\ ~Marked' /\ Phases'
    BY <1>0, <2>1, <2>2, <2>3 DEF Shape, Marked, Phases, U!Data
  <2>5. wal' # U!None
    BY <2>1, <2>2 DEF U!Data, U!None
  <2>6. Settled'
    BY <2>1, <2>2, <2>3, <2>5 DEF Settled, Top
  <2>7. QED
    BY <1>1, <2>4, <2>6 DEF RestoreInv
<1>5. CASE U!Load
  <2>1. phase = "load" /\ staged' = staged /\ import' = import /\ DOMAIN staged = {} /\ Settled
        /\ wal = data["db"] /\ setAside' = setAside
    BY <1>5 DEF U!Load, RestoreInv, Phases
  <2>2. CASE data' = data /\ wal' = wal /\ phase' = IF import = U!None THEN "address" ELSE "refused"
    <3>1. Shape' /\ ~Marked' /\ Phases' /\ Settled'
      BY <1>0, <2>1, <2>2 DEF Shape, Marked, Phases, Settled, Top
    <3>2. QED
      BY <1>1, <3>1 DEF RestoreInv
  <2>3. CASE /\ import # U!None /\ data' = [data EXCEPT !["db"] = import] /\ wal' = import
             /\ phase' = "loaded"
    <3>1. import \in Nat
      BY <1>0, <2>3 DEF Shape
    <3>2. /\ data' \in [U!Data -> Nat] /\ data'["db"] = import
          /\ \A f \in Others : data'[f] = data[f]
      BY <1>0, <2>3, <3>1 DEF Shape, U!Data
    <3>3. Shape' /\ ~Marked' /\ Phases'
      BY <1>0, <2>1, <2>3, <3>1, <3>2 DEF Shape, Marked, Phases
    <3>4. Settled'
      BY <2>1, <2>3, <3>2 DEF Settled, Top
    <3>5. QED
      BY <1>1, <3>3, <3>4 DEF RestoreInv
  <2>4. QED
    BY <1>5, <2>2, <2>3 DEF U!Load
<1>6. CASE U!Loaded
  <2>1. /\ phase \in {"loaded", "refused"} /\ phase' = "address" /\ staged' = staged
        /\ import' = U!None /\ data' = data /\ wal' = wal /\ DOMAIN staged = {} /\ Settled
        /\ wal = data["db"] /\ import # U!None
        /\ phase = "loaded" => import = data["db"] /\ setAside' = setAside
        /\ phase = "refused" => setAside' = import
    BY <1>0, <1>6 DEF U!Loaded, RestoreInv, Phases, Shape, U!Data, U!None
  <2>2. data["db"] # U!None
    BY <1>0 DEF Shape, U!Data, U!None
  <2>3. Shape' /\ ~Marked' /\ Phases'
    BY <1>0, <2>1 DEF Shape, Marked, Phases
  <2>4. \A f \in Others : data[f] = import
    BY <2>1 DEF Settled, Top
  <2>5. Settled'
    BY <2>1, <2>2, <2>4 DEF Settled, Top
  <2>6. QED
    BY <1>1, <2>3, <2>5 DEF RestoreInv
<1>7. CASE U!PutBack
  <2>1. /\ phase = "address" /\ phase' = "up" /\ staged' = staged /\ import' = import
        /\ setAside' = setAside /\ data' = data /\ wal' = wal /\ DOMAIN staged = {} /\ Settled
    BY <1>7 DEF U!PutBack, RestoreInv, Phases
  <2>2. Shape' /\ ~Marked' /\ Phases' /\ Settled'
    BY <1>0, <2>1 DEF RestoreInv, Shape, Marked, Phases, Settled, Top
  <2>3. QED
    BY <1>1, <2>2 DEF RestoreInv
<1>8. QED
  BY <1>2, <1>3, <1>4, <1>5, <1>6, <1>7

LEMMA RestoreStep ==
  ASSUME U!UpkeepAssumption, ~MayRepeat, RestoreInv, [U!Next]_(U!vars)
  PROVE  RestoreInv'
<1>1. CASE U!RestoreAsked \/ U!RestoreClears \/ U!RestoreUnpacks \/ U!RestoreMarks
  BY <1>1, RestoreKeeps
<1>2. CASE U!Exit \/ U!Crash \/ U!HelperRestarts
  <2>1. U!Ended /\ UNCHANGED <<U!disk, restores>>
    BY <1>2 DEF U!Exit, U!Crash, U!HelperRestarts
  <2>2. QED
    BY <2>1, EndedKeeps
<1>3. CASE \/ U!Asked \/ U!HandOver \/ U!Answered \/ U!GivesUp \/ U!HelperTakes \/ U!HelperReads
           \/ U!HelperReplaces \/ U!HelperCleans \/ U!HelperRecords \/ UNCHANGED U!vars
  <2>1. UNCHANGED <<phase, U!restoring>>
    BY <1>3 DEF U!Asked, U!HandOver, U!Leave, U!Answered, U!GivesUp, U!HelperTakes, U!HelperReads,
       U!HelperReplaces, U!HelperCleans, U!HelperRecords, U!vars
  <2>2. QED
    BY <2>1, UpdatingLeaves
<1>4. CASE U!Startup
  BY <1>4, MoveKeeps, MovedKeeps, DiscardKeeps, StartKeeps DEF U!Startup
<1>5. QED
  BY <1>1, <1>2, <1>3, <1>4 DEF U!Next, U!Panel, U!Helper

\* Wherever crashes and restarts fall while a restore is staged or put in
\* place, the panel serves data of one state: all its own or all one
\* archive's, but for a database that refused the archive's dump
\* (backup/restore.go, ApplyPending; cmd/wui/start.go, openPanelDatabase).
THEOREM DataIsOfOneState ==
  ASSUME U!UpkeepAssumption, ~MayRepeat
  PROVE  U!Spec => []U!OneState
<1>1. RestoreInv /\ [U!Next]_(U!vars) => RestoreInv'
  BY RestoreStep
<1>2. QED
  BY <1>1, RestoreInitial, RestoreInvMeansOneState, PTL DEF U!Spec
=============================================================================
