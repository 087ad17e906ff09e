-------------------------------- MODULE Replay --------------------------------
(***************************************************************************)
(* The stealth gateway's replay rule (src/internal/stealthgw/replay.go):   *)
(* an opening that was seen once never starts a session again, from any    *)
(* address, even across a restart.                                         *)
(*                                                                         *)
(* Within a run the gateway remembers the salts it accepted for as long as *)
(* their timestamps are inside the window. Across a restart it remembers   *)
(* one number: nothing above the limit on disk is accepted, and after a    *)
(* start nothing at or below it is. The gateway's readers, which judge     *)
(* openings, and its ticker, which raises the limit and lets go of salts,  *)
(* run side by side.                                                       *)
(*                                                                         *)
(* The gateway is one of two. The datagram gateway has one reader, which   *)
(* judges and then records. The stream gateway has a reader for each       *)
(* connection, which waits for a raise when it needs one and judges and    *)
(* records under one hold of the lock.                                     *)
(*                                                                         *)
(* An operator whose name ends in _Wrong is not part of the specification: *)
(* it is the definition after it with a mistake made, for seeing that the  *)
(* properties tell the two apart.                                          *)
(***************************************************************************)
EXTENDS Integers, FiniteSets

CONSTANTS
    Openings,       \* openings: each has a salt of its own, and any number
                    \* of copies of it can arrive, whenever and from anywhere
    Stamp,          \* the timestamp an opening carries
    Readers,        \* goroutines that may read openings
    MayLag,         \* whether the clock may move between a reader's look at
                    \* it and the use of what it saw
    Window,         \* window, limitStep, limitAhead, in seconds
    LimitStep,
    LimitAhead,
    CacheMax,       \* cacheMax
    FirstClock,     \* bound: the clock at the start
    LastClock,      \* bound: and at the end
    MaxFaults       \* bound: crashes, failed writes and lost files

ASSUME ReplayAssumption ==
    /\ IsFiniteSet(Openings)
    /\ Stamp \in [Openings -> Nat]
    /\ Readers # {} /\ MayLag \in BOOLEAN
    /\ Window \in Nat /\ LimitStep \in Nat \ {0} /\ LimitAhead \in Nat
    /\ CacheMax \in Nat \ {0}
    /\ FirstClock \in Nat /\ LastClock \in Nat /\ MaxFaults \in Nat

VARIABLES
    streams,        \* whether this is the stream gateway
    clock,
    disk,           \* the limit in the file, or NoLimit: missing or damaged
    status,         \* the gateway's process: "down", "starting" or "serving"
    floor, limit,   \* replay.floor and replay.limit
    salts,          \* the openings whose salts the cache holds
    askLimit,       \* the raise clients have asked for
    tick,           \* the ticker: where it is, its look at the clock, and the
                    \* limit it is writing, or 0
    reader,         \* each reader: where it is, its opening, and its look at
                    \* the clock
    opened,         \* openings that have started a session
    again,          \* openings that have started a second one
    startedAt,      \* the clock when the gateway last started
    faults

gateway == <<floor, limit, salts, askLimit>>
history == <<opened, again, startedAt, faults>>
vars == <<streams, clock, disk, status, gateway, tick, reader, history>>

NoLimit == -1
Idle == [at |-> "idle"]
Larger(a, b) == IF a < b THEN b ELSE a
Fewer(a, b) == IF a < b THEN a ELSE b

-----------------------------------------------------------------------------
(* The rule.                                                               *)

InWindow(o, now) == Stamp[o] + Window >= now /\ Stamp[o] <= now + Window

\* The salts that stay: the window still admits their timestamps. The code
\* returns before it looks when the oldest of them is one that stays.
ExpireLocked(held, now) == {o \in held : Stamp[o] + Window >= now}

\* What the cache holds once judgeLocked has made room in it.
Room(now) == IF Cardinality(salts) >= CacheMax
             THEN ExpireLocked(salts, now) ELSE salts

\* The verdict on an opening inside the window. The checks come in this order.
JudgeLocked(o, now) ==
    IF Stamp[o] <= floor THEN "atFloor"
    ELSE IF o \in salts THEN "seenBefore"
    ELSE IF Cardinality(Room(now)) >= CacheMax THEN "cacheFull"
    ELSE IF Stamp[o] > limit THEN "aboveLimit" ELSE "accepted"

Verdict(o, now) == IF InWindow(o, now) THEN JudgeLocked(o, now) ELSE "outsideWindow"

\* The cache after a judgement that expired it when it was full.
SaltsJudged(o, now) ==
    IF InWindow(o, now) /\ Stamp[o] > floor /\ o \notin salts
    THEN Room(now) ELSE salts

\* recordLocked: a full cache takes nothing.
Recorded(held, o) == IF Cardinality(held) >= CacheMax THEN held ELSE held \cup {o}

Due_Wrong(now) ==
    LET byClock == IF limit < now + LimitAhead THEN now + LimitStep ELSE 0
        want == IF askLimit > limit
                THEN Larger(byClock, Fewer(askLimit, now + Window + LimitStep) + LimitStep)
                ELSE byClock
    IN  IF want <= limit THEN 0 ELSE want

\* The limit to write now, or 0: the clock is close to the limit or a client
\* asked for more.
Due(now) ==
    LET byClock == IF limit < now + LimitAhead THEN now + LimitStep ELSE 0
        want == IF askLimit > limit
                THEN Larger(byClock, Fewer(askLimit, now + Window + LimitStep))
                ELSE byClock
    IN  IF want <= limit THEN 0 ELSE want

-----------------------------------------------------------------------------
(* The process and its world.                                              *)

Init ==
    /\ streams \in BOOLEAN
    /\ clock = FirstClock
    /\ disk \in {NoLimit} \cup 0..(FirstClock + LimitStep)
    /\ status = "down"
    /\ floor = 0 /\ limit = 0 /\ salts = {} /\ askLimit = 0
    /\ tick = Idle
    /\ reader = [r \in Readers |-> Idle]
    /\ opened = {} /\ again = {} /\ startedAt = FirstClock /\ faults = 0

Fault == faults < MaxFaults /\ faults' = faults + 1

Working(r) == reader[r].at \in {"judge", "judged"}

\* A second passes.
ClockMoves ==
    /\ clock < LastClock
    /\ MayLag \/ \A r \in Readers : ~Working(r)
    /\ clock' = clock + 1
    /\ UNCHANGED <<streams, disk, status, gateway, tick, reader, history>>

OpenReplay_Wrong ==
    /\ floor' = IF disk = NoLimit THEN clock ELSE disk
    /\ limit' = IF disk = NoLimit THEN clock ELSE disk
    /\ salts' = {}

\* A file that is missing or damaged puts the floor past anything a lost file
\* could have covered.
OpenReplay ==
    /\ floor' = IF disk = NoLimit THEN clock + Window ELSE disk
    /\ limit' = IF disk = NoLimit THEN clock + Window ELSE disk
    /\ salts' = {}

\* Listen: the first raise is written before anything is read.
Listen ==
    /\ status = "down"
    /\ status' = "starting"
    /\ OpenReplay
    /\ askLimit' = 0
    /\ tick' = [at |-> "due"]
    /\ startedAt' = clock
    /\ UNCHANGED <<streams, clock, disk, reader, opened, again, faults>>

\* The process is gone, with all it held, whatever it was doing.
Crash ==
    /\ status # "down"
    /\ Fault
    /\ status' = "down"
    /\ floor' = 0 /\ limit' = 0 /\ salts' = {} /\ askLimit' = 0
    /\ tick' = Idle
    /\ reader' = [r \in Readers |-> Idle]
    /\ UNCHANGED <<streams, clock, disk, opened, again, startedAt>>

\* The file is taken away or damaged.
FileLost ==
    /\ disk # NoLimit
    /\ Fault
    /\ disk' = NoLimit
    /\ UNCHANGED <<streams, clock, status, gateway, tick, reader, opened, again, startedAt>>

-----------------------------------------------------------------------------
(* The ticker: every second, and when a reader wakes it.                   *)

TickStarts ==
    /\ status = "serving" /\ tick.at = "idle"
    /\ tick' = [at |-> "due"]
    /\ UNCHANGED <<streams, clock, disk, status, gateway, reader, history>>

\* writeDue takes what clients asked for and asks due. A raise it is to write
\* is the ticker's alone until write returns (replay.writing).
WriteDue ==
    /\ tick.at = "due"
    /\ LET want == Due(clock)
       IN  tick' = IF want = 0
                   THEN [at |-> "expire", now |-> clock]
                   ELSE [at |-> "write", now |-> clock, want |-> want]
    /\ askLimit' = 0
    /\ UNCHANGED <<streams, clock, disk, status, floor, limit, salts, reader, history>>

\* The new file is renamed over the old one: a crash leaves one or the other.
WriteLimit ==
    /\ tick.at = "write"
    /\ disk' = tick.want
    /\ tick' = [tick EXCEPT !.at = "written"]
    /\ UNCHANGED <<streams, clock, status, gateway, reader, history>>

InForce_Wrong ==
    /\ tick.at = "written"
    /\ tick' = [at |-> "expire", now |-> tick.now]
    /\ UNCHANGED <<streams, clock, disk, status, gateway, reader, history>>

\* Only then is the raise in force.
InForce ==
    /\ tick.at = "written"
    /\ limit' = Larger(limit, tick.want)
    /\ tick' = [at |-> "expire", now |-> tick.now]
    /\ UNCHANGED <<streams, clock, disk, status, floor, salts, askLimit, reader, history>>

\* The old limit stays in force, and what was asked for is forgotten.
WriteFails ==
    /\ tick.at = "write"
    /\ Fault
    /\ tick' = [at |-> "expire", now |-> tick.now]
    /\ UNCHANGED <<streams, clock, disk, status, gateway, reader, opened, again, startedAt>>

\* The end of a pass, with the look at the clock it began with. Listen writes
\* its first limit and then serves.
TickExpires ==
    /\ tick.at = "expire"
    /\ salts' = IF status = "serving" THEN ExpireLocked(salts, tick.now) ELSE salts
    /\ status' = "serving"
    /\ tick' = Idle
    /\ UNCHANGED <<streams, clock, disk, floor, limit, askLimit, reader, history>>

-----------------------------------------------------------------------------
(* The readers.                                                            *)

\* The datagram gateway reads its socket in one loop, the stream gateway
\* each connection in its own.
Active == IF streams THEN Readers ELSE {CHOOSE r \in Readers : TRUE}

\* A copy of an opening arrives and the clock is looked at.
Receive(r, o) ==
    /\ status = "serving" /\ reader[r].at = "idle"
    /\ reader' = [reader EXCEPT ![r] = [at |-> "judge", of |-> o, now |-> clock]]
    /\ UNCHANGED <<streams, clock, disk, status, gateway, tick, history>>

Goes(r, where) == reader' = [reader EXCEPT ![r].at = where]
Done(r) == reader' = [reader EXCEPT ![r] = Idle]

\* spend: an opening that opens nothing is recorded while its device's
\* allowance for that lasts.
MaySpend(held, o) == salts' = held \/ salts' = Recorded(held, o)

\* What the rule says. An opening above the limit asks for a raise: the
\* datagram gateway drops it, the stream gateway lets it wait.
Judge(r) ==
    /\ reader[r].at = "judge"
    /\ LET o == reader[r].of
           now == reader[r].now
           held == SaltsJudged(o, now)
           v == Verdict(o, now)
       IN  \/ /\ v = "accepted"
              /\ salts' = held
              /\ Goes(r, "judged")
              /\ UNCHANGED askLimit
           \/ /\ v = "aboveLimit"
              /\ askLimit' = Larger(askLimit, Stamp[o] + LimitStep)
              /\ IF streams THEN salts' = held /\ Goes(r, "wait")
                            ELSE MaySpend(held, o) /\ Done(r)
           \/ /\ v \notin {"accepted", "aboveLimit"}
              /\ salts' = held
              /\ Done(r)
              /\ UNCHANGED askLimit
    /\ UNCHANGED <<streams, clock, disk, status, floor, limit, tick, history>>

\* The raise has come, or the wait for it is over: judged once more, by the
\* clock as it is. What claim will go by is still the first look at it.
JudgeAgain(r) ==
    /\ reader[r].at = "wait"
    /\ LET o == reader[r].of
           held == SaltsJudged(o, clock)
           v == Verdict(o, clock)
       IN  \/ v = "accepted" /\ salts' = held /\ Goes(r, "judged")
           \/ v = "aboveLimit" /\ MaySpend(held, o) /\ Done(r)
           \/ v \notin {"accepted", "aboveLimit"} /\ salts' = held /\ Done(r)
    /\ UNCHANGED <<streams, clock, disk, status, floor, limit, askLimit, tick, history>>

\* What it carries is wrong, or a limit has no room for its session.
Refuse(r) ==
    /\ reader[r].at = "judged"
    /\ MaySpend(salts, reader[r].of)
    /\ Done(r)
    /\ UNCHANGED <<streams, clock, disk, status, floor, limit, askLimit, tick, history>>

Opens(o) == opened' = opened \cup {o} /\ again' = again \cup (opened \cap {o})

\* The datagram gateway's reader, alone in doing so, records what it judged.
Record(r) ==
    /\ ~streams /\ reader[r].at = "judged"
    /\ salts' = Recorded(salts, reader[r].of)
    /\ Opens(reader[r].of)
    /\ Done(r)
    /\ UNCHANGED <<streams, clock, disk, status, floor, limit, askLimit, tick, startedAt, faults>>

Claim_Wrong(r) ==
    /\ streams /\ reader[r].at = "judged"
    /\ salts' = Recorded(salts, reader[r].of)
    /\ Opens(reader[r].of)
    /\ Done(r)
    /\ UNCHANGED <<streams, clock, disk, status, floor, limit, askLimit, tick, startedAt, faults>>

\* A stream's reader judges and records at once: another may have come this
\* far with the same opening.
Claim(r) ==
    /\ streams /\ reader[r].at = "judged"
    /\ LET o == reader[r].of
           held == SaltsJudged(o, reader[r].now)
       IN  IF Verdict(o, reader[r].now) = "accepted"
           THEN salts' = Recorded(held, o) /\ Opens(o)
           ELSE salts' = held /\ UNCHANGED <<opened, again>>
    /\ Done(r)
    /\ UNCHANGED <<streams, clock, disk, status, floor, limit, askLimit, tick, startedAt, faults>>

-----------------------------------------------------------------------------
Ticker == TickStarts \/ WriteDue \/ WriteLimit \/ InForce \/ WriteFails \/ TickExpires

Reader(r) == Judge(r) \/ JudgeAgain(r) \/ Refuse(r) \/ Record(r) \/ Claim(r)

Next ==
    \/ ClockMoves \/ Listen \/ Crash \/ FileLost
    \/ Ticker
    \/ \E r \in Active : Reader(r) \/ \E o \in Openings : Receive(r, o)

Spec == Init /\ [][Next]_vars

\* The ticker's timer fires, its calls return, and the supervisor starts the
\* gateway again.
LiveSpec == Spec /\ WF_vars(Listen) /\ WF_vars(TickStarts) /\ WF_vars(WriteDue)
                 /\ WF_vars(WriteLimit \/ WriteFails) /\ WF_vars(InForce)
                 /\ WF_vars(TickExpires) /\ WF_vars(ClockMoves)

-----------------------------------------------------------------------------
Limits == Nat \cup {NoLimit}

TickTypes == [at : {"idle", "due"}] \cup [at : {"expire"}, now : Nat]
             \cup [at : {"write", "written"}, now : Nat, want : Nat]
ReaderTypes == [at : {"idle"}]
               \cup [at : {"judge", "judged", "wait"}, of : Openings, now : Nat]

\* Every variable has its type, and the cache is never over its limit, however
\* many readers spend and claim at once (replay.go, cacheMax).
TypeOK ==
    /\ streams \in BOOLEAN /\ clock \in Nat /\ disk \in Limits
    /\ status \in {"down", "starting", "serving"}
    /\ floor \in Nat /\ limit \in Nat /\ askLimit \in Nat
    /\ salts \subseteq Openings /\ Cardinality(salts) <= CacheMax
    /\ tick \in TickTypes /\ reader \in [Readers -> ReaderTypes]
    /\ opened \subseteq Openings /\ again \subseteq Openings
    /\ startedAt \in Nat /\ faults \in 0..MaxFaults

\* An opening that started a session never starts another, whoever sends it
\* again and whenever, across restarts and with the limit's file lost
\* (replay.go, the comment at its top).
NeverAgain == again = {}

\* Wherever a crash falls, the floor the next start would read covers every
\* opening that ever started a session: the limit is on disk before it is in
\* force, and a lost file is covered by the window (writeLimit, openReplay).
NextFloorCovers ==
    \A o \in opened : Stamp[o] <= IF disk = NoLimit THEN clock + Window ELSE disk

\* After a start the clock is never further from the floor than the window
\* and one step, so the pause in which honest clients are refused has an end
\* (due caps what a client can ask for).
PauseIsBounded == status # "down" => floor <= startedAt + Window + LimitStep

\* A serving gateway always comes to a limit above the clock again, so that
\* no failed write, crash or lost file leaves it refusing everybody for good
\* (due and write: a failed raise is tried on the next tick).
LimitKeepsUp == []<>(limit > clock)

=============================================================================
