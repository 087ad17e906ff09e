------------------------------- MODULE Customers -------------------------------
(***************************************************************************)
(* What becomes of a customer's plan: the reconciler's tick, which starts  *)
(* a plan at its first connection, renews it by the period and cuts it off *)
(* (reconciler.go evaluate, activation.go, renew.go), and the requests     *)
(* that change it (service/clients.go, service/extend.go).                 *)
(*                                                                         *)
(* A tick is a run of statements, each of its own, and a request reads the *)
(* customer and writes columns worked out from what it read: requests come *)
(* between a tick's statements, and, where MayOverlap, a tick's between a  *)
(* request's read and its write.                                           *)
(*                                                                         *)
(* Days are numbered from 0; MonthStart[m] is the first day of month m, so *)
(* months may differ in length as the calendar's do.  Traffic is in units  *)
(* of a packet.  A customer's own traffic is Metering's subject: here it   *)
(* grows by Flush.                                                         *)
(***************************************************************************)
EXTENDS Integers, Sequences, FiniteSets

CONSTANTS
    Customers,      \* the customers
    Requests,       \* those who may have a request in flight at once
    MonthStart,     \* a sequence of days: where the months begin
    WeekDays,       \* the days of a week
    Plans,          \* the plans a customer may be created with
    Updates,        \* the edits an operator may send
    Keep,           \* what a column an edit leaves alone has in it
    Allowed,        \* the other requests an operator may send
    MayOverlap,     \* whether a tick's statements come within a request
    Shares,         \* days that Extend and Adjust give (negative: take)
    MaxDay,         \* bound on the clock
    MaxUsed,        \* bound on the traffic of one customer
    MaxRequests     \* bound on the requests

Operations == {"reset", "bulkReset", "enable", "disable", "extend", "traffic",
               "adjust", "adjustQuota", "delete"}
Cycles == {"none", "daily", "weekly", "monthly"}
None == -1

ASSUME CustomersAssumption ==
    /\ Allowed \subseteq Operations
    /\ MayOverlap \in BOOLEAN
    /\ \A p \in Plans : /\ p.days \in Nat /\ p.expires \in Nat \cup {None}
                        /\ p.cycle \in Cycles
    /\ Keep \notin Int
    /\ \A u \in Updates : /\ u.days \in Nat \cup {Keep} /\ u.expires \in Nat \cup {None, Keep}
                          /\ u.cycle \in Cycles \cup {Keep}
    /\ Shares \subseteq Int
    /\ WeekDays \in Nat \ {0} /\ MaxDay \in Nat /\ MaxUsed \in Nat
    /\ MaxRequests \in Nat
    /\ MonthStart \in Seq(Nat) /\ Len(MonthStart) > 2
    /\ \A i, j \in 1..Len(MonthStart) : i < j => MonthStart[i] < MonthStart[j]
    /\ MonthStart[1] = 0 /\ MonthStart[Len(MonthStart) - 2] > MaxDay

VARIABLES
    now,        \* today
    row,        \* the customers' rows
    shaken,     \* those with a handshake on record (accounts.last_handshake)
    tick,       \* the statement the tick is at
    due,        \* what the tick read and has not worked off
    request,    \* the requests in flight: what each asks and what it read
    sent        \* how many requests were sent

vars == <<now, row, shaken, tick, due, request, sent>>

-------------------------------------------------------------------------------
(* The calendar. *)

Months == 1..Len(MonthStart)-1
MonthOf(d) == CHOOSE m \in Months : MonthStart[m] <= d /\ d < MonthStart[m+1]
DayOfMonth(d) == d - MonthStart[MonthOf(d)]
ShortestMonth ==
    CHOOSE n \in {MonthStart[m+1] - MonthStart[m] : m \in Months} :
        \A m \in Months : n <= MonthStart[m+1] - MonthStart[m]

\* One step of a renewal cycle from day d.  A month later is the same day of
\* the next month, and what that month has no room for runs into the one after.
Period(cycle, d) ==
    CASE cycle = "daily"   -> d + 1
      [] cycle = "weekly"  -> d + WeekDays
      [] cycle = "monthly" -> MonthStart[MonthOf(d) + 1] + DayOfMonth(d)

\* The boundaries no later than day t of a plan counted from anchor: the first
\* is a period later, and a period after each comes another.
Boundaries(cycle, anchor, t) ==
    LET days   == Period(cycle, anchor)..t
        closed == {S \in SUBSET days :
                     /\ Period(cycle, anchor) \in S
                     /\ \A d \in S : Period(cycle, d) > t \/ Period(cycle, d) \in S}
    IN  {d \in days : \A S \in closed : d \in S}

\* It takes the moment the panel notices for the boundary.
LastBoundary_Wrong(cycle, anchor, t) == t

\* The last of them: there is one where a period has passed.
LastBoundary(cycle, anchor, t) ==
    CHOOSE d \in Boundaries(cycle, anchor, t) : Period(cycle, d) > t

-------------------------------------------------------------------------------
(* The row. *)

Exists(c) == row[c].status \notin {"gone", "deleted"}
Deferred(r) == r.start /\ r.activated = None
Waiting(r) == Deferred(r) /\ r.expires = None /\ r.days > 0

\* What the periods are counted from.
Anchor(r) == IF r.reset # None THEN r.reset
             ELSE IF r.activated # None THEN r.activated ELSE r.created

\* autoStatus: the state a customer's own date and allowance put them in.
AutoStatus(r, t) ==
    CASE r.status = "disabled"                -> "disabled"
      [] r.expires # None /\ r.expires <= t   -> "expired"
      [] r.quota > 0 /\ r.used >= r.quota     -> "exhausted"
      [] OTHER                                -> "active"

NoRow == [status |-> "gone", quota |-> 0, used |-> 0, expires |-> None,
          start |-> FALSE, days |-> 0, activated |-> None, reset |-> None,
          created |-> 0, cycle |-> "none"]
NoRequest == [op |-> "none"]

TypeOK ==
    /\ now \in 0..MaxDay
    /\ row \in [Customers ->
         [status : {"gone", "deleted", "active", "exhausted", "expired", "disabled"},
          quota : Nat, used : 0..MaxUsed, expires : Int, start : BOOLEAN,
          days : Nat, activated : (0..MaxDay) \cup {None},
          reset : (0..MaxDay) \cup {None}, created : 0..MaxDay, cycle : Cycles]]
    /\ \A c \in Customers : row[c].start => row[c].days > 0
    /\ shaken \subseteq Customers
    /\ tick.at \in {"idle", "activate", "renew", "sweep", "expire"}
    /\ tick.day \in 0..now
    /\ \A c \in DOMAIN due : c \in Customers
    /\ sent \in 0..MaxRequests

Init ==
    /\ now = 0
    /\ row = [c \in Customers |-> NoRow]
    /\ shaken = {}
    /\ tick = [at |-> "idle", day |-> 0]
    /\ due = <<>>
    /\ request = [q \in Requests |-> NoRequest]
    /\ sent = 0

-------------------------------------------------------------------------------
(* Time and traffic. *)

BetweenRequests == MayOverlap \/ \A q \in Requests : request[q].op = "none"

NextDay ==
    /\ now < MaxDay /\ BetweenRequests
    /\ now' = now + 1
    /\ UNCHANGED <<row, shaken, tick, due, request, sent>>

\* A device connects: only one whose customer is served can.
Shake(c) ==
    /\ row[c].status = "active" /\ c \notin shaken /\ BetweenRequests
    /\ shaken' = shaken \cup {c}
    /\ UNCHANGED <<now, row, tick, due, request, sent>>

\* The traffic writer books a packet of theirs.
Flush(c) ==
    /\ row[c].status = "active" /\ row[c].used < MaxUsed /\ BetweenRequests
    /\ c \in shaken
    /\ row' = [row EXCEPT ![c].used = @ + 1]
    /\ UNCHANGED <<now, shaken, tick, due, request, sent>>

-------------------------------------------------------------------------------
(* The tick: evaluate. *)

\* Only those online are looked for.
TickStart_Wrong ==
    /\ tick.at = "idle" /\ BetweenRequests
    /\ tick' = [at |-> "activate", day |-> now]
    /\ due' = [c \in {c \in shaken : row[c].status = "active" /\ Deferred(row[c])}
                 |-> row[c]]
    /\ UNCHANGED <<now, row, shaken, request, sent>>

\* activate reads the waiting customers with a handshake on record.
TickStart ==
    /\ tick.at = "idle" /\ BetweenRequests
    /\ tick' = [at |-> "activate", day |-> now]
    /\ due' = [c \in {c \in shaken : Exists(c) /\ Deferred(row[c]) /\ row[c].days > 0}
                 |-> row[c]]
    /\ UNCHANGED <<now, row, shaken, request, sent>>

\* One of them is started, unless they were since, or are gone.
ActivateOne(c) ==
    /\ tick.at = "activate" /\ c \in DOMAIN due /\ BetweenRequests
    /\ row' = IF Exists(c) /\ row[c].activated = None
              THEN [row EXCEPT ![c].activated = tick.day,
                               ![c].expires = tick.day + due[c].days]
              ELSE row
    /\ due' = [d \in DOMAIN due \ {c} |-> due[d]]
    /\ UNCHANGED <<now, shaken, tick, request, sent>>

\* maybeRenew looks once a minute, so most ticks pass it by.
RenewSkip ==
    /\ tick.at = "activate" /\ DOMAIN due = {} /\ BetweenRequests
    /\ tick' = [tick EXCEPT !.at = "renew"]
    /\ UNCHANGED <<now, row, shaken, due, request, sent>>

\* renew reads the plans that renew and works out which are due.
RenewRead ==
    /\ tick.at = "activate" /\ DOMAIN due = {} /\ BetweenRequests
    /\ tick' = [tick EXCEPT !.at = "renew"]
    /\ due' = [c \in {c \in Customers :
                        /\ Exists(c) /\ row[c].cycle # "none"
                        /\ ~Deferred(row[c])
                        /\ Period(row[c].cycle, Anchor(row[c])) <= tick.day}
                 |-> row[c]]
    /\ UNCHANGED <<now, row, shaken, request, sent>>

\* It does not look whether the count was begun anew.
RenewOne_Wrong(c) ==
    /\ tick.at = "renew" /\ c \in DOMAIN due /\ BetweenRequests
    /\ LET read == due[c]
           at == LastBoundary(read.cycle, Anchor(read), tick.day)
       IN  row' = IF Exists(c)
                  THEN [row EXCEPT
                          ![c].used = 0, ![c].reset = at,
                          ![c].status = IF read.status = "exhausted" THEN "active" ELSE @]
                  ELSE row
    /\ due' = [d \in DOMAIN due \ {c} |-> due[d]]
    /\ UNCHANGED <<now, shaken, tick, request, sent>>

\* One of them gets their traffic back as of the boundary, unless their count
\* was begun anew since.
RenewOne(c) ==
    /\ tick.at = "renew" /\ c \in DOMAIN due /\ BetweenRequests
    /\ LET read == due[c]
           at == LastBoundary(read.cycle, Anchor(read), tick.day)
       IN  row' = IF Exists(c) /\ (row[c].reset = None \/ row[c].reset < at)
                  THEN [row EXCEPT
                          ![c].used = 0, ![c].reset = at,
                          ![c].status = IF read.status = "exhausted" THEN "active" ELSE @]
                  ELSE row
    /\ due' = [d \in DOMAIN due \ {c} |-> due[d]]
    /\ UNCHANGED <<now, shaken, tick, request, sent>>

\* Who has used up their allowance is cut off; a customer the kernel has cut
\* off may be a packet short of it in the books.
Sweep ==
    /\ tick.at = "renew" /\ DOMAIN due = {} /\ BetweenRequests
    /\ \E spent \in SUBSET {c \in Customers : row[c].used + 1 = row[c].quota} :
         row' = [c \in Customers |->
                   IF /\ row[c].status = "active" /\ row[c].quota > 0
                      /\ row[c].used >= row[c].quota \/ c \in spent
                   THEN [row[c] EXCEPT !.status = "exhausted"] ELSE row[c]]
    /\ tick' = [tick EXCEPT !.at = "expire"]
    /\ UNCHANGED <<now, shaken, due, request, sent>>

\* Only those still online are looked at.
Expire_Wrong ==
    /\ tick.at = "expire" /\ BetweenRequests
    /\ row' = [c \in Customers |->
                 IF /\ row[c].status = "active"
                    /\ row[c].expires # None /\ row[c].expires <= tick.day
                 THEN [row[c] EXCEPT !.status = "expired"] ELSE row[c]]
    /\ tick' = [tick EXCEPT !.at = "idle"]
    /\ UNCHANGED <<now, shaken, due, request, sent>>

\* Whose time is up is cut off.
Expire ==
    /\ tick.at = "expire" /\ BetweenRequests
    /\ row' = [c \in Customers |->
                 IF /\ row[c].status \in {"active", "exhausted"}
                    /\ row[c].expires # None /\ row[c].expires <= tick.day
                 THEN [row[c] EXCEPT !.status = "expired"] ELSE row[c]]
    /\ tick' = [tick EXCEPT !.at = "idle"]
    /\ UNCHANGED <<now, shaken, due, request, sent>>

Tick ==
    \/ TickStart \/ RenewSkip \/ RenewRead \/ Sweep \/ Expire
    \/ \E c \in Customers : ActivateOne(c) \/ RenewOne(c)

-------------------------------------------------------------------------------
(* Requests. *)

\* Create: a plan that waits for its first connection has a length and no date.
Create(c) ==
    /\ row[c].status = "gone" /\ BetweenRequests
    /\ \E p \in Plans :
         LET waits == p.start /\ p.days > 0
         IN  row' = [row EXCEPT ![c] =
                       [NoRow EXCEPT
                          !.status = p.status, !.quota = p.quota, !.cycle = p.cycle,
                          !.created = now, !.start = waits,
                          !.days = IF waits THEN p.days ELSE 0,
                          !.expires = IF waits THEN None ELSE p.expires]]
    /\ UNCHANGED <<now, shaken, tick, due, request, sent>>

\* A request that reads the customer first: what it read is what it goes by.
Ask(q) ==
    /\ request[q].op = "none" /\ sent < MaxRequests /\ BetweenRequests
    /\ \E c \in {c \in Customers : Exists(c)},
          asked \in [op : {"update"}, in : Updates]
                      \cup [op : Allowed \cap {"adjust"}, in : Shares]
                      \cup [op : Allowed \cap {"adjustQuota"}, in : {0, 2}]
                      \cup [op : Allowed \cap {"reset", "delete"}, in : {0}] :
         request' = [request EXCEPT ![q] =
                       [op |-> asked.op, in |-> asked.in, of |-> c,
                        read |-> row[c], day |-> now]]
    /\ sent' = sent + 1
    /\ UNCHANGED <<now, row, shaken, tick, due>>

\* What Update makes of the row r: the columns named in the form, worked out
\* from the row it read.
Pick(given, old) == IF given = Keep THEN old ELSE given

\* revives: more traffic or a later end puts who was cut off back online.
Revives(read, in) ==
    /\ in.status = Keep
    /\ \/ read.status = "exhausted" /\ in.quota # Keep /\ in.quota > read.used
       \/ /\ read.status = "expired" /\ in.expires # Keep
          /\ in.expires = None \/ in.expires > now

\* A plan that has begun is made to wait again.
Updated_Wrong(r, read, in) ==
    LET on   == Pick(in.start, read.start)
        days == Pick(in.days, read.days)
        form == in.start # Keep \/ in.days # Keep
        wait == on /\ days > 0
    IN  [r EXCEPT
           !.quota   = Pick(in.quota, @),
           !.cycle   = Pick(in.cycle, @),
           !.expires = IF form /\ wait THEN None ELSE Pick(in.expires, @),
           !.start   = IF form THEN wait ELSE @,
           !.days    = IF form THEN IF wait THEN days ELSE 0 ELSE @,
           !.status  = IF Revives(read, in) THEN "active" ELSE Pick(in.status, @)]

Updated(r, read, in) ==
    LET on   == Pick(in.start, read.start)
        days == Pick(in.days, read.days)
        form == in.start # Keep \/ in.days # Keep
        wait == on /\ days > 0 /\ read.activated = None
    IN  [r EXCEPT
           !.quota   = Pick(in.quota, @),
           !.cycle   = Pick(in.cycle, @),
           !.expires = IF form /\ wait THEN None ELSE Pick(in.expires, @),
           !.start   = IF form THEN wait ELSE @,
           !.days    = IF form THEN IF wait THEN days ELSE 0 ELSE @,
           !.status  = IF Revives(read, in) THEN "active" ELSE Pick(in.status, @)]

\* ResetTraffic.
Zeroed(r, read, day) ==
    [r EXCEPT !.used = 0, !.reset = day,
              !.status = IF read.status = "exhausted" THEN "active" ELSE @]

\* Adjust gives days from the end the customer had, or from today.
Adjusted(r, read, day, share) ==
    LET next == share + IF read.expires # None /\ read.expires > day
                        THEN read.expires ELSE day
    IN  [r EXCEPT !.expires = next,
                  !.status = IF read.status = "expired" /\ next > day
                             THEN "active" ELSE @]

\* Adjust gives a quota; none is no limit.
Rationed(r, read, quota) ==
    [r EXCEPT !.quota = quota,
              !.status = IF /\ read.status = "exhausted"
                            /\ quota = 0 \/ read.used < quota
                         THEN "active" ELSE @]

\* The request's one write.  A customer deleted since has no row to write.
Answer(q) ==
    LET a == request[q]
        c == a.of
        r == row[c]
    IN  /\ a.op # "none"
        /\ row' = IF ~Exists(c) THEN row ELSE [row EXCEPT ![c] =
             CASE a.op = "update"      -> Updated(r, a.read, a.in)
               [] a.op = "reset"       -> Zeroed(r, a.read, a.day)
               [] a.op = "adjust"      -> Adjusted(r, a.read, a.day, a.in)
               [] a.op = "adjustQuota" -> Rationed(r, a.read, a.in)
               [] a.op = "delete"      -> [NoRow EXCEPT !.status = "deleted"]]
        /\ request' = [request EXCEPT ![q] = NoRequest]
        /\ UNCHANGED <<now, shaken, tick, due, sent>>

\* Bulk's switches and its reset are single statements.
Bulk(c) ==
    /\ Exists(c) /\ sent < MaxRequests /\ BetweenRequests
    /\ \/ /\ "enable" \in Allowed
          /\ row' = [row EXCEPT ![c].status = "active"]
       \/ /\ "disable" \in Allowed
          /\ row' = [row EXCEPT ![c].status = "disabled"]
       \/ /\ "bulkReset" \in Allowed
          /\ row' = [row EXCEPT ![c] = Zeroed(@, @, now)]
    /\ sent' = sent + 1
    /\ UNCHANGED <<now, shaken, tick, due, request>>

\* Extend by days, in one transaction: a waiting plan gets longer, if the
\* operator asks for those too, a dated one ends later, one without an end is
\* passed over.
ExtendTime(c) ==
    /\ "extend" \in Allowed
    /\ Exists(c) /\ sent < MaxRequests /\ BetweenRequests
    /\ \E share \in Shares :
         LET r == IF Waiting(row[c]) THEN [row[c] EXCEPT !.days = @ + share]
                  ELSE [row[c] EXCEPT !.expires = @ + share]
         IN  /\ IF Waiting(row[c]) THEN r.days > 0 ELSE row[c].expires # None
             /\ row' = [row EXCEPT ![c] = [r EXCEPT !.status = AutoStatus(r, now)]]
    /\ sent' = sent + 1
    /\ UNCHANGED <<now, shaken, tick, due, request>>

\* Extend by traffic: never below what is used, and never to nothing.
ExtendTraffic(c) ==
    /\ "traffic" \in Allowed
    /\ Exists(c) /\ row[c].quota > 0 /\ sent < MaxRequests /\ BetweenRequests
    /\ \E share \in Shares :
         LET floor == IF row[c].used > 1 THEN row[c].used ELSE 1
             floored == row[c].quota + share < floor
             r == [row[c] EXCEPT !.quota = IF floored THEN floor ELSE @ + share]
             after == AutoStatus(r, now)
         IN  row' = [row EXCEPT ![c] =
                       [r EXCEPT !.status = IF floored /\ after = "active"
                                            THEN "exhausted" ELSE after]]
    /\ sent' = sent + 1
    /\ UNCHANGED <<now, shaken, tick, due, request>>

-------------------------------------------------------------------------------
(* The specification. *)

Operator ==
    \/ \E q \in Requests : Ask(q) \/ Answer(q)
    \/ \E c \in Customers : Create(c) \/ Bulk(c) \/ ExtendTime(c) \/ ExtendTraffic(c)

Next == NextDay \/ Tick \/ Operator \/ \E c \in Customers : Shake(c) \/ Flush(c)

Spec == Init /\ [][Next]_vars

\* The reconciler's loop keeps ticking and looks at the renewals every minute;
\* a request that was read is answered.
Fairness ==
    /\ WF_vars(Tick) /\ SF_vars(RenewRead)
    /\ \A c \in Customers : WF_vars(ActivateOne(c)) /\ WF_vars(RenewOne(c))
    /\ \A q \in Requests : WF_vars(Answer(q))

FairSpec == Spec /\ Fairness

-------------------------------------------------------------------------------
(* Properties. *)

Begun(r) == r.status \notin {"gone", "deleted"} /\ r.activated # None

\* A plan sold by its length ends: once its first connection began it, nothing
\* but an operator who clears the date leaves it without one.  It is put
\* together by the tick, from a list it read, and by edits of the same
\* columns, so each must leave what the other settled.
StartedPlansEnd ==
    [][\A c \in Customers :
         (Begun(row'[c]) /\ row'[c].expires = None)
           => \/ Begun(row[c]) /\ row[c].expires = None
              \/ \E q \in Requests :
                   /\ request[q].op = "update" /\ request[q].of = c
                   /\ request[q].in.expires = None /\ request'[q] = NoRequest]_vars

\* A renewal never takes a customer's count back to an earlier day than a
\* reset made since, nor to a day that has not come: the traffic of one
\* period is given once.
RenewalsGoForward ==
    [][Tick => \A c \in Customers : row[c].reset <= row'[c].reset /\ row'[c].reset <= now]_vars

\* A plan renewed by the month keeps its day of the month, however late the
\* panel notices, on the days every month has.
KeepsItsDay ==
    [][\A c \in Customers :
         (/\ Tick /\ tick.at = "renew" /\ c \in DOMAIN due /\ due[c] = row[c]
          /\ row[c].cycle = "monthly" /\ row'[c].reset # row[c].reset
          /\ DayOfMonth(Anchor(row[c])) < ShortestMonth)
           => DayOfMonth(row'[c].reset) = DayOfMonth(Anchor(row[c]))]_vars

\* A customer past their end is cut off in the end, whatever edits and resets
\* come between, unless they are given more time or deleted.
Overdue(c) == row[c].status \in {"active", "exhausted"}
              /\ row[c].expires # None /\ row[c].expires <= now
OverdueCutOff == \A c \in Customers : Overdue(c) ~> ~Overdue(c)

\* A waiting plan that has been connected to begins in the end, unless the
\* operator stops it waiting.
Used(c) == Exists(c) /\ c \in shaken /\ Deferred(row[c])
UsedPlansStart == \A c \in Customers : Used(c) ~> ~Used(c)

===============================================================================
