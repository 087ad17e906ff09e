----------------------------- MODULE CustomersProofs -----------------------------
(***************************************************************************)
(* However many customers, requests and days there are, and whatever the   *)
(* edits: a plan that its first connection began keeps an end, as long as  *)
(* a request is not overtaken between its read and its write; and,         *)
(* overtaken or not, a renewal gives the traffic of a period once and      *)
(* keeps the day of the month, in any calendar.                            *)
(***************************************************************************)
EXTENDS Customers, WellFoundedInduction, TLAPS

Columns == {"status", "quota", "used", "expires", "start", "days", "activated",
            "reset", "created", "cycle"}

\* A row as far as the end of a plan depends on it.
Plan(r) ==
    /\ DOMAIN r = Columns
    /\ r.days \in Nat
    /\ r.expires \in Nat \cup {None}

Shape ==
    /\ now \in Nat /\ tick.day \in Nat
    /\ DOMAIN row = Customers
    /\ \A c \in Customers : Plan(row[c])
    /\ \A c \in DOMAIN due : due[c].days \in Nat
    /\ DOMAIN tick = {"at", "day"}
    /\ DOMAIN request = Requests /\ shaken \subseteq Customers

Ops == {"none", "update", "reset", "adjust", "adjustQuota", "delete"}

\* What a request in flight asks and has read.
Asked ==
    \A q \in Requests :
        /\ request[q].op \in Ops
        /\ request[q].op # "none" =>
              request[q].of \in Customers /\ Plan(request[q].read) /\ request[q].day \in Nat
        /\ request[q].op = "update" => request[q].in \in Updates
        /\ request[q].op = "adjust" => request[q].in \in Shares

\* What it has read is what the row still is, and no other request has read.
Current ==
    \A q \in Requests : request[q].op # "none" =>
        /\ request[q].read = row[request[q].of]
        /\ \A p \in Requests \ {q} : request[p].op = "none"

IInv == Shape /\ Asked /\ Current

LEMMA Initially == Init => IInv
  BY DEF Init, IInv, Shape, Asked, Ops, Current, Plan, Columns, NoRow, NoRequest, None

\* Steps of the tick, of time and of traffic come where no request is waited for.
LEMMA QuietKeepsRequests ==
  ASSUME IInv, BetweenRequests, ~MayOverlap, UNCHANGED request
  PROVE  Asked' /\ Current'
  BY DEF IInv, Asked, Current, BetweenRequests

\* A column other than these three may be written at will.
LEMMA OtherColumns ==
  ASSUME NEW r, NEW s, Plan(r), DOMAIN s = DOMAIN r,
         s.days = r.days, s.expires = r.expires
  PROVE  Plan(s)
  BY DEF Plan

\* One row is written, and what the tick has read is worked off.
LEMMA WriteKeepsShape ==
  ASSUME Shape, NEW c \in Customers, NEW r, Plan(r), row' = [row EXCEPT ![c] = r],
         NEW left \in SUBSET DOMAIN due, due' = [d \in left |-> due[d]],
         UNCHANGED <<now, tick>>, DOMAIN request' = Requests, UNCHANGED shaken
  PROVE  Shape'
<1>1. DOMAIN row' = Customers /\ \A d \in Customers : Plan(row'[d])
  BY DEF Shape
<1>2. \A d \in DOMAIN due' : due'[d].days \in Nat
  BY DEF Shape
<1>3. QED
  BY <1>1, <1>2 DEF Shape

LEMMA ActivateKeeps ==
  ASSUME Shape, NEW c \in Customers, ActivateOne(c)
  PROVE  Shape'
<1>1. tick.day + due[c].days \in Nat /\ c \in DOMAIN due
  BY DEF ActivateOne, Shape
<1>2. \A d \in Customers : Plan(row'[d])
  BY <1>1 DEF ActivateOne, Shape, Plan, Columns
<1>3. DOMAIN row' = Customers /\ \A d \in DOMAIN due' : due'[d].days \in Nat
  BY DEF ActivateOne, Shape
<1>4. QED
  BY <1>2, <1>3 DEF ActivateOne, Shape

LEMMA RenewKeeps ==
  ASSUME Shape, NEW c \in Customers, RenewOne(c)
  PROVE  Shape'
<1> DEFINE at == LastBoundary(due[c].cycle, Anchor(due[c]), tick.day)
<1>1. \/ row' = row
      \/ row' = [row EXCEPT ![c].used = 0, ![c].reset = at,
                            ![c].status = IF due[c].status = "exhausted" THEN "active" ELSE @]
  BY DEF RenewOne
<1> HIDE DEF at
<1>2. DOMAIN row' = Customers /\ \A d \in Customers : Plan(row'[d])
  BY <1>1 DEF Shape, Plan, Columns
<1>3. \A d \in DOMAIN due' : due'[d].days \in Nat
  BY DEF RenewOne, Shape
<1>4. QED
  BY <1>2, <1>3 DEF RenewOne, Shape

\* The rest of the tick, and time and traffic.
LEMMA QuietKeepsShape ==
  ASSUME Shape,
         \/ NextDay \/ TickStart \/ RenewSkip \/ RenewRead \/ Sweep \/ Expire
         \/ \E c \in Customers : Shake(c) \/ Flush(c)
  PROVE  Shape'
<1>1. CASE NextDay
  BY <1>1 DEF NextDay, Shape
<1>2. CASE TickStart
  BY <1>2 DEF TickStart, Shape, Plan
<1>3. CASE RenewSkip
  BY <1>3 DEF RenewSkip, Shape
<1>4. CASE RenewRead
  <2>1. \A d \in DOMAIN due' : due'[d].days \in Nat
    BY <1>4 DEF RenewRead, Shape, Plan
  <2>2. QED
    BY <1>4, <2>1 DEF RenewRead, Shape
<1>5. CASE Sweep
  <2>1. \A c \in Customers : Plan(row'[c])
    BY <1>5 DEF Sweep, Shape, Plan, Columns
  <2>2. QED
    BY <1>5, <2>1 DEF Sweep, Shape
<1>6. CASE Expire
  <2>1. \A c \in Customers : Plan(row'[c])
    BY <1>6 DEF Expire, Shape, Plan, Columns
  <2>2. QED
    BY <1>6, <2>1 DEF Expire, Shape
<1>7. ASSUME NEW c \in Customers, Shake(c) PROVE Shape'
  BY <1>7 DEF Shake, Shape
<1>8. ASSUME NEW c \in Customers, Flush(c) PROVE Shape'
  <2>1. \A d \in Customers : Plan(row'[d])
    BY <1>8 DEF Flush, Shape, Plan, Columns
  <2>2. QED
    BY <1>8, <2>1 DEF Flush, Shape
<1>9. QED
  BY <1>1, <1>2, <1>3, <1>4, <1>5, <1>6, <1>7, <1>8

-----------------------------------------------------------------------------
(* What each request makes of a row.                                       *)

LEMMA UpdatedRow ==
  ASSUME NEW r, NEW read, NEW in \in Updates, Plan(r), Plan(read), Columns = DOMAIN r
  PROVE  /\ Plan(Updated(r, read, in))
         /\ Updated(r, read, in).activated = r.activated
         /\ Updated(r, read, in).expires = None =>
               read.activated = None \/ in.expires = None \/ r.expires = None
<1> DEFINE on   == Pick(in.start, read.start)
           days == Pick(in.days, read.days)
           form == in.start # Keep \/ in.days # Keep
           wait == on /\ days > 0 /\ read.activated = None
           s    == Updated(r, read, in)
<1>1. days \in Nat
  BY CustomersAssumption DEF Pick, Plan
<1>2. Pick(in.expires, r.expires) \in Nat \cup {None}
  BY CustomersAssumption DEF Pick, Plan
<1>3. /\ DOMAIN s = Columns
      /\ s.expires = IF form /\ wait THEN None ELSE Pick(in.expires, r.expires)
      /\ s.days = IF form THEN IF wait THEN days ELSE 0 ELSE r.days
      /\ s.activated = r.activated
  BY DEF Updated, Plan, Columns
<1>4. s.days \in Nat /\ s.expires \in Nat \cup {None}
  BY <1>1, <1>2, <1>3 DEF Plan
<1>5. s.expires = None => read.activated = None \/ in.expires = None \/ r.expires = None
  BY <1>3 DEF Pick
<1>6. QED
  BY <1>3, <1>4, <1>5 DEF Plan

LEMMA AdjustedRow ==
  ASSUME NEW r, NEW read, NEW day \in Nat, NEW share \in Nat, Plan(r), Plan(read)
  PROVE  /\ Plan(Adjusted(r, read, day, share))
         /\ Adjusted(r, read, day, share).expires # None
<1> DEFINE next == share + IF read.expires # None /\ read.expires > day
                           THEN read.expires ELSE day
<1>1. next \in Nat
  BY DEF Plan, None
<1>2. /\ DOMAIN Adjusted(r, read, day, share) = Columns
      /\ Adjusted(r, read, day, share).expires = next
      /\ Adjusted(r, read, day, share).days = r.days
  <2> HIDE DEF next
  <2>1. Adjusted(r, read, day, share) =
          [r EXCEPT !.expires = next,
                    !.status = IF read.status = "expired" /\ next > day THEN "active" ELSE @]
    BY DEF Adjusted, next
  <2>2. QED
    BY <2>1 DEF Plan, Columns
<1>3. QED
  BY <1>1, <1>2 DEF Plan, None

LEMMA ZeroedRow ==
  ASSUME NEW r, NEW read, NEW day, Plan(r)
  PROVE  /\ Plan(Zeroed(r, read, day))
         /\ Zeroed(r, read, day).expires = r.expires
         /\ Zeroed(r, read, day).activated = r.activated
  BY DEF Zeroed, Plan, Columns

LEMMA RationedRow ==
  ASSUME NEW r, NEW read, NEW quota, Plan(r)
  PROVE  /\ Plan(Rationed(r, read, quota))
         /\ Rationed(r, read, quota).expires = r.expires
         /\ Rationed(r, read, quota).activated = r.activated
  BY DEF Rationed, Plan, Columns

LEMMA DeletedRow == Plan([NoRow EXCEPT !.status = "deleted"])
  BY DEF Plan, Columns, NoRow, None

\* Only one without an end is left without one by an answer, or by an update
\* that says so, or goes by a plan that had not begun.
AnswerSound(q) ==
    LET a == request[q]
        c == a.of
        r == row[c]
    IN  Begun(row'[c]) /\ row'[c].expires = None =>
           \/ r.expires = None /\ r.activated # None
           \/ a.op = "update" /\ (a.in.expires = None \/ a.read.activated # r.activated)

LEMMA AnswerKeeps ==
  ASSUME Shape, Asked, Shares \subseteq Nat, NEW q \in Requests, Answer(q)
  PROVE  /\ \A c \in Customers : Plan(row'[c])
         /\ DOMAIN row' = Customers
         /\ \A c \in Customers \ {request[q].of} : row'[c] = row[c]
         /\ AnswerSound(q)
<1> DEFINE a == request[q]
           c == a.of
           r == row[c]
<1>1. a.op \in Ops \ {"none"} /\ c \in Customers /\ Plan(a.read) /\ a.day \in Nat /\ Plan(r)
  BY DEF Answer, Asked, Shape
<1>2. CASE ~Exists(c)
  <2>1. row' = row
    BY <1>2 DEF Answer
  <2>2. QED
    BY <2>1, <1>2 DEF Shape, AnswerSound, Begun, Exists
<1>3. CASE Exists(c)
  <2> SUFFICES ASSUME NEW s, row' = [row EXCEPT ![c] = s],
                      \/ a.op = "update"      /\ s = Updated(r, a.read, a.in)
                      \/ a.op = "reset"       /\ s = Zeroed(r, a.read, a.day)
                      \/ a.op = "adjust"      /\ s = Adjusted(r, a.read, a.day, a.in)
                      \/ a.op = "adjustQuota" /\ s = Rationed(r, a.read, a.in)
                      \/ a.op = "delete"      /\ s = [NoRow EXCEPT !.status = "deleted"]
               PROVE  /\ Plan(s)
                      /\ s.activated # None /\ s.expires = None
                            /\ s.status # "deleted" =>
                           \/ r.expires = None /\ r.activated # None
                           \/ a.op = "update" /\ (a.in.expires = None \/ a.read.activated # r.activated)
    <3> DEFINE new == CASE a.op = "update"      -> Updated(r, a.read, a.in)
                        [] a.op = "reset"       -> Zeroed(r, a.read, a.day)
                        [] a.op = "adjust"      -> Adjusted(r, a.read, a.day, a.in)
                        [] a.op = "adjustQuota" -> Rationed(r, a.read, a.in)
                        [] a.op = "delete"      -> [NoRow EXCEPT !.status = "deleted"]
    <3>1. row' = [row EXCEPT ![c] = new]
      BY <1>3 DEF Answer
    <3>2. \/ a.op = "update"      /\ new = Updated(r, a.read, a.in)
          \/ a.op = "reset"       /\ new = Zeroed(r, a.read, a.day)
          \/ a.op = "adjust"      /\ new = Adjusted(r, a.read, a.day, a.in)
          \/ a.op = "adjustQuota" /\ new = Rationed(r, a.read, a.in)
          \/ a.op = "delete"      /\ new = [NoRow EXCEPT !.status = "deleted"]
      BY <1>1 DEF Ops
    <3> HIDE DEF new
    <3>3. row'[c] = new
      BY <3>1, <1>1 DEF Shape
    <3>4. QED
      BY <3>1, <3>2, <3>3, <1>1 DEF Shape, AnswerSound, Begun
  <2>1. CASE a.op = "update" /\ s = Updated(r, a.read, a.in)
    BY <2>1, <1>1, UpdatedRow DEF Asked, Plan
  <2>2. CASE a.op = "reset" /\ s = Zeroed(r, a.read, a.day)
    BY <2>2, <1>1, ZeroedRow
  <2>3. CASE a.op = "adjust" /\ s = Adjusted(r, a.read, a.day, a.in)
    BY <2>3, <1>1, AdjustedRow DEF Asked
  <2>4. CASE a.op = "adjustQuota" /\ s = Rationed(r, a.read, a.in)
    BY <2>4, <1>1, RationedRow
  <2>5. CASE a.op = "delete" /\ s = [NoRow EXCEPT !.status = "deleted"]
    <3>1. s.status = "deleted"
      BY <2>5 DEF NoRow
    <3>2. QED
      BY <2>5, <3>1, DeletedRow
  <2>6. QED
    BY <2>1, <2>2, <2>3, <2>4, <2>5
<1>4. QED
  BY <1>2, <1>3

-----------------------------------------------------------------------------
(* The other requests are single statements.                               *)

\* What one of them writes in a row.
Settles(r, s) == Plan(s) /\ (s.activated # None /\ s.expires = None =>
                               r.activated # None /\ r.expires = None)

LEMMA CreateSettles ==
  ASSUME Shape, NEW c \in Customers, Create(c)
  PROVE  \E s : row' = [row EXCEPT ![c] = s] /\ Settles(row[c], s) /\ s.activated = None
<1>1. PICK p \in Plans : row' = [row EXCEPT ![c] =
                       [NoRow EXCEPT
                          !.status = p.status, !.quota = p.quota, !.cycle = p.cycle,
                          !.created = now, !.start = p.start /\ p.days > 0,
                          !.days = IF p.start /\ p.days > 0 THEN p.days ELSE 0,
                          !.expires = IF p.start /\ p.days > 0 THEN None ELSE p.expires]]
  BY DEF Create
<1> DEFINE s == [NoRow EXCEPT
                          !.status = p.status, !.quota = p.quota, !.cycle = p.cycle,
                          !.created = now, !.start = p.start /\ p.days > 0,
                          !.days = IF p.start /\ p.days > 0 THEN p.days ELSE 0,
                          !.expires = IF p.start /\ p.days > 0 THEN None ELSE p.expires]
<1>2. /\ s.activated = None /\ DOMAIN s = Columns
      /\ s.days = IF p.start /\ p.days > 0 THEN p.days ELSE 0
      /\ s.expires = IF p.start /\ p.days > 0 THEN None ELSE p.expires
  BY DEF NoRow, Columns
<1>3. s.days \in Nat /\ s.expires \in Nat \cup {None}
  BY <1>2, CustomersAssumption
<1>4. Settles(row[c], s)
  BY <1>2, <1>3 DEF Settles, Plan
<1>5. QED
  BY <1>1, <1>2, <1>4

LEMMA BulkSettles ==
  ASSUME Shape, NEW c \in Customers, Bulk(c)
  PROVE  \E s : row' = [row EXCEPT ![c] = s] /\ Settles(row[c], s)
<1>1. Plan(row[c])
  BY DEF Shape
<1>2. CASE row' = [row EXCEPT ![c].status = "active"]
  <2>1. row' = [row EXCEPT ![c] = [row[c] EXCEPT !.status = "active"]]
    BY <1>2
  <2>2. Settles(row[c], [row[c] EXCEPT !.status = "active"])
    BY <1>1 DEF Settles, Plan, Columns
  <2>3. QED
    BY <2>1, <2>2
<1>3. CASE row' = [row EXCEPT ![c].status = "disabled"]
  <2>1. row' = [row EXCEPT ![c] = [row[c] EXCEPT !.status = "disabled"]]
    BY <1>3
  <2>2. Settles(row[c], [row[c] EXCEPT !.status = "disabled"])
    BY <1>1 DEF Settles, Plan, Columns
  <2>3. QED
    BY <2>1, <2>2
<1>4. CASE row' = [row EXCEPT ![c] = Zeroed(@, @, now)]
  <2>1. row' = [row EXCEPT ![c] = Zeroed(row[c], row[c], now)]
    BY <1>4
  <2>2. Settles(row[c], Zeroed(row[c], row[c], now))
    BY <1>1, ZeroedRow DEF Settles
  <2>3. QED
    BY <2>1, <2>2
<1>5. QED
  BY <1>2, <1>3, <1>4 DEF Bulk

LEMMA ExtendTimeSettles ==
  ASSUME Shape, NEW c \in Customers, ExtendTime(c), Shares \subseteq Nat
  PROVE  \E s : row' = [row EXCEPT ![c] = s] /\ Settles(row[c], s)
<1>1. Plan(row[c])
  BY DEF Shape
<1>2. PICK share \in Shares :
        LET r == IF Waiting(row[c]) THEN [row[c] EXCEPT !.days = @ + share]
                 ELSE [row[c] EXCEPT !.expires = @ + share]
        IN  /\ IF Waiting(row[c]) THEN r.days > 0 ELSE row[c].expires # None
            /\ row' = [row EXCEPT ![c] = [r EXCEPT !.status = AutoStatus(r, now)]]
  BY DEF ExtendTime
<1> DEFINE r == IF Waiting(row[c]) THEN [row[c] EXCEPT !.days = @ + share]
                ELSE [row[c] EXCEPT !.expires = @ + share]
           s == [r EXCEPT !.status = AutoStatus(r, now)]
<1>3. share \in Nat
  OBVIOUS
<1>4. Plan(r) /\ r.activated = row[c].activated
      /\ (r.expires = None => row[c].expires = None)
  <2>1. CASE Waiting(row[c])
    BY <2>1, <1>1, <1>3 DEF Plan, Columns
  <2>2. CASE ~Waiting(row[c])
    <3>1. row[c].expires \in Nat
      BY <1>1, <1>2, <2>2 DEF Plan
    <3>2. QED
      BY <2>2, <3>1, <1>1, <1>3 DEF Plan, Columns, None
  <2>3. QED
    BY <2>1, <2>2
<1>5. row' = [row EXCEPT ![c] = s]
  BY <1>2
<1> HIDE DEF r
<1>6. Plan(s) /\ s.activated = r.activated /\ s.expires = r.expires
  BY <1>4 DEF Plan, Columns
<1>7. Settles(row[c], s)
  BY <1>4, <1>6 DEF Settles
<1>8. QED
  BY <1>5, <1>7

LEMMA ExtendTrafficSettles ==
  ASSUME Shape, NEW c \in Customers, ExtendTraffic(c)
  PROVE  \E s : row' = [row EXCEPT ![c] = s] /\ Settles(row[c], s)
<1>1. Plan(row[c])
  BY DEF Shape
<1>2. PICK quota, status :
        row' = [row EXCEPT ![c] = [[row[c] EXCEPT !.quota = quota] EXCEPT !.status = status]]
  BY DEF ExtendTraffic
<1>3. Settles(row[c], [[row[c] EXCEPT !.quota = quota] EXCEPT !.status = status])
  BY <1>1 DEF Settles, Plan, Columns
<1>4. QED
  BY <1>2, <1>3

LEMMA AskKeeps ==
  ASSUME IInv, NEW q \in Requests, Ask(q), ~MayOverlap
  PROVE  IInv'
<1>1. \A p \in Requests : request[p].op = "none"
  BY DEF Ask, BetweenRequests
<1>2. PICK c \in Customers,
          asked \in [op : {"update"}, in : Updates]
                      \cup [op : Allowed \cap {"adjust"}, in : Shares]
                      \cup [op : Allowed \cap {"adjustQuota"}, in : {0, 2}]
                      \cup [op : Allowed \cap {"reset", "delete"}, in : {0}] :
         request' = [request EXCEPT ![q] =
                       [op |-> asked.op, in |-> asked.in, of |-> c,
                        read |-> row[c], day |-> now]]
  BY DEF Ask
<1>3. /\ asked.op \in Ops
      /\ asked.op = "update" => asked.in \in Updates
      /\ asked.op = "adjust" => asked.in \in Shares
  BY DEF Ops
<1>4. request'[q] = [op |-> asked.op, in |-> asked.in, of |-> c, read |-> row[c], day |-> now]
      /\ \A p \in Requests \ {q} : request'[p] = request[p]
      /\ DOMAIN request' = Requests
  BY <1>2 DEF IInv, Shape
<1>5. Plan(row[c]) /\ now \in Nat
  BY DEF IInv, Shape
<1>6. Asked'
  BY <1>1, <1>3, <1>4, <1>5 DEF Asked, Ops, Ask
<1>7. Current'
  BY <1>1, <1>4 DEF Current, Ask
<1>8. Shape'
  BY <1>4 DEF IInv, Shape, Ask
<1>9. QED
  BY <1>6, <1>7, <1>8 DEF IInv

-----------------------------------------------------------------------------
(* Together.                                                               *)

LEMMA SingleStatementKeeps ==
  ASSUME IInv, BetweenRequests, ~MayOverlap, Shares \subseteq Nat,
         NEW c \in Customers, Create(c) \/ Bulk(c) \/ ExtendTime(c) \/ ExtendTraffic(c)
  PROVE  /\ IInv'
         /\ \A d \in Customers : Begun(row'[d]) /\ row'[d].expires = None =>
               Begun(row[d]) /\ row[d].expires = None
<1>1. PICK s : row' = [row EXCEPT ![c] = s] /\ Settles(row[c], s)
  BY CreateSettles, BulkSettles, ExtendTimeSettles, ExtendTrafficSettles DEF IInv
<1>2. UNCHANGED <<now, shaken, tick, due, request>>
  BY DEF Create, Bulk, ExtendTime, ExtendTraffic
<1>3. \A d \in Customers : row'[d] = IF d = c THEN s ELSE row[d]
  BY <1>1 DEF IInv, Shape
<1>4. DOMAIN row' = Customers
  BY <1>1 DEF IInv, Shape
<1>5. Shape'
  BY <1>1, <1>2, <1>3, <1>4 DEF IInv, Shape, Settles
<1>6. \A d \in Customers : Begun(row'[d]) /\ row'[d].expires = None =>
         Begun(row[d]) /\ row[d].expires = None
  <2>1. Exists(c) \/ s.activated = None
    <3>1. CASE Create(c)
      <4>1. row'[c].activated = None
        BY <3>1, CreateSettles DEF IInv, Shape
      <4>2. QED
        BY <4>1, <1>3
    <3>2. CASE Bulk(c) \/ ExtendTime(c) \/ ExtendTraffic(c)
      BY <3>2 DEF Bulk, ExtendTime, ExtendTraffic
    <3>3. QED
      BY <3>1, <3>2
  <2>2. QED
    BY <1>1, <1>3, <2>1 DEF Settles, Begun, Exists
<1>7. QED
  BY <1>2, <1>5, <1>6, QuietKeepsRequests DEF IInv

LEMMA TickLeavesEnds ==
  ASSUME Shape, NEW c \in Customers,
         \/ NextDay \/ Tick \/ \E d \in Customers : Shake(d) \/ Flush(d),
         Begun(row'[c]), row'[c].expires = None
  PROVE  Begun(row[c]) /\ row[c].expires = None
<1>1. ASSUME NEW d \in Customers, ActivateOne(d) PROVE Begun(row[c]) /\ row[c].expires = None
  <2>1. tick.day + due[d].days \in Nat
    BY <1>1 DEF ActivateOne, Shape
  <2>2. QED
    BY <1>1, <2>1 DEF ActivateOne, Shape, Begun, Plan, Columns, None
<1>2. ASSUME NEW d \in Customers, RenewOne(d) PROVE Begun(row[c]) /\ row[c].expires = None
  <2> DEFINE at == LastBoundary(due[d].cycle, Anchor(due[d]), tick.day)
  <2>1. \/ row' = row
        \/ /\ row' = [row EXCEPT ![d].used = 0, ![d].reset = at,
                            ![d].status = IF due[d].status = "exhausted" THEN "active" ELSE @]
           /\ Exists(d)
    BY <1>2 DEF RenewOne
  <2> HIDE DEF at
  <2>2. QED
    BY <2>1 DEF Shape, Begun, Plan, Columns, Exists
<1>3. CASE Sweep
  BY <1>3 DEF Sweep, Shape, Begun, Plan, Columns
<1>4. CASE Expire
  BY <1>4 DEF Expire, Shape, Begun, Plan, Columns
<1>5. ASSUME NEW d \in Customers, Flush(d) PROVE Begun(row[c]) /\ row[c].expires = None
  BY <1>5 DEF Flush, Shape, Begun, Plan, Columns
<1>6. CASE UNCHANGED row
  BY <1>6
<1>7. QED
  BY <1>1, <1>2, <1>3, <1>4, <1>5, <1>6 DEF Tick, NextDay, TickStart, RenewSkip, RenewRead, Shake

LEMMA Step ==
  ASSUME ~MayOverlap, Shares \subseteq Nat, IInv, [Next]_vars
  PROVE  /\ IInv'
         /\ \A c \in Customers :
              (Begun(row'[c]) /\ row'[c].expires = None)
                => \/ Begun(row[c]) /\ row[c].expires = None
                   \/ \E q \in Requests :
                        /\ request[q].op = "update" /\ request[q].of = c
                        /\ request[q].in.expires = None /\ request'[q] = NoRequest
<1>1. CASE NextDay \/ Tick \/ \E c \in Customers : Shake(c) \/ Flush(c)
  <2>1. BetweenRequests /\ UNCHANGED request
    BY <1>1 DEF NextDay, Tick, TickStart, RenewSkip, RenewRead, Sweep, Expire,
                ActivateOne, RenewOne, Shake, Flush
  <2>2. Asked' /\ Current'
    BY <2>1, QuietKeepsRequests
  <2>3. Shape'
    BY <1>1, QuietKeepsShape, ActivateKeeps, RenewKeeps DEF IInv, Tick
  <2>4. QED
    BY <1>1, <2>2, <2>3, TickLeavesEnds DEF IInv
<1>2. ASSUME NEW q \in Requests, Ask(q)
      PROVE  IInv' /\ row' = row
  BY <1>2, AskKeeps DEF Ask
<1>3. ASSUME NEW q \in Requests, Answer(q)
      PROVE  /\ IInv'
             /\ \A c \in Customers :
                  (Begun(row'[c]) /\ row'[c].expires = None)
                    => \/ Begun(row[c]) /\ row[c].expires = None
                       \/ /\ request[q].op = "update" /\ request[q].of = c
                          /\ request[q].in.expires = None /\ request'[q] = NoRequest
  <2>1. /\ \A c \in Customers : Plan(row'[c])
        /\ DOMAIN row' = Customers
        /\ \A c \in Customers \ {request[q].of} : row'[c] = row[c]
        /\ AnswerSound(q)
    BY <1>3, AnswerKeeps DEF IInv
  <2>2. /\ request' = [request EXCEPT ![q] = NoRequest]
        /\ UNCHANGED <<now, shaken, tick, due>>
        /\ request[q].op # "none"
    BY <1>3 DEF Answer
  <2>3. \A p \in Requests : request'[p] = IF p = q THEN NoRequest ELSE request[p]
    BY <2>2 DEF IInv, Shape
  <2>4. \A p \in Requests : request'[p].op = "none"
    BY <2>2, <2>3 DEF IInv, Current, NoRequest
  <2>5. Shape'
    BY <2>1, <2>2 DEF IInv, Shape
  <2>6. Asked' /\ Current'
    BY <2>4 DEF Asked, Current, Ops
  <2>7. request[q].read = row[request[q].of] /\ request[q].of \in Customers
    BY <2>2 DEF IInv, Current, Asked
  <2>8. Begun(row'[request[q].of]) => Begun(row[request[q].of]) \/ row[request[q].of].activated = None
    <3>1. ~Exists(request[q].of) => row' = row
      BY <1>3 DEF Answer
    <3>2. QED
      BY <3>1 DEF Begun, Exists
  <2>9. QED
    BY <2>1, <2>3, <2>5, <2>6, <2>7, <2>8 DEF IInv, AnswerSound, Begun
<1>4. ASSUME NEW c \in Customers, Create(c) \/ Bulk(c) \/ ExtendTime(c) \/ ExtendTraffic(c)
      PROVE  /\ IInv'
             /\ \A d \in Customers : Begun(row'[d]) /\ row'[d].expires = None =>
                   Begun(row[d]) /\ row[d].expires = None
  <2>1. BetweenRequests
    BY <1>4 DEF Create, Bulk, ExtendTime, ExtendTraffic
  <2>2. QED
    BY <1>4, <2>1, SingleStatementKeeps
<1>5. CASE UNCHANGED vars
  <2>1. IInv'
    BY <1>5 DEF vars, IInv, Shape, Asked, Current
  <2>2. QED
    BY <1>5, <2>1 DEF vars
<1>6. QED
  BY <1>1, <1>2, <1>3, <1>4, <1>5 DEF Next, Operator

\* A plan sold by its length ends: for any customers, requests, edits and
\* months, the tick's conditional start (activation.go) and what Update makes
\* of the three columns (service/clients.go) leave each other's dates alone,
\* as long as nothing comes between a request's read and its write, and days
\* are given and not taken.
THEOREM BegunPlansEnd ==
  ASSUME ~MayOverlap, Shares \subseteq Nat
  PROVE  Spec => StartedPlansEnd
<1>1. Init => IInv
  BY Initially
<1>2. IInv /\ [Next]_vars => IInv'
  BY Step
<1>3. IInv /\ [Next]_vars =>
        [\A c \in Customers :
         (Begun(row'[c]) /\ row'[c].expires = None)
           => \/ Begun(row[c]) /\ row[c].expires = None
              \/ \E q \in Requests :
                   /\ request[q].op = "update" /\ request[q].of = c
                   /\ request[q].in.expires = None /\ request'[q] = NoRequest]_vars
  BY Step
<1>4. QED
  BY <1>1, <1>2, <1>3, PTL DEF Spec, StartedPlansEnd

-----------------------------------------------------------------------------
(* The calendar.                                                           *)

\* A set of naturals that is not empty has a least member.
LEMMA Least ==
  ASSUME NEW S \in SUBSET Nat, S # {}
  PROVE  \E n \in S : \A m \in S : n <= m
<1>1. PICK n \in S : \A m \in S : ~(<<m, n>> \in OpToRel(<, Nat))
  BY NatLessThanWellFounded, WFMin
<1>2. \A m \in S : ~(m < n)
  BY <1>1 DEF OpToRel
<1>3. QED
  BY <1>2

\* The days the clock shows.
Days == 0..MaxDay

LEMMA Numbers == MaxDay \in Nat /\ Days \subseteq Nat /\ WeekDays \in Nat \ {0}
  BY CustomersAssumption DEF Days

LEMMA MonthsGoOn ==
  /\ Months \subseteq Nat \ {0}
  /\ \A m \in Months : MonthStart[m] \in Nat /\ MonthStart[m+1] \in Nat /\ MonthStart[m] < MonthStart[m+1]
  /\ \A m, n \in Months : m < n => MonthStart[m+1] <= MonthStart[n]
<1>1. Len(MonthStart) \in Nat /\ \A m \in 1..Len(MonthStart) : MonthStart[m] \in Nat
  BY CustomersAssumption
<1>2. ASSUME NEW m \in Months, NEW n \in Months, m < n
      PROVE  MonthStart[m+1] <= MonthStart[n]
  <2>1. m \in Nat /\ n \in Nat /\ m + 1 \in 1..Len(MonthStart) /\ n \in 1..Len(MonthStart)
    BY <1>1 DEF Months
  <2>2. m + 1 = n \/ m + 1 < n
    BY <1>2, <2>1
  <2>3. m + 1 < n => MonthStart[m+1] < MonthStart[n]
    BY <2>1, CustomersAssumption
  <2>4. QED
    BY <1>1, <2>1, <2>2, <2>3
<1>3. ASSUME NEW m \in Months
      PROVE  /\ m \in Nat \ {0} /\ MonthStart[m] \in Nat /\ MonthStart[m+1] \in Nat
             /\ MonthStart[m] < MonthStart[m+1]
  <2>1. m \in Nat \ {0} /\ m \in 1..Len(MonthStart) /\ m + 1 \in 1..Len(MonthStart) /\ m < m + 1
    BY <1>1 DEF Months
  <2>2. MonthStart[m] < MonthStart[m+1]
    BY <2>1, CustomersAssumption
  <2>3. QED
    BY <1>1, <2>1, <2>2
<1>4. QED
  BY <1>2, <1>3

\* A day is in no two months.
LEMMA OneMonth ==
  ASSUME NEW d \in Nat, NEW m \in Months, MonthStart[m] <= d, d < MonthStart[m+1]
  PROVE  MonthOf(d) = m
<1>1. MonthOf(d) \in Months /\ MonthStart[MonthOf(d)] <= d /\ d < MonthStart[MonthOf(d)+1]
  BY DEF MonthOf
<1>2. \A k \in {m, MonthOf(d)} : k \in Nat /\ MonthStart[k] \in Nat /\ MonthStart[k+1] \in Nat
  BY <1>1, MonthsGoOn
<1>3. CASE m < MonthOf(d)
  <2>1. MonthStart[m+1] <= MonthStart[MonthOf(d)]
    BY <1>1, <1>3, MonthsGoOn
  <2>2. QED
    BY <1>1, <1>2, <2>1
<1>4. CASE MonthOf(d) < m
  <2>1. MonthStart[MonthOf(d)+1] <= MonthStart[m]
    BY <1>1, <1>4, MonthsGoOn
  <2>2. QED
    BY <1>1, <1>2, <2>1
<1>5. QED
  BY <1>2, <1>3, <1>4

\* A day the clock shows is in a month, and two months come after it.
LEMMA InAMonth ==
  ASSUME NEW d \in Days
  PROVE  /\ MonthOf(d) \in Months /\ MonthOf(d) + 1 \in Months
         /\ MonthStart[MonthOf(d)] <= d /\ d < MonthStart[MonthOf(d) + 1]
<1> DEFINE later == {m \in 1..Len(MonthStart) : d < MonthStart[m]}
<1>1. Len(MonthStart) \in Nat /\ \A m \in 1..Len(MonthStart) : MonthStart[m] \in Nat
  BY CustomersAssumption
<1>2. later \in SUBSET Nat /\ Len(MonthStart) - 2 \in later /\ 1 \notin later
  BY <1>1, CustomersAssumption DEF Days
<1>3. PICK n \in later : \A m \in later : n <= m
  BY <1>2, Least
<1>4. n \in 2..Len(MonthStart)-2
  BY <1>1, <1>2, <1>3
<1>5. n - 1 \in Months /\ n \in Months /\ MonthStart[n-1] <= d /\ d < MonthStart[n]
  BY <1>1, <1>3, <1>4 DEF Months, Days
<1>6. MonthOf(d) = n - 1
  BY <1>5, OneMonth DEF Days
<1>7. QED
  BY <1>4, <1>5, <1>6

LEMMA ShortestIsShortest ==
  ASSUME NEW m \in Months
  PROVE  ShortestMonth \in Nat /\ ShortestMonth <= MonthStart[m+1] - MonthStart[m]
<1> DEFINE lengths == {MonthStart[n+1] - MonthStart[n] : n \in Months}
<1>1. lengths \in SUBSET Nat /\ lengths # {}
  BY MonthsGoOn
<1>2. PICK n \in lengths : \A k \in lengths : n <= k
  BY <1>1, Least
<1>3. n \in lengths /\ \A k \in Months : n <= MonthStart[k+1] - MonthStart[k]
  BY <1>2
<1>4. ShortestMonth \in lengths /\ \A k \in Months : ShortestMonth <= MonthStart[k+1] - MonthStart[k]
  BY <1>3 DEF ShortestMonth
<1>5. QED
  BY <1>1, <1>4

\* A period takes the day on.
LEMMA PeriodGoesOn ==
  ASSUME NEW d \in Days, NEW cycle \in Cycles \ {"none"}
  PROVE  Period(cycle, d) \in Nat /\ d < Period(cycle, d)
<1>1. CASE cycle = "daily"
  BY <1>1 DEF Period, Days
<1>2. CASE cycle = "weekly"
  BY <1>2, CustomersAssumption DEF Period, Days
<1>3. CASE cycle = "monthly"
  <2>1. Period(cycle, d) = MonthStart[MonthOf(d) + 1] + (d - MonthStart[MonthOf(d)])
    BY <1>3 DEF Period, DayOfMonth
  <2>2. /\ MonthStart[MonthOf(d)] \in Nat /\ MonthStart[MonthOf(d) + 1] \in Nat
        /\ MonthStart[MonthOf(d)] <= d /\ d < MonthStart[MonthOf(d) + 1] /\ d \in Nat
    BY InAMonth, MonthsGoOn, Numbers
  <2>3. QED
    BY <2>1, <2>2
<1>4. QED
  BY <1>1, <1>2, <1>3 DEF Cycles

\* A month on, the day of the month is the same where every month has it.
LEMMA SameDayNextMonth ==
  ASSUME NEW d \in Days, DayOfMonth(d) < ShortestMonth
  PROVE  DayOfMonth(Period("monthly", d)) = DayOfMonth(d)
<1> DEFINE m == MonthOf(d)
           e == Period("monthly", d)
<1>1. /\ m \in Months /\ m + 1 \in Months /\ MonthStart[m] <= d /\ d < MonthStart[m+1]
      /\ MonthStart[m] \in Nat /\ MonthStart[m+1] \in Nat /\ MonthStart[m+1+1] \in Nat
  BY InAMonth, MonthsGoOn
<1>2. e = MonthStart[m+1] + DayOfMonth(d) /\ DayOfMonth(d) = d - MonthStart[m]
  BY DEF Period, DayOfMonth
<1>3. DayOfMonth(d) \in Nat /\ DayOfMonth(d) < MonthStart[m+1+1] - MonthStart[m+1]
  BY <1>1, <1>2, ShortestIsShortest DEF Days
<1>4. e \in Nat /\ MonthStart[m+1] <= e /\ e < MonthStart[m+1+1]
  BY <1>1, <1>2, <1>3
<1>5. MonthOf(e) = m + 1
  BY <1>1, <1>4, OneMonth
<1>6. QED
  BY <1>1, <1>2, <1>3, <1>5 DEF DayOfMonth

\* A set closed under the period and with the first boundary in it has the last.
LEMMA LastBoundaryIsOne ==
  ASSUME NEW cycle \in Cycles \ {"none"}, NEW anchor \in Days, NEW t \in Days,
         Period(cycle, anchor) <= t
  PROVE  /\ LastBoundary(cycle, anchor, t) \in Boundaries(cycle, anchor, t)
         /\ LastBoundary(cycle, anchor, t) \in Nat
         /\ anchor < LastBoundary(cycle, anchor, t)
         /\ LastBoundary(cycle, anchor, t) <= t
<1> DEFINE first == Period(cycle, anchor)
           B == Boundaries(cycle, anchor, t)
           left == {t - d : d \in B}
<1>1. first \in Nat /\ anchor < first /\ first..t \subseteq Days
  BY PeriodGoesOn, Numbers DEF Days
<1>2. first \in B /\ B \subseteq first..t
  BY <1>1 DEF Boundaries, Days
<1>3. left \in SUBSET Nat /\ left # {}
  BY <1>1, <1>2 DEF Days
<1>4. PICK n \in left : \A k \in left : n <= k
  BY <1>3, Least
<1>5. PICK d \in B : n = t - d
  BY <1>4
<1>6. ASSUME NEW e \in B PROVE e <= d
  <2>1. t - d <= t - e
    BY <1>4, <1>5
  <2>2. t \in Nat /\ d \in Nat /\ e \in Nat
    BY <1>1, <1>2, Numbers
  <2>3. QED
    BY <2>1, <2>2
<1>7. Period(cycle, d) > t
  <2> SUFFICES ASSUME ~(Period(cycle, d) > t) PROVE FALSE
    OBVIOUS
  <2>1. d \in Days /\ Period(cycle, d) \in Nat /\ d < Period(cycle, d)
    BY <1>1, <1>2, PeriodGoesOn
  <2>2. Period(cycle, d) \in first..t
    BY <1>1, <1>2, <2>1 DEF Days
  <2>3. Period(cycle, d) \in B
    BY <2>2 DEF Boundaries
  <2>4. QED
    BY <1>6, <2>1, <2>3 DEF Days
<1>8. LastBoundary(cycle, anchor, t) \in B
  BY <1>7 DEF LastBoundary
<1>9. QED
  BY <1>1, <1>2, <1>8 DEF Days

\* Whoever steps from a day every month has by the month stays on it.
LEMMA BoundariesKeepTheDay ==
  ASSUME NEW anchor \in Days, NEW t \in Days, Period("monthly", anchor) <= t,
         DayOfMonth(anchor) < ShortestMonth
  PROVE  \A d \in Boundaries("monthly", anchor, t) : DayOfMonth(d) = DayOfMonth(anchor)
<1> DEFINE first == Period("monthly", anchor)
           S == {d \in first..t : DayOfMonth(d) = DayOfMonth(anchor)}
<1>1. first \in Nat /\ first..t \subseteq Days
  BY PeriodGoesOn, Numbers DEF Days, Cycles
<1>2. first \in S
  BY <1>1, SameDayNextMonth DEF Days
<1>3. ASSUME NEW d \in S PROVE Period("monthly", d) > t \/ Period("monthly", d) \in S
  <2>1. d \in Days /\ DayOfMonth(Period("monthly", d)) = DayOfMonth(anchor)
    BY <1>1, SameDayNextMonth
  <2>2. Period("monthly", d) \in Nat /\ d < Period("monthly", d)
    BY <2>1, PeriodGoesOn DEF Cycles
  <2>3. QED
    BY <1>1, <2>1, <2>2 DEF Days
<1>4. \A d \in Boundaries("monthly", anchor, t) : d \in S
  BY <1>2, <1>3 DEF Boundaries
<1>5. QED
  BY <1>4

-----------------------------------------------------------------------------
(* The days in the books.                                                  *)

\* A row's days are days that have been, up to day t.
Past(r, t) ==
    /\ Columns \subseteq DOMAIN r
    /\ r.reset \in (0..t) \cup {None} /\ r.activated \in (0..t) \cup {None}
    /\ r.created \in 0..t /\ r.cycle \in Cycles

\* A plan on the list of those to renew has one that a period has passed since.
ToRenew(r) ==
    /\ Past(r, now) /\ r.cycle # "none"
    /\ Period(r.cycle, Anchor(r)) <= tick.day

DInv ==
    /\ now \in Days /\ tick.day \in 0..now /\ DOMAIN tick = {"at", "day"}
    /\ DOMAIN row = Customers /\ \A c \in Customers : Past(row[c], now)
    /\ DOMAIN due \subseteq Customers /\ shaken \subseteq Customers
    /\ tick.at = "renew" => \A c \in DOMAIN due : ToRenew(due[c])
    /\ DOMAIN request = Requests
    /\ \A q \in Requests :
          /\ request[q].op \in Ops
          /\ request[q].op # "none" =>
                request[q].of \in Customers /\ request[q].day \in 0..now
          /\ request[q].op = "update" => request[q].in \in Updates

LEMMA DatedFromTheStart == Init => DInv
  BY Numbers DEF Init, DInv, Past, Columns, NoRow, Days, Ops, NoRequest, Cycles, None

LEMMA PastStaysPast ==
  ASSUME NEW r, NEW t \in Nat, NEW u \in Nat, t <= u, Past(r, t)
  PROVE  Past(r, u)
  BY DEF Past

LEMMA OtherDates ==
  ASSUME NEW r, NEW s, NEW t, Past(r, t), Columns \subseteq DOMAIN s,
         s.reset = r.reset, s.activated = r.activated,
         s.created = r.created, s.cycle = r.cycle
  PROVE  Past(s, t)
  BY DEF Past

\* What a plan's periods are counted from is a day that has been.
LEMMA AnchorIsADay ==
  ASSUME NEW r, NEW t \in Days, Past(r, t)
  PROVE  Anchor(r) \in 0..t /\ Anchor(r) \in Days
<1>1. Anchor(r) \in 0..t
  BY DEF Past, Anchor
<1>2. QED
  BY <1>1, Numbers DEF Days

\* The boundary a plan on the list is renewed as of.
LEMMA RenewedAsOf ==
  ASSUME DInv, NEW c \in DOMAIN due, tick.at = "renew"
  PROVE  LET at == LastBoundary(due[c].cycle, Anchor(due[c]), tick.day)
         IN  /\ at \in 0..now /\ at \in Nat /\ at <= now
             /\ at \in Boundaries(due[c].cycle, Anchor(due[c]), tick.day)
<1>1. Past(due[c], now) /\ due[c].cycle \in Cycles \ {"none"}
      /\ Period(due[c].cycle, Anchor(due[c])) <= tick.day
  BY DEF DInv, ToRenew, Past
<1>2. Anchor(due[c]) \in Days /\ tick.day \in Days /\ now \in Nat /\ tick.day <= now
  BY <1>1, AnchorIsADay, Numbers DEF DInv, Days
<1>3. QED
  BY <1>1, <1>2, LastBoundaryIsOne, Numbers DEF Days

\* Rows are written, and what the tick has read is worked off.
LEMMA WriteKeepsDates ==
  ASSUME DInv, DOMAIN row' = Customers, \A d \in Customers : Past(row'[d], now),
         NEW left \in SUBSET DOMAIN due, due' = [d \in left |-> due[d]],
         UNCHANGED <<now, tick, shaken, request>>
  PROVE  DInv'
<1>2. tick.at = "renew" => \A d \in DOMAIN due' : Past(due'[d], now) /\ due'[d].cycle # "none"
                              /\ Period(due'[d].cycle, Anchor(due'[d])) <= tick.day
  BY DEF DInv, ToRenew
<1>3. DOMAIN due' \subseteq Customers
  BY DEF DInv
<1>4. QED
  BY <1>2, <1>3 DEF DInv, ToRenew

LEMMA ActivateKeepsDates ==
  ASSUME DInv, NEW c \in Customers, ActivateOne(c)
  PROVE  DInv'
<1>1. tick.day \in 0..now
  BY DEF DInv
<1>2. DOMAIN row' = Customers /\ \A d \in Customers : Past(row'[d], now)
  BY <1>1 DEF ActivateOne, DInv, Past, Columns
<1>3. QED
  BY <1>2, WriteKeepsDates DEF ActivateOne

\* What a renewal makes of a row.
LEMMA Renewal ==
  ASSUME DInv, NEW c \in Customers, RenewOne(c)
  PROVE  \E at \in Boundaries(due[c].cycle, Anchor(due[c]), tick.day) :
            /\ at \in 0..now /\ at \in Nat /\ at <= now
            /\ \/ row' = row
               \/ /\ row[c].reset = None \/ row[c].reset < at
                  /\ \E used, status : row' = [row EXCEPT ![c] =
                       [row[c] EXCEPT !.used = used, !.reset = at, !.status = status]]
<1> DEFINE at == LastBoundary(due[c].cycle, Anchor(due[c]), tick.day)
<1>1. at \in 0..now /\ at \in Nat /\ at <= now /\ at \in Boundaries(due[c].cycle, Anchor(due[c]), tick.day)
  BY RenewedAsOf DEF RenewOne
<1>2. \/ row' = row
      \/ /\ row[c].reset = None \/ row[c].reset < at
         /\ row' = [row EXCEPT ![c].used = 0, ![c].reset = at,
                     ![c].status = IF due[c].status = "exhausted" THEN "active" ELSE @]
  BY DEF RenewOne
<1> HIDE DEF at
<1>3. [row EXCEPT ![c].used = 0, ![c].reset = at,
                  ![c].status = IF due[c].status = "exhausted" THEN "active" ELSE @]
       = [row EXCEPT ![c] = [row[c] EXCEPT !.used = 0, !.reset = at,
                  !.status = IF due[c].status = "exhausted" THEN "active" ELSE row[c].status]]
  BY DEF DInv
<1>4. CASE row' = row
  BY <1>1, <1>4
<1>5. CASE ~(row' = row)
  <2>1. row[c].reset = None \/ row[c].reset < at
    BY <1>2, <1>5
  <2>2. row' = [row EXCEPT ![c] = [row[c] EXCEPT !.used = 0, !.reset = at,
                  !.status = IF due[c].status = "exhausted" THEN "active" ELSE row[c].status]]
    BY <1>2, <1>3, <1>5
  <2>3. QED
    BY <1>1, <2>1, <2>2
<1>6. QED
  BY <1>4, <1>5

LEMMA RenewKeepsDates ==
  ASSUME DInv, NEW c \in Customers, RenewOne(c)
  PROVE  DInv'
<1>1. CASE row' = row
  BY <1>1, WriteKeepsDates DEF RenewOne, DInv
<1>2. ASSUME NEW at \in 0..now, NEW used, NEW status,
             row' = [row EXCEPT ![c] = [row[c] EXCEPT !.used = used, !.reset = at, !.status = status]]
      PROVE  DInv'
  <2>1. DOMAIN row' = Customers /\ \A d \in Customers : Past(row'[d], now)
    BY <1>2 DEF DInv, Past, Columns
  <2>2. QED
    BY <2>1, WriteKeepsDates DEF RenewOne
<1>3. \/ row' = row
      \/ \E at \in 0..now : \E used, status :
           row' = [row EXCEPT ![c] = [row[c] EXCEPT !.used = used, !.reset = at, !.status = status]]
  BY Renewal
<1>4. QED
  BY <1>1, <1>2, <1>3

\* The rest of the tick, and time and traffic.
LEMMA QuietKeepsDates ==
  ASSUME DInv,
         \/ NextDay \/ TickStart \/ RenewSkip \/ RenewRead \/ Sweep \/ Expire
         \/ \E c \in Customers : Shake(c) \/ Flush(c)
  PROVE  DInv'
<1>1. CASE NextDay
  <2>1. now \in Nat /\ now' = now + 1 /\ now' \in Days /\ tick.day \in 0..now'
    BY <1>1, Numbers DEF NextDay, DInv, Days
  <2>2. \A r : Past(r, now) => Past(r, now')
    BY <2>1, PastStaysPast
  <2>3. \A q \in Requests : request[q].op # "none" => request[q].day \in 0..now'
    BY <2>1 DEF DInv
  <2>4. QED
    BY <1>1, <2>1, <2>2, <2>3 DEF NextDay, DInv, ToRenew
<1>2. CASE TickStart
  <2>1. tick' = [at |-> "activate", day |-> now] /\ now \in 0..now
    BY <1>2, Numbers DEF TickStart, DInv, Days
  <2>2. DOMAIN due' \subseteq Customers
    BY <1>2 DEF TickStart, DInv
  <2>3. QED
    BY <1>2, <2>1, <2>2 DEF TickStart, DInv
<1>3. CASE RenewSkip
  <2>1. tick' = [tick EXCEPT !.at = "renew"] /\ tick'.day = tick.day /\ DOMAIN tick' = {"at", "day"}
    BY <1>3 DEF RenewSkip, DInv
  <2>2. QED
    BY <1>3, <2>1 DEF RenewSkip, DInv
<1>4. CASE RenewRead
  <2>1. tick' = [tick EXCEPT !.at = "renew"] /\ tick'.day = tick.day /\ DOMAIN tick' = {"at", "day"}
    BY <1>4 DEF RenewRead, DInv
  <2>2. DOMAIN due' \subseteq Customers
    BY <1>4 DEF RenewRead
  <2>3. \A c \in DOMAIN due' : /\ Past(due'[c], now) /\ due'[c].cycle # "none"
                               /\ Period(due'[c].cycle, Anchor(due'[c])) <= tick.day
    BY <1>4 DEF RenewRead, DInv
  <2>4. QED
    BY <1>4, <2>1, <2>2, <2>3 DEF RenewRead, DInv, ToRenew
<1>5. CASE Sweep
  <2>1. \A c \in Customers : Past(row'[c], now)
    BY <1>5 DEF Sweep, DInv, Past, Columns
  <2>2. tick'.at = "expire" /\ tick'.day = tick.day /\ DOMAIN tick' = {"at", "day"}
    BY <1>5 DEF Sweep, DInv
  <2>3. QED
    BY <1>5, <2>1, <2>2 DEF Sweep, DInv
<1>6. CASE Expire
  <2>1. \A c \in Customers : Past(row'[c], now)
    BY <1>6 DEF Expire, DInv, Past, Columns
  <2>2. tick'.at = "idle" /\ tick'.day = tick.day /\ DOMAIN tick' = {"at", "day"}
    BY <1>6 DEF Expire, DInv
  <2>3. QED
    BY <1>6, <2>1, <2>2 DEF Expire, DInv
<1>7. ASSUME NEW c \in Customers, Shake(c) PROVE DInv'
  BY <1>7 DEF Shake, DInv, ToRenew
<1>8. ASSUME NEW c \in Customers, Flush(c) PROVE DInv'
  <2>1. \A d \in Customers : Past(row'[d], now)
    BY <1>8 DEF Flush, DInv, Past, Columns
  <2>2. QED
    BY <1>8, <2>1 DEF Flush, DInv, ToRenew
<1>9. QED
  BY <1>1, <1>2, <1>3, <1>4, <1>5, <1>6, <1>7, <1>8

\* One row is written by a request.
LEMMA SetKeepsDates ==
  ASSUME DInv, NEW c \in Customers, NEW s, Past(s, now), row' = [row EXCEPT ![c] = s],
         UNCHANGED <<now, shaken, tick, due>>, DOMAIN request' = Requests,
         \A q \in Requests : request'[q] = request[q] \/ request'[q] = NoRequest
  PROVE  DInv'
<1>1. DOMAIN row' = Customers /\ \A d \in Customers : Past(row'[d], now)
  BY DEF DInv
<1>2. \A q \in Requests : /\ request'[q].op \in Ops
                          /\ request'[q].op # "none" =>
                                request'[q].of \in Customers /\ request'[q].day \in 0..now
                          /\ request'[q].op = "update" => request'[q].in \in Updates
  BY DEF DInv, NoRequest, Ops
<1>3. QED
  BY <1>1, <1>2 DEF DInv, ToRenew

LEMMA CreateKeepsDates ==
  ASSUME DInv, NEW c \in Customers, Create(c)
  PROVE  DInv'
<1>1. PICK p \in Plans : row' = [row EXCEPT ![c] =
                       [NoRow EXCEPT
                          !.status = p.status, !.quota = p.quota, !.cycle = p.cycle,
                          !.created = now, !.start = p.start /\ p.days > 0,
                          !.days = IF p.start /\ p.days > 0 THEN p.days ELSE 0,
                          !.expires = IF p.start /\ p.days > 0 THEN None ELSE p.expires]]
  BY DEF Create
<1> DEFINE s == [NoRow EXCEPT
                          !.status = p.status, !.quota = p.quota, !.cycle = p.cycle,
                          !.created = now, !.start = p.start /\ p.days > 0,
                          !.days = IF p.start /\ p.days > 0 THEN p.days ELSE 0,
                          !.expires = IF p.start /\ p.days > 0 THEN None ELSE p.expires]
<1>2. /\ s.activated = None /\ s.reset = None /\ s.created = now /\ s.cycle = p.cycle
      /\ DOMAIN s = Columns
  BY DEF NoRow, Columns
<1>3. p.cycle \in Cycles /\ now \in 0..now
  BY CustomersAssumption, Numbers DEF DInv, Days
<1>4. Past(s, now)
  <2> HIDE DEF s
  <2>1. QED
    BY <1>2, <1>3 DEF Past
<1>5. row' = [row EXCEPT ![c] = s]
  BY <1>1
<1> HIDE DEF s
<1>6. UNCHANGED <<now, shaken, tick, due, request>>
  BY DEF Create
<1>7. QED
  BY <1>4, <1>5, <1>6, SetKeepsDates DEF DInv

LEMMA BulkKeepsDates ==
  ASSUME DInv, NEW c \in Customers, Bulk(c) \/ ExtendTime(c) \/ ExtendTraffic(c)
  PROVE  DInv'
<1>1. Past(row[c], now) /\ now \in 0..now
  BY Numbers DEF DInv, Days
<1>2. UNCHANGED <<now, shaken, tick, due, request>>
  BY DEF Bulk, ExtendTime, ExtendTraffic
<1>3. ASSUME NEW r, row' = [row EXCEPT ![c] = r], Columns \subseteq DOMAIN r,
             r.reset \in {row[c].reset, now}, r.activated = row[c].activated,
             r.created = row[c].created, r.cycle = row[c].cycle
      PROVE  DInv'
  <2>1. Past(r, now)
    BY <1>1, <1>3 DEF Past
  <2>2. QED
    BY <1>2, <1>3, <2>1, SetKeepsDates DEF DInv
<1>4. CASE Bulk(c)
  <2>1. \/ row' = [row EXCEPT ![c] = [row[c] EXCEPT !.status = "active"]]
        \/ row' = [row EXCEPT ![c] = [row[c] EXCEPT !.status = "disabled"]]
        \/ row' = [row EXCEPT ![c] = Zeroed(row[c], row[c], now)]
    BY <1>4 DEF Bulk
  <2>2. CASE row' = [row EXCEPT ![c] = [row[c] EXCEPT !.status = "active"]]
    BY <2>2, <1>1, <1>3 DEF Past, Columns
  <2>3. CASE row' = [row EXCEPT ![c] = [row[c] EXCEPT !.status = "disabled"]]
    BY <2>3, <1>1, <1>3 DEF Past, Columns
  <2>4. CASE row' = [row EXCEPT ![c] = Zeroed(row[c], row[c], now)]
    BY <2>4, <1>1, <1>3 DEF Past, Columns, Zeroed
  <2>5. QED
    BY <2>1, <2>2, <2>3, <2>4
<1>5. CASE ExtendTime(c)
  <2>1. PICK days, expires, status : row' = [row EXCEPT ![c] =
            [[row[c] EXCEPT !.days = days] EXCEPT !.status = status]]
          \/ row' = [row EXCEPT ![c] = [[row[c] EXCEPT !.expires = expires] EXCEPT !.status = status]]
    BY <1>5 DEF ExtendTime
  <2>2. CASE row' = [row EXCEPT ![c] = [[row[c] EXCEPT !.days = days] EXCEPT !.status = status]]
    BY <2>2, <1>1, <1>3 DEF Past, Columns
  <2>3. CASE row' = [row EXCEPT ![c] = [[row[c] EXCEPT !.expires = expires] EXCEPT !.status = status]]
    BY <2>3, <1>1, <1>3 DEF Past, Columns
  <2>4. QED
    BY <2>1, <2>2, <2>3
<1>6. CASE ExtendTraffic(c)
  <2>1. PICK quota, status :
        row' = [row EXCEPT ![c] = [[row[c] EXCEPT !.quota = quota] EXCEPT !.status = status]]
    BY <1>6 DEF ExtendTraffic
  <2>2. QED
    BY <2>1, <1>1, <1>3 DEF Past, Columns
<1>7. QED
  BY <1>4, <1>5, <1>6

LEMMA AskKeepsDates ==
  ASSUME DInv, NEW q \in Requests, Ask(q)
  PROVE  DInv'
<1>1. PICK c \in Customers,
          asked \in [op : {"update"}, in : Updates]
                      \cup [op : Allowed \cap {"adjust"}, in : Shares]
                      \cup [op : Allowed \cap {"adjustQuota"}, in : {0, 2}]
                      \cup [op : Allowed \cap {"reset", "delete"}, in : {0}] :
         request' = [request EXCEPT ![q] =
                       [op |-> asked.op, in |-> asked.in, of |-> c,
                        read |-> row[c], day |-> now]]
  BY DEF Ask
<1>2. asked.op \in Ops /\ (asked.op = "update" => asked.in \in Updates) /\ now \in 0..now
  BY Numbers DEF Ops, DInv, Days
<1>3. DOMAIN request' = Requests
      /\ \A p \in Requests : request'[p] = IF p = q THEN [op |-> asked.op, in |-> asked.in, of |-> c,
                        read |-> row[c], day |-> now] ELSE request[p]
  BY <1>1 DEF DInv
<1>4. QED
  BY <1>2, <1>3 DEF Ask, DInv, ToRenew

LEMMA AnswerKeepsDates ==
  ASSUME DInv, NEW q \in Requests, Answer(q)
  PROVE  DInv'
<1> DEFINE a == request[q]
           c == a.of
           r == row[c]
<1>1. /\ a.op \in Ops \ {"none"} /\ c \in Customers /\ a.day \in 0..now /\ Past(r, now)
      /\ a.op = "update" => a.in \in Updates
  BY DEF Answer, DInv
<1>2. /\ UNCHANGED <<now, shaken, tick, due>>
      /\ DOMAIN request' = Requests
      /\ \A p \in Requests : request'[p] = request[p] \/ request'[p] = NoRequest
  BY DEF Answer, DInv
<1>3. CASE ~Exists(c)
  <2>1. row' = row
    BY <1>3 DEF Answer
  <2>2. \A p \in Requests : /\ request'[p].op \in Ops
                            /\ request'[p].op # "none" =>
                                  request'[p].of \in Customers /\ request'[p].day \in 0..now
                            /\ request'[p].op = "update" => request'[p].in \in Updates
    BY <1>2 DEF DInv, NoRequest, Ops
  <2>3. QED
    BY <1>2, <2>1, <2>2 DEF DInv, ToRenew
<1>4. CASE Exists(c)
  <2> SUFFICES ASSUME NEW s, row' = [row EXCEPT ![c] = s],
                      \/ a.op = "update"      /\ s = Updated(r, a.read, a.in)
                      \/ a.op = "reset"       /\ s = Zeroed(r, a.read, a.day)
                      \/ a.op = "adjust"      /\ s = Adjusted(r, a.read, a.day, a.in)
                      \/ a.op = "adjustQuota" /\ s = Rationed(r, a.read, a.in)
                      \/ a.op = "delete"      /\ s = [NoRow EXCEPT !.status = "deleted"]
               PROVE  Past(s, now)
    <3> DEFINE new == CASE a.op = "update"      -> Updated(r, a.read, a.in)
                        [] a.op = "reset"       -> Zeroed(r, a.read, a.day)
                        [] a.op = "adjust"      -> Adjusted(r, a.read, a.day, a.in)
                        [] a.op = "adjustQuota" -> Rationed(r, a.read, a.in)
                        [] a.op = "delete"      -> [NoRow EXCEPT !.status = "deleted"]
    <3>1. row' = [row EXCEPT ![c] = new]
      BY <1>4 DEF Answer
    <3>2. \/ a.op = "update"      /\ new = Updated(r, a.read, a.in)
          \/ a.op = "reset"       /\ new = Zeroed(r, a.read, a.day)
          \/ a.op = "adjust"      /\ new = Adjusted(r, a.read, a.day, a.in)
          \/ a.op = "adjustQuota" /\ new = Rationed(r, a.read, a.in)
          \/ a.op = "delete"      /\ new = [NoRow EXCEPT !.status = "deleted"]
      BY <1>1 DEF Ops
    <3> HIDE DEF new
    <3>3. Past(new, now)
      BY <3>1, <3>2
    <3>4. QED
      BY <3>1, <3>3, <1>1, <1>2, SetKeepsDates
  <2>1. CASE a.op = "update" /\ s = Updated(r, a.read, a.in)
    <3>1. Pick(a.in.cycle, r.cycle) \in Cycles
      BY <2>1, <1>1, CustomersAssumption DEF Pick, Past
    <3>2. /\ s.cycle = Pick(a.in.cycle, r.cycle) /\ s.reset = r.reset
          /\ s.activated = r.activated /\ s.created = r.created /\ DOMAIN s = DOMAIN r
      BY <2>1, <1>1 DEF Updated, Past, Columns
    <3>3. QED
      BY <3>1, <3>2, <1>1 DEF Past
  <2>2. CASE a.op = "reset" /\ s = Zeroed(r, a.read, a.day)
    BY <2>2, <1>1 DEF Zeroed, Past, Columns
  <2>3. CASE a.op = "adjust" /\ s = Adjusted(r, a.read, a.day, a.in)
    BY <2>3, <1>1 DEF Adjusted, Past, Columns
  <2>4. CASE a.op = "adjustQuota" /\ s = Rationed(r, a.read, a.in)
    BY <2>4, <1>1 DEF Rationed, Past, Columns
  <2>5. CASE a.op = "delete" /\ s = [NoRow EXCEPT !.status = "deleted"]
    BY <2>5, <1>1, Numbers DEF NoRow, Past, Columns, Cycles, DInv, Days
  <2>6. QED
    BY <2>1, <2>2, <2>3, <2>4, <2>5
<1>5. QED
  BY <1>3, <1>4

LEMMA DatesStep ==
  ASSUME DInv, [Next]_vars
  PROVE  DInv'
<1>1. CASE NextDay \/ Tick \/ \E c \in Customers : Shake(c) \/ Flush(c)
  BY <1>1, QuietKeepsDates, ActivateKeepsDates, RenewKeepsDates DEF Tick
<1>2. CASE Operator
  BY <1>2, AskKeepsDates, AnswerKeepsDates, CreateKeepsDates, BulkKeepsDates DEF Operator
<1>3. CASE UNCHANGED vars
  BY <1>3 DEF vars, DInv, ToRenew
<1>4. QED
  BY <1>1, <1>2, <1>3 DEF Next

\* What a step of the tick other than a renewal leaves.
LEMMA OnlyRenewalsReset ==
  ASSUME DInv, Tick, NEW c \in Customers, row'[c].reset # row[c].reset
  PROVE  RenewOne(c)
<1>1. Past(row[c], now)
  BY DEF DInv
<1>2. ~Sweep /\ ~Expire
  BY DEF Sweep, Expire, DInv, Past, Columns
<1>3. ~TickStart /\ ~RenewSkip /\ ~RenewRead
  BY DEF TickStart, RenewSkip, RenewRead
<1>4. ASSUME NEW d \in Customers PROVE ~ActivateOne(d)
  BY <1>1 DEF ActivateOne, DInv, Past, Columns
<1>5. ASSUME NEW d \in Customers, d # c PROVE ~RenewOne(d)
  <2>1. RenewOne(d) => row'[c] = row[c]
    BY <1>5, Renewal DEF DInv
  <2>2. QED
    BY <2>1
<1>6. QED
  BY <1>2, <1>3, <1>4, <1>5 DEF Tick

LEMMA RenewalSteps ==
  ASSUME DInv, Tick, NEW c \in Customers
  PROVE  /\ row[c].reset <= row'[c].reset /\ row'[c].reset <= now
         /\ (/\ tick.at = "renew" /\ c \in DOMAIN due /\ due[c] = row[c]
             /\ row[c].cycle = "monthly" /\ row'[c].reset # row[c].reset
             /\ DayOfMonth(Anchor(row[c])) < ShortestMonth)
              => DayOfMonth(row'[c].reset) = DayOfMonth(Anchor(row[c]))
<1>1. Past(row[c], now) /\ now \in Nat /\ tick.day \in Days
  BY Numbers DEF DInv, Days
<1>2. CASE row'[c].reset = row[c].reset
  BY <1>1, <1>2 DEF Past, None
<1>3. CASE row'[c].reset # row[c].reset
  <2>1. RenewOne(c)
    BY <1>3, OnlyRenewalsReset
  <2>2. PICK at \in Boundaries(due[c].cycle, Anchor(due[c]), tick.day) :
            /\ at \in 0..now /\ at \in Nat /\ at <= now
            /\ \/ row' = row
               \/ /\ row[c].reset = None \/ row[c].reset < at
                  /\ \E used, status : row' = [row EXCEPT ![c] =
                       [row[c] EXCEPT !.used = used, !.reset = at, !.status = status]]
    BY <2>1, Renewal
  <2>3. row'[c].reset = at /\ (row[c].reset = None \/ row[c].reset < at)
    BY <1>1, <1>3, <2>2 DEF DInv, Past, Columns
  <2>4. row[c].reset <= row'[c].reset /\ row'[c].reset <= now
    <3>1. row[c].reset \in Nat \/ row[c].reset = -1
      BY <1>1 DEF Past, None
    <3>2. row[c].reset = -1 \/ row[c].reset < at
      BY <2>3 DEF None
    <3>3. at \in Nat /\ at <= now
      BY <1>1, <2>2
    <3>4. QED
      BY <2>3, <3>1, <3>2, <3>3
  <2>5. ASSUME due[c] = row[c], row[c].cycle = "monthly",
               DayOfMonth(Anchor(row[c])) < ShortestMonth
        PROVE  DayOfMonth(row'[c].reset) = DayOfMonth(Anchor(row[c]))
    <3>1. c \in DOMAIN due /\ tick.at = "renew"
      BY <2>1 DEF RenewOne
    <3>2. Anchor(row[c]) \in Days /\ Period("monthly", Anchor(row[c])) <= tick.day
      <4>1. ToRenew(due[c]) /\ now \in Days
        BY <3>1 DEF DInv
      <4>2. QED
        BY <2>5, <4>1, <1>1, AnchorIsADay DEF ToRenew
    <3>3. QED
      BY <2>2, <2>3, <2>5, <3>2, <1>1, BoundariesKeepTheDay
  <2>6. QED
    BY <2>4, <2>5
<1>4. QED
  BY <1>2, <1>3

\* The traffic of one period is given once: for any customers, plans, edits,
\* calendar and order of the tick's statements and the requests', a request's
\* read and its write apart or not, a renewal (renew.go) takes no count back
\* to before a reset made since, nor to a day to come.
THEOREM PeriodsAreGivenOnce == Spec => RenewalsGoForward
<1>1. Init => DInv
  BY DatedFromTheStart
<1>2. DInv /\ [Next]_vars => DInv'
  BY DatesStep
<1>3. DInv /\ [Next]_vars =>
        [Tick => \A c \in Customers :
            row[c].reset <= row'[c].reset /\ row'[c].reset <= now]_vars
  BY RenewalSteps
<1>4. QED
  BY <1>1, <1>2, <1>3, PTL DEF Spec, RenewalsGoForward

\* A monthly plan keeps its day: whatever the calendar, and however many
\* periods have passed unseen, dueRenewal (renew.go) steps from the day the
\* count began to the same day of a later month, if every month has that day.
THEOREM RenewalsKeepTheirDay == Spec => KeepsItsDay
<1>1. Init => DInv
  BY DatedFromTheStart
<1>2. DInv /\ [Next]_vars => DInv'
  BY DatesStep
<1>3. DInv /\ [Next]_vars =>
        [\A c \in Customers :
         (/\ Tick /\ tick.at = "renew" /\ c \in DOMAIN due /\ due[c] = row[c]
          /\ row[c].cycle = "monthly" /\ row'[c].reset # row[c].reset
          /\ DayOfMonth(Anchor(row[c])) < ShortestMonth)
           => DayOfMonth(row'[c].reset) = DayOfMonth(Anchor(row[c]))]_vars
  BY RenewalSteps
<1>4. QED
  BY <1>1, <1>2, <1>3, PTL DEF Spec, KeepsItsDay

=============================================================================
