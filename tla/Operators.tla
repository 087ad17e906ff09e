----------------------------- MODULE Operators -----------------------------
(***************************************************************************)
(* The panel's operators (internal/operators): admins and the resellers    *)
(* under them, each with a ceiling of users, an allowance of traffic and a *)
(* term.  Requests are served concurrently and read a row before they      *)
(* write it.  Whether an operator is in good standing is worked out, never *)
(* stored: the reconciler applies it to the operator's customers, and to   *)
(* those of an admin's resellers, at every tick.                           *)
(*                                                                         *)
(* Days are numbers.  A limit or an allowance of 0 is no limit.            *)
(***************************************************************************)
EXTENDS Integers, FiniteSets, FiniteSetsExt

CONSTANTS Operators,       \* every operator the owner may make
          Admins,          \* those of them that are admins; the others are resellers
          Parent,          \* the admin over each reseller, or Owner
          Owner,           \* the panel's owner: over the others, never paused
          Customers,       \* the customers the operators may make
          Requests,        \* requests of operators served at once
          Forms,           \* what each operator may be made with: limit, quota, days, expires
          Changes,         \* what an edit changes: a field of the form, or a bulk action
          Seats,           \* the users a customer's plan is for
          MaxDay,          \* bound: days that pass
          MaxUsed,         \* bound: traffic charged to one operator
          MaxEdits,        \* bound: edits of operators and switches of customers
          MaxUnread,       \* bound: ticks that cannot read the operators
          MayOverlap       \* of "edit" and "plan": kinds that run beside another request

Never == -1                \* no end date
Idle  == [kind |-> "idle"]

ASSUME OperatorsAssumption ==
    /\ Admins \subseteq Operators
    /\ Owner \notin Operators
    /\ Parent \in [Operators -> Admins \cup {Owner}]
    /\ \A a \in Admins : Parent[a] = Owner
    /\ Forms \in [Operators -> SUBSET [limit : Nat, quota : Nat, days : Nat,
                                         expires : Nat \cup {-1}]]
    /\ \A ch \in Changes :
          \/ ch.what \in {"limit", "quota", "term", "extend"} /\ ch.to \in Nat
          \/ ch.what = "expires" /\ ch.to \in Nat \cup {-1}
          \/ ch.what = "enabled" /\ ch.to \in BOOLEAN
          \/ ch.what = "reset"
    /\ Seats \subseteq Nat
    /\ {MaxDay, MaxUsed, MaxEdits, MaxUnread} \subseteq Nat

VARIABLES op,         \* the operators' rows
          cust,       \* the customers' rows
          req,        \* the requests being served, with what each has read
          now,        \* the day
          suspended,  \* the operators suspended when last read (reconciler.go, lastSuspended)
          served,     \* the customers on the tunnels
          edits, unread

vars == <<op, cust, req, now, suspended, served, edits, unread>>

\* An id is not given twice.
Absent == [here |-> FALSE, was |-> FALSE]
Gone   == [here |-> FALSE, was |-> TRUE]
Row    == [here : {TRUE}, enabled : BOOLEAN, expires : Nat \cup {Never}, days : Nat,
           quota : Nat, used : 0 .. MaxUsed, limit : Nat]
Plan   == [here : {TRUE}, owner : Operators \cup {Owner}, admin : Admins \cup {Owner},
           seats : Nat, on : BOOLEAN]
Read   == [enabled : BOOLEAN, expires : Nat \cup {Never}, days : Nat]
Serving ==
    [kind : {"edit"}, who : Operators, change : Changes, read : Read]
    \cup [kind : {"signin"}, who : Operators, ends : Nat]
    \cup [kind : {"plan"}, who : Operators, cust : Customers, users : Nat, new : BOOLEAN]
    \cup [kind : {"delete"}, who : Operators, mode : {"keep", "delete"}, list : BOOLEAN]

\* The operator's customers are to be off.
Paused(row, day) ==
    \/ ~row.enabled
    \/ row.expires # Never /\ row.expires <= day
    \/ row.quota > 0 /\ row.used >= row.quota

Suspended == {o \in Operators : op[o].here /\ Paused(op[o], now)}

\* The operators a customer's service depends on.
Above(c) == {c.owner, c.admin}

Serviceable_Wrong(c, off) == c.on /\ c.owner \notin off

Serviceable(c, off) == c.on /\ Above(c) \cap off = {}

Present == {c \in Customers : cust[c].here}

\* What an operator's requests see: their own customers and, for an admin,
\* those of their resellers.
Owners(o) == {o} \cup {r \in Operators \ Admins : op[r].here /\ Parent[r] = o}

UsersHeld(o) == MapThenSumSet(LAMBDA c : cust[c].seats,
                              {c \in Present : cust[c].owner \in Owners(o)})

\* The admin stamped on what an operator makes.
AdminStamp(o) == IF o \in Admins THEN o ELSE Parent[o]

Init ==
    /\ op = [o \in Operators |-> Absent]
    /\ cust = [c \in Customers |-> Absent]
    /\ req = [q \in Requests |-> Idle]
    /\ now = 0
    /\ suspended = {}
    /\ served = {}
    /\ edits = 0
    /\ unread = 0

\* A request of a kind that is not in MayOverlap has the panel to itself
\* between its read and its write.
Free(q) == \A p \in Requests \ {q} : req[p].kind \in {"idle", "signin", "delete"} \cup MayOverlap

Asks(q, r) == req[q] = Idle /\ Free(q) /\ req' = [req EXCEPT ![q] = r]
Answers(q, kind) == req[q].kind = kind /\ Free(q) /\ req' = [req EXCEPT ![q] = Idle]

----------------------------------------
(* Operators made, changed and signed in.  What the form is given is       *)
(* checked against what an admin has left to hand down; the owner asks the *)
(* same without that check.                                                *)
CreateOperator(o, form) ==
    /\ op[o] = Absent
    /\ Parent[o] # Owner => op[Parent[o]].here
    /\ op' = [op EXCEPT ![o] = [here |-> TRUE, enabled |-> TRUE, used |-> 0,
                                limit |-> form.limit, quota |-> form.quota, days |-> form.days,
                                expires |-> IF form.days > 0 THEN Never ELSE form.expires]]
    /\ UNCHANGED <<cust, req, now, suspended, served, edits, unread>>

\* An edit of one operator, or its turn in a bulk action: the row is read ...
EditRead(q, o, change) ==
    /\ op[o].here
    /\ edits < MaxEdits /\ edits' = edits + 1
    /\ Asks(q, [kind |-> "edit", who |-> o, change |-> change,
                read |-> [enabled |-> op[o].enabled, expires |-> op[o].expires, days |-> op[o].days]])
    /\ UNCHANGED <<op, cust, now, suspended, served, unread>>

SetTerm(row, days)  == [row EXCEPT !.days = days, !.expires = IF days > 0 THEN Never ELSE @]
SetEnd(row, end)    == [row EXCEPT !.expires = end, !.days = IF end = Never THEN @ ELSE 0]

\* A term on hold gets longer, one that runs ends later, one that has ended
\* starts again today, no end is left alone.
Extended(row, read, n, day) ==
    IF read.expires = Never
    THEN IF read.days > 0 THEN SetTerm(row, read.days + n) ELSE row
    ELSE SetEnd(row, (IF read.expires > day THEN read.expires ELSE day) + n)

Edited(row, read, change, day) ==
    CASE change.what = "limit"   -> [row EXCEPT !.limit = change.to]
      [] change.what = "quota"   -> [row EXCEPT !.quota = change.to]
      [] change.what = "expires" -> SetEnd(row, change.to)
      [] change.what = "term"    -> SetTerm(row, change.to)
      [] change.what = "enabled" -> [row EXCEPT !.enabled = IF change.to # read.enabled
                                                            THEN change.to ELSE @]
      [] change.what = "extend"  -> Extended(row, read, change.to, day)
      [] change.what = "reset"   -> [row EXCEPT !.used = 0]

\* ... and the columns worked out from the read are written, if it is there.
EditWrite(q) ==
    /\ Answers(q, "edit")
    /\ LET r == req[q] IN
       op' = IF op[r.who].here
             THEN [op EXCEPT ![r.who] = Edited(@, r.read, r.change, now)]
             ELSE op
    /\ UNCHANGED <<cust, now, suspended, served, edits, unread>>

\* A sign-in reads the operator's row with the password, which one that is
\* switched off is turned away with; one that is on hold is to start ...
SignIn(q, o) ==
    /\ op[o].here /\ op[o].enabled
    /\ op[o].expires = Never /\ op[o].days > 0
    /\ Asks(q, [kind |-> "signin", who |-> o, ends |-> now + op[o].days])
    /\ UNCHANGED <<op, cust, now, suspended, served, edits, unread>>

\* ... and starts a term on hold, on the condition that it still is.
SignedIn_Wrong(q) ==
    /\ Answers(q, "signin")
    /\ LET r == req[q] IN
       op' = IF op[r.who].here
             THEN [op EXCEPT ![r.who].expires = r.ends, ![r.who].days = 0]
             ELSE op
    /\ UNCHANGED <<cust, now, suspended, served, edits, unread>>

SignedIn(q) ==
    /\ Answers(q, "signin")
    /\ LET r == req[q] IN
       op' = IF op[r.who].here /\ op[r.who].expires = Never /\ op[r.who].days > 0
             THEN [op EXCEPT ![r.who].expires = r.ends, ![r.who].days = 0]
             ELSE op
    /\ UNCHANGED <<cust, now, suspended, served, edits, unread>>

----------------------------------------
(* An operator's customers: made, or sold for another number of users,     *)
(* within the ceiling.                                                     *)
\* A plan for no number of users is refused under a limit; one made smaller
\* is not.  was is -1 for a new customer.
Allowed(o, users, was) ==
    \/ op[o].limit = 0 \/ users = was
    \/ /\ users > 0
       /\ \/ was > 0 /\ users < was
          \/ UsersHeld(o) - (IF was > 0 THEN was ELSE 0) + users <= op[o].limit

PlanCheck(q, o, c, users) ==
    /\ op[o].here /\ ~Paused(op[o], now)
    /\ \/ cust[c] = Absent
       \/ cust[c].here /\ cust[c].owner \in Owners(o)
    /\ \A p \in Requests : req[p].kind = "plan" /\ req[p].new => req[p].cust # c
    /\ Allowed(o, users, IF cust[c].here THEN cust[c].seats ELSE -1)
    /\ Asks(q, [kind |-> "plan", who |-> o, cust |-> c, users |-> users, new |-> ~cust[c].here])
    /\ UNCHANGED <<op, cust, now, suspended, served, edits, unread>>

PlanWrite(q) ==
    /\ Answers(q, "plan")
    /\ LET r == req[q] IN
       cust' = IF r.new
               THEN [cust EXCEPT ![r.cust] = [here |-> TRUE, owner |-> r.who, on |-> TRUE,
                                              admin |-> AdminStamp(r.who), seats |-> r.users]]
               ELSE IF cust[r.cust].here
               THEN [cust EXCEPT ![r.cust].seats = r.users]
               ELSE cust
    /\ UNCHANGED <<op, now, suspended, served, edits, unread>>

\* The customer's own status: switched, or their own plan ends or is renewed.
SwitchCustomer(c) ==
    /\ cust[c].here
    /\ edits < MaxEdits /\ edits' = edits + 1
    /\ cust' = [cust EXCEPT ![c].on = ~@]
    /\ UNCHANGED <<op, req, now, suspended, served, unread>>

----------------------------------------
(* An operator leaves: their customers are counted, removed or not, and    *)
(* what is left is handed to the owner with the operator's row.            *)
OwnedBy(o) == {c \in Present : cust[c].owner = o}

DeleteCount(q, o, mode) ==
    /\ op[o].here
    /\ Asks(q, [kind |-> "delete", who |-> o, mode |-> mode,
                list |-> mode = "delete" /\ OwnedBy(o) # {}])
    /\ UNCHANGED <<op, cust, now, suspended, served, edits, unread>>

DeleteCustomers(q) ==
    /\ req[q].kind = "delete" /\ req[q].list /\ Free(q)
    /\ req' = [req EXCEPT ![q].list = FALSE]
    /\ cust' = [c \in Customers |-> IF c \in OwnedBy(req[q].who) THEN Gone ELSE cust[c]]
    /\ UNCHANGED <<op, now, suspended, served, edits, unread>>

HandOver_Wrong(q) ==
    /\ Answers(q, "delete") /\ ~req[q].list
    /\ LET o == req[q].who IN
       /\ cust' = [c \in Customers |->
                     IF c \in OwnedBy(o) /\ req[q].mode = "keep"
                     THEN [cust[c] EXCEPT !.owner = Owner] ELSE cust[c]]
       /\ op' = [op EXCEPT ![o] = Gone]
    /\ UNCHANGED <<now, suspended, served, edits, unread>>

HandOver(q) ==
    /\ Answers(q, "delete") /\ ~req[q].list
    /\ LET o == req[q].who IN
       /\ cust' = [c \in Customers |->
                     IF c \in OwnedBy(o) THEN [cust[c] EXCEPT !.owner = Owner] ELSE cust[c]]
       /\ op' = [op EXCEPT ![o] = Gone]
    /\ UNCHANGED <<now, suspended, served, edits, unread>>

----------------------------------------
(* Traffic and the reconciler's tick.                                      *)
\* A customer's traffic is charged to their owner and to the admin above the
\* owner, once where they are one.
Charge(c) ==
    LET paying == {o \in Operators : op[o].here /\ o \in Above(cust[c])} IN
    /\ c \in served /\ cust[c].here
    /\ paying # {} /\ \A o \in paying : op[o].used < MaxUsed
    /\ op' = [o \in Operators |-> IF o \in paying THEN [op[o] EXCEPT !.used = @ + 1] ELSE op[o]]
    /\ UNCHANGED <<cust, req, now, suspended, served, edits, unread>>

NextDay ==
    /\ now < MaxDay
    /\ now' = now + 1
    /\ UNCHANGED <<op, cust, req, suspended, served, edits, unread>>

\* The tick reads the customers and the operators, and puts on the tunnels
\* those who may be; where it cannot read the operators, the last answer
\* stands.
TickServe(off) ==
    /\ suspended' = off
    /\ served' = {c \in Present : Serviceable(cust[c], off)}
    /\ UNCHANGED <<op, cust, req, now, edits>>

TickKnows == TickServe(Suspended) /\ UNCHANGED unread

TickGuesses_Wrong == unread < MaxUnread /\ TickServe({}) /\ unread' = unread + 1

TickGuesses == unread < MaxUnread /\ TickServe(suspended) /\ unread' = unread + 1

----------------------------------------
Next ==
    \/ \E o \in Operators : \E form \in Forms[o] : CreateOperator(o, form)
    \/ \E q \in Requests :
          \/ \E o \in Operators :
                \/ \E change \in Changes : EditRead(q, o, change)
                \/ SignIn(q, o)
                \/ \E c \in Customers, n \in Seats : PlanCheck(q, o, c, n)
                \/ \E mode \in {"keep", "delete"} : DeleteCount(q, o, mode)
          \/ EditWrite(q) \/ SignedIn(q) \/ PlanWrite(q)
          \/ DeleteCustomers(q) \/ HandOver(q)
    \/ \E c \in Customers : SwitchCustomer(c) \/ Charge(c)
    \/ NextDay
    \/ TickKnows \/ TickGuesses

Spec == Init /\ [][Next]_vars

\* The reconciler ticks every two seconds, and a request that began ends.
FairSpec == Spec /\ WF_vars(TickKnows)
                 /\ \A q \in Requests : WF_vars(EditWrite(q) \/ SignedIn(q) \/ PlanWrite(q)
                                                \/ DeleteCustomers(q) \/ HandOver(q))

----------------------------------------
(* Properties.                                                             *)
\* Rows are well formed, and an operator never has both an end date and a
\* term on hold, whatever edits and sign-ins are written over one another
\* (operators/admins.go, Update; signin.go, SignedIn).
TypeOK ==
    /\ op \in [Operators -> {Absent, Gone} \cup Row]
    /\ \A o \in Operators : op[o].here => op[o].expires = Never \/ op[o].days = 0
    /\ cust \in [Customers -> {Absent, Gone} \cup Plan]
    /\ req \in [Requests -> {Idle} \cup Serving]
    /\ now \in 0 .. MaxDay
    /\ suspended \subseteq Operators /\ served \subseteq Customers
    /\ edits \in Nat /\ unread \in Nat

\* The term of an operator starts with the first of two sign-ins at once: an
\* end date, once there, is moved by no sign-in (signin.go, SignedIn).
TermStartsOnce ==
    [][\A q \in Requests : req[q].kind = "signin" /\ req'[q] = Idle =>
          \A o \in Operators : op[o].here /\ op[o].expires # Never => op'[o] = op[o]]_vars

\* No customer is left with an operator who is gone, whoever is made or sold
\* to while the operator is being removed (operators/admins.go, Delete).
NoOrphans == \A c \in Present : cust[c].owner = Owner \/ op[cust[c].owner].here

\* A tick that cannot read the operators puts no customer of a suspended one
\* back on the tunnels (reconciler.go, lastSuspended).
StaysSuspended ==
    [][\A c \in served' \ served : Above(cust[c]) \cap suspended \cap Suspended = {}]_vars

\* In the end exactly those are served whose own plan says so and whose
\* operators are all in good standing: an operator who is suspended takes
\* their customers, and those of their resellers, off the tunnels, and gives
\* them back as they were (database/model/models.go, Suspended; reconciler.go,
\* serviceableFor).
FollowsStanding ==
    <>[](served = {c \in Present : /\ cust[c].on
                                   /\ \A o \in {cust[c].owner, cust[c].admin} \ {Owner} :
                                         op[o].here => ~Paused(op[o], now)})
=============================================================================
