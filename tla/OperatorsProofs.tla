---------------------------- MODULE OperatorsProofs ----------------------------
(***************************************************************************)
(* Whatever operators, customers, requests and bounds: rows stay well      *)
(* formed, a term starts once, a tick that cannot read the operators lets  *)
(* nobody back, and, where a sale has the panel to itself, no customer is  *)
(* left with an operator who is gone.                                      *)
(***************************************************************************)
EXTENDS Operators, TLAPS

-----------------------------------------------------------------------------
(* Operators on rows.                                                      *)

\* A row has an end date or a term on hold, never both.
Sound(row) == row \in Row /\ (row.expires = Never \/ row.days = 0)

LEMMA SetTermSound ==
  ASSUME NEW row, Sound(row), NEW n \in Nat
  PROVE  Sound(SetTerm(row, n)) /\ SetTerm(row, n).here = row.here
<1>1. SetTerm(row, n) \in Row
  BY DEF Sound, Row, SetTerm, Never
<1>2. SetTerm(row, n).expires = Never \/ SetTerm(row, n).days = 0
  BY DEF Sound, Row, SetTerm, Never
<1>3. QED
  BY <1>1, <1>2 DEF Sound, Row, SetTerm

LEMMA SetEndSound ==
  ASSUME NEW row, Sound(row), NEW end \in Nat \cup {Never}
  PROVE  Sound(SetEnd(row, end))
<1>1. SetEnd(row, end) \in Row
  BY DEF Sound, Row, SetEnd, Never
<1>2. SetEnd(row, end).expires = Never \/ SetEnd(row, end).days = 0
  BY DEF Sound, Row, SetEnd, Never
<1>3. QED
  BY <1>1, <1>2 DEF Sound

\* Whatever was read, what an edit makes of a sound row is sound.
LEMMA EditedSound ==
  ASSUME NEW row, Sound(row), NEW read \in Read, NEW change \in Changes, NEW day \in Nat
  PROVE  Sound(Edited(row, read, change, day))
<1> DEFINE ch == change
<1>1. \/ ch.what \in {"limit", "quota", "term", "extend"} /\ ch.to \in Nat
      \/ ch.what = "expires" /\ ch.to \in Nat \cup {-1}
      \/ ch.what = "enabled" /\ ch.to \in BOOLEAN
      \/ ch.what = "reset"
  BY OperatorsAssumption
<1>2. read.expires \in Nat \cup {Never} /\ read.days \in Nat /\ read.enabled \in BOOLEAN
  BY DEF Read
<1>3. CASE ch.what = "limit" /\ ch.to \in Nat
  BY <1>3 DEF Edited, Sound, Row
<1>4. CASE ch.what = "quota" /\ ch.to \in Nat
  BY <1>4 DEF Edited, Sound, Row
<1>5. CASE ch.what = "term" /\ ch.to \in Nat
  BY <1>5, SetTermSound DEF Edited
<1>6. CASE ch.what = "extend" /\ ch.to \in Nat
  <2>1. Edited(row, read, change, day) = Extended(row, read, ch.to, day)
    BY <1>6 DEF Edited
  <2>2. CASE read.expires = Never
    BY <2>1, <2>2, <1>2, <1>6, SetTermSound DEF Extended
  <2>3. CASE read.expires # Never
    <3>1. (IF read.expires > day THEN read.expires ELSE day) + ch.to \in Nat
      BY <2>3, <1>2, <1>6 DEF Never
    <3>2. QED
      BY <2>1, <2>3, <3>1, SetEndSound DEF Extended
  <2>4. QED
    BY <2>2, <2>3
<1>7. CASE ch.what = "expires" /\ ch.to \in Nat \cup {-1}
  BY <1>7, SetEndSound DEF Edited, Never
<1>8. CASE ch.what = "enabled" /\ ch.to \in BOOLEAN
  BY <1>8 DEF Edited, Sound, Row
<1>9. CASE ch.what = "reset"
  <2>1. 0 \in 0 .. MaxUsed
    BY OperatorsAssumption
  <2>2. Edited(row, read, change, day) = [row EXCEPT !.used = 0]
    BY <1>9 DEF Edited
  <2>3. QED
    BY <2>1, <2>2 DEF Sound, Row
<1>10. QED
  BY <1>1, <1>3, <1>4, <1>5, <1>6, <1>7, <1>8, <1>9

-----------------------------------------------------------------------------
(* Types.                                                                  *)

\* What a sound row put in an operator's place, or the same rows, leaves.
RowsOK ==
    /\ op \in [Operators -> {Absent, Gone} \cup Row]
    /\ \A o \in Operators : op[o].here => Sound(op[o])

ReqsOK == req \in [Requests -> {Idle} \cup Serving]

Types ==
    /\ RowsOK /\ ReqsOK
    /\ cust \in [Customers -> {Absent, Gone} \cup Plan]
    /\ now \in 0 .. MaxDay
    /\ suspended \subseteq Operators /\ served \subseteq Customers
    /\ edits \in Nat /\ unread \in Nat

LEMMA TypesApart == TypeOK <=> Types
<1>1. ASSUME op \in [Operators -> {Absent, Gone} \cup Row], NEW o \in Operators, op[o].here
      PROVE  op[o] \in Row
  BY <1>1 DEF Absent, Gone
<1>2. QED
  BY <1>1 DEF TypeOK, Types, RowsOK, ReqsOK, Sound

LEMMA TypesApartNext == TypeOK' <=> Types'
  BY TypesApart, PTL

\* Each request in flight is of its kind.
LEMMA RequestKinds ==
  ASSUME ReqsOK, NEW q \in Requests
  PROVE  /\ req[q].kind = "edit"   => req[q] \in [kind : {"edit"}, who : Operators, change : Changes, read : Read]
         /\ req[q].kind = "signin" => req[q] \in [kind : {"signin"}, who : Operators, ends : Nat]
         /\ req[q].kind = "plan"   => req[q] \in [kind : {"plan"}, who : Operators, cust : Customers,
                                                   users : Nat, new : BOOLEAN]
         /\ req[q].kind = "delete" => req[q] \in [kind : {"delete"}, who : Operators,
                                                   mode : {"keep", "delete"}, list : BOOLEAN]
<1>1. req[q] \in {Idle} \cup Serving
  BY DEF ReqsOK
<1>2. QED
  BY <1>1 DEF Serving, Idle

LEMMA AsksOK ==
  ASSUME ReqsOK, NEW q \in Requests, NEW r \in Serving, Asks(q, r)
  PROVE  ReqsOK'
  BY DEF ReqsOK, Asks

LEMMA AnswersOK ==
  ASSUME ReqsOK, NEW q \in Requests, NEW kind, Answers(q, kind)
  PROVE  ReqsOK'
  BY DEF ReqsOK, Answers

\* Nobody is removed.
Stay == \A o \in Operators : op[o].here => op'[o].here

\* One row replaced by a sound one.
LEMMA ReplacedOK ==
  ASSUME RowsOK, NEW o \in Operators, NEW row, Sound(row), op' = [op EXCEPT ![o] = row]
  PROVE  RowsOK' /\ Stay
<1>1. row \in Row /\ row.here = TRUE
  BY DEF Sound, Row
<1>2. QED
  BY <1>1 DEF RowsOK, Stay

\* An edit or a sign-in leaves sound rows, and whom it finds stays.
LEMMA EditWriteOK ==
  ASSUME RowsOK, ReqsOK, now \in Nat, NEW q \in Requests, EditWrite(q)
  PROVE  RowsOK' /\ Stay
<1> DEFINE r == req[q]
<1>1. r.who \in Operators /\ r.read \in Read /\ r.change \in Changes
  BY RequestKinds DEF EditWrite, Answers
<1>2. CASE op[r.who].here
  <2>1. Sound(Edited(op[r.who], r.read, r.change, now))
    BY <1>1, <1>2, EditedSound DEF RowsOK
  <2>2. op' = [op EXCEPT ![r.who] = Edited(op[r.who], r.read, r.change, now)]
    BY <1>2 DEF EditWrite
  <2>3. QED
    BY <1>1, <2>1, <2>2, ReplacedOK
<1>3. CASE ~op[r.who].here
  <2>1. op' = op
    BY <1>3 DEF EditWrite
  <2>2. QED
    BY <2>1 DEF RowsOK, Stay
<1>4. QED
  BY <1>2, <1>3

LEMMA SignedInOK ==
  ASSUME RowsOK, ReqsOK, NEW q \in Requests, SignedIn(q)
  PROVE  RowsOK' /\ Stay
<1> DEFINE r == req[q]
           row == [op[r.who] EXCEPT !.expires = r.ends, !.days = 0]
<1>1. r.who \in Operators /\ r.ends \in Nat
  BY RequestKinds DEF SignedIn, Answers
<1>2. CASE op[r.who].here /\ op[r.who].expires = Never /\ op[r.who].days > 0
  <2>1. Sound(op[r.who])
    BY <1>1, <1>2 DEF RowsOK
  <2>2. Sound(row)
    BY <1>1, <2>1 DEF Sound, Row
  <2>3. op' = [op EXCEPT ![r.who] = row]
    BY <1>1, <1>2 DEF SignedIn, RowsOK
  <2>4. QED
    BY <1>1, <2>2, <2>3, ReplacedOK
<1>3. CASE ~(op[r.who].here /\ op[r.who].expires = Never /\ op[r.who].days > 0)
  <2>1. op' = op
    BY <1>3 DEF SignedIn
  <2>2. QED
    BY <2>1 DEF RowsOK, Stay
<1>4. QED
  BY <1>2, <1>3

LEMMA CreateOK ==
  ASSUME RowsOK, NEW o \in Operators, NEW form \in Forms[o], CreateOperator(o, form)
  PROVE  RowsOK' /\ Stay
<1> DEFINE row == [here |-> TRUE, enabled |-> TRUE, used |-> 0,
                   limit |-> form.limit, quota |-> form.quota, days |-> form.days,
                   expires |-> IF form.days > 0 THEN Never ELSE form.expires]
<1>1. form \in [limit : Nat, quota : Nat, days : Nat, expires : Nat \cup {-1}]
  BY OperatorsAssumption
<1>2. 0 \in 0 .. MaxUsed
  BY OperatorsAssumption
<1>3. row \in Row
  BY <1>1, <1>2 DEF Row, Never
<1>4. row.expires = Never \/ row.days = 0
  BY <1>1 DEF Never
<1>5. Sound(row)
  BY <1>3, <1>4 DEF Sound
<1>6. op' = [op EXCEPT ![o] = row]
  BY DEF CreateOperator
<1>7. QED
  BY <1>5, <1>6, ReplacedOK

LEMMA ChargeOK ==
  ASSUME RowsOK, NEW c \in Customers, Charge(c)
  PROVE  RowsOK' /\ Stay
<1> DEFINE paying == {o \in Operators : op[o].here /\ o \in Above(cust[c])}
<1>1. op' = [o \in Operators |-> IF o \in paying THEN [op[o] EXCEPT !.used = @ + 1] ELSE op[o]]
  BY DEF Charge
<1>2. ASSUME NEW o \in paying PROVE Sound([op[o] EXCEPT !.used = @ + 1])
  <2>1. Sound(op[o])
    BY <1>2 DEF RowsOK
  <2>2. op[o].used \in 0 .. MaxUsed /\ op[o].used < MaxUsed /\ MaxUsed \in Nat
    BY <2>1, OperatorsAssumption DEF Sound, Row, Charge
  <2>3. op[o].used + 1 \in 0 .. MaxUsed
    BY <2>2
  <2>4. QED
    BY <2>1, <2>3 DEF Sound, Row
<1>3. \A o \in Operators : op'[o] = IF o \in paying THEN [op[o] EXCEPT !.used = @ + 1] ELSE op[o]
  BY <1>1
<1>4. op' \in [Operators -> {Absent, Gone} \cup Row]
  <2>1. ASSUME NEW o \in Operators PROVE op'[o] \in {Absent, Gone} \cup Row
    BY <1>2, <1>3 DEF RowsOK, Sound
  <2>2. QED
    BY <1>1, <2>1
<1>5. \A o \in Operators : op'[o].here => Sound(op'[o])
  BY <1>2, <1>3 DEF RowsOK
<1>6. Stay
  <2>1. ASSUME NEW o \in paying PROVE op'[o].here
    BY <1>2, <1>3, <2>1 DEF Sound, Row
  <2>2. QED
    BY <1>3, <2>1 DEF Stay
<1>7. QED
  BY <1>4, <1>5, <1>6 DEF RowsOK

LEMMA HandOverRowsOK ==
  ASSUME RowsOK, ReqsOK, NEW q \in Requests, HandOver(q)
  PROVE  RowsOK'
<1>1. req[q].who \in Operators
  BY RequestKinds DEF HandOver, Answers
<1>2. op' = [op EXCEPT ![req[q].who] = Gone]
  BY DEF HandOver
<1>3. QED
  BY <1>1, <1>2 DEF RowsOK, Gone

LEMMA TypeInit == Init => TypeOK
<1>1. Init => RowsOK /\ ReqsOK
  BY DEF Init, RowsOK, ReqsOK, Absent
<1>2. Init => /\ cust \in [Customers -> {Absent, Gone} \cup Plan]
              /\ now \in 0 .. MaxDay
              /\ suspended \subseteq Operators /\ served \subseteq Customers
              /\ edits \in Nat /\ unread \in Nat
  BY OperatorsAssumption DEF Init
<1>3. QED
  BY <1>1, <1>2, TypesApart DEF Types

\* The part of TypeOK a request that begins disturbs.
LEMMA BeginsOK ==
  ASSUME TypeOK, NEW q \in Requests, NEW r \in Serving, Asks(q, r),
         UNCHANGED <<op, cust, now, suspended, served, unread>>, edits' \in Nat
  PROVE  TypeOK'
<1>1. ReqsOK'
  BY TypesApart, AsksOK DEF Types
<1>2. RowsOK'
  BY TypesApart DEF Types, RowsOK
<1>3. QED
  BY <1>1, <1>2, TypesApart, TypesApartNext DEF Types

LEMMA HereIsBoolean ==
  ASSUME NEW row \in {Absent, Gone} \cup Plan
  PROVE  row.here \in BOOLEAN
<1>1. Absent.here = FALSE /\ Gone.here = FALSE
  BY DEF Absent, Gone
<1>2. row \in Plan => row.here = TRUE
  BY DEF Plan
<1>3. QED
  BY <1>1, <1>2

LEMMA TypeStep == TypeOK /\ [Next]_vars => TypeOK'
<1> SUFFICES ASSUME TypeOK, [Next]_vars PROVE TypeOK'
  OBVIOUS
<1> USE TypesApartNext DEF Types
<1>0. /\ RowsOK /\ ReqsOK /\ cust \in [Customers -> {Absent, Gone} \cup Plan]
      /\ now \in 0 .. MaxDay /\ MaxDay \in Nat /\ now \in Nat
      /\ suspended \subseteq Operators /\ served \subseteq Customers
      /\ edits \in Nat /\ unread \in Nat
  BY OperatorsAssumption, TypesApart
<1> DEFINE Rest == /\ cust' = cust /\ now' = now /\ suspended' = suspended
                   /\ served' = served /\ edits' = edits /\ unread' = unread
<1>1. ASSUME NEW o \in Operators, NEW form \in Forms[o], CreateOperator(o, form)
      PROVE  TypeOK'
  <2>1. RowsOK'
    BY <1>0, <1>1, CreateOK
  <2>2. ReqsOK' /\ Rest
    BY <1>0, <1>1 DEF CreateOperator, ReqsOK
  <2>3. QED
    BY <1>0, <2>1, <2>2
<1>2. ASSUME NEW q \in Requests, NEW o \in Operators, NEW change \in Changes,
             EditRead(q, o, change)
      PROVE  TypeOK'
  <2> DEFINE r == [kind |-> "edit", who |-> o, change |-> change,
                   read |-> [enabled |-> op[o].enabled, expires |-> op[o].expires,
                             days |-> op[o].days]]
  <2>1. Sound(op[o])
    BY <1>0, <1>2 DEF RowsOK, EditRead
  <2>2. r \in Serving
    BY <2>1 DEF Serving, Read, Sound, Row
  <2>3. Asks(q, r) /\ UNCHANGED <<op, cust, now, suspended, served, unread>> /\ edits' \in Nat
    BY <1>0, <1>2 DEF EditRead
  <2>4. QED
    BY <2>2, <2>3, BeginsOK
<1>3. ASSUME NEW q \in Requests, NEW o \in Operators, SignIn(q, o)
      PROVE  TypeOK'
  <2> DEFINE r == [kind |-> "signin", who |-> o, ends |-> now + op[o].days]
  <2>1. Sound(op[o])
    BY <1>0, <1>3 DEF RowsOK, SignIn
  <2>2. r \in Serving
    <3>1. op[o].days \in Nat /\ now \in Nat
      BY <1>0, <2>1 DEF Sound, Row
    <3>2. now + op[o].days \in Nat
      BY <3>1
    <3>3. QED
      BY <3>2 DEF Serving
  <2>3. Asks(q, r) /\ UNCHANGED <<op, cust, now, suspended, served, unread>> /\ edits' \in Nat
    BY <1>0, <1>3 DEF SignIn
  <2>4. QED
    BY <2>2, <2>3, BeginsOK
<1>4. ASSUME NEW q \in Requests, NEW o \in Operators, NEW c \in Customers, NEW n \in Seats,
             PlanCheck(q, o, c, n)
      PROVE  TypeOK'
  <2> DEFINE r == [kind |-> "plan", who |-> o, cust |-> c, users |-> n, new |-> ~cust[c].here]
  <2>1. cust[c].here \in BOOLEAN /\ n \in Nat
    BY <1>0, HereIsBoolean, OperatorsAssumption
  <2>2. r \in Serving
    BY <2>1 DEF Serving
  <2>3. Asks(q, r) /\ UNCHANGED <<op, cust, now, suspended, served, unread>> /\ edits' \in Nat
    BY <1>0, <1>4 DEF PlanCheck
  <2>4. QED
    BY <2>2, <2>3, BeginsOK
<1>5. ASSUME NEW q \in Requests, NEW o \in Operators, NEW mode \in {"keep", "delete"},
             DeleteCount(q, o, mode)
      PROVE  TypeOK'
  <2> DEFINE r == [kind |-> "delete", who |-> o, mode |-> mode,
                   list |-> mode = "delete" /\ OwnedBy(o) # {}]
  <2>1. r \in Serving
    BY DEF Serving
  <2>2. Asks(q, r) /\ UNCHANGED <<op, cust, now, suspended, served, unread>> /\ edits' \in Nat
    BY <1>0, <1>5 DEF DeleteCount
  <2>3. QED
    BY <2>1, <2>2, BeginsOK
<1>6. ASSUME NEW q \in Requests, EditWrite(q) PROVE TypeOK'
  <2>1. RowsOK' /\ ReqsOK'
    BY <1>0, <1>6, EditWriteOK, AnswersOK DEF EditWrite
  <2>2. Rest
    BY <1>6 DEF EditWrite
  <2>3. QED
    BY <1>0, <2>1, <2>2
<1>7. ASSUME NEW q \in Requests, SignedIn(q) PROVE TypeOK'
  <2>1. RowsOK' /\ ReqsOK'
    BY <1>0, <1>7, SignedInOK, AnswersOK DEF SignedIn
  <2>2. Rest
    BY <1>7 DEF SignedIn
  <2>3. QED
    BY <1>0, <2>1, <2>2
<1>8. ASSUME NEW q \in Requests, PlanWrite(q) PROVE TypeOK'
  <2> DEFINE r == req[q]
             row == [here |-> TRUE, owner |-> r.who, on |-> TRUE,
                     admin |-> AdminStamp(r.who), seats |-> r.users]
  <2>1. r.who \in Operators /\ r.cust \in Customers /\ r.users \in Nat /\ r.new \in BOOLEAN
    BY <1>0, <1>8, RequestKinds DEF PlanWrite, Answers
  <2>2. row \in Plan
    BY <2>1, OperatorsAssumption DEF Plan, AdminStamp
  <2>3. cust' \in [Customers -> {Absent, Gone} \cup Plan]
    <3>1. CASE r.new
      BY <1>0, <1>8, <2>1, <2>2, <3>1 DEF PlanWrite
    <3>2. CASE ~r.new /\ cust[r.cust].here
      <4>1. cust[r.cust] \in Plan
        BY <1>0, <2>1, <3>2 DEF Absent, Gone
      <4>2. [cust[r.cust] EXCEPT !.seats = r.users] \in Plan
        BY <2>1, <4>1 DEF Plan
      <4>3. cust' = [cust EXCEPT ![r.cust] = [cust[r.cust] EXCEPT !.seats = r.users]]
        BY <1>0, <1>8, <2>1, <3>2 DEF PlanWrite
      <4>4. QED
        BY <1>0, <2>1, <4>2, <4>3
    <3>3. CASE ~r.new /\ ~cust[r.cust].here
      BY <1>0, <1>8, <3>3 DEF PlanWrite
    <3>4. QED
      BY <2>1, <3>1, <3>2, <3>3
  <2>4. RowsOK' /\ ReqsOK'
    BY <1>0, <1>8, AnswersOK DEF PlanWrite, RowsOK
  <2>5. QED
    BY <1>0, <1>8, <2>3, <2>4 DEF PlanWrite
<1>9. ASSUME NEW q \in Requests, DeleteCustomers(q) PROVE TypeOK'
  <2>1. req[q] \in [kind : {"delete"}, who : Operators, mode : {"keep", "delete"}, list : BOOLEAN]
    BY <1>0, <1>9, RequestKinds DEF DeleteCustomers
  <2>2. [req[q] EXCEPT !.list = FALSE] \in Serving
    BY <2>1 DEF Serving
  <2>3. ReqsOK'
    BY <1>0, <1>9, <2>2 DEF DeleteCustomers, ReqsOK
  <2>4. RowsOK'
    BY <1>0, <1>9 DEF DeleteCustomers, RowsOK
  <2>5. cust' \in [Customers -> {Absent, Gone} \cup Plan]
    BY <1>0, <1>9 DEF DeleteCustomers
  <2>6. QED
    BY <1>0, <1>9, <2>3, <2>4, <2>5 DEF DeleteCustomers
<1>10. ASSUME NEW q \in Requests, HandOver(q) PROVE TypeOK'
  <2>1. RowsOK' /\ ReqsOK'
    BY <1>0, <1>10, HandOverRowsOK, AnswersOK DEF HandOver
  <2>2. cust' \in [Customers -> {Absent, Gone} \cup Plan]
    <3>1. ASSUME NEW c \in OwnedBy(req[q].who)
          PROVE  [cust[c] EXCEPT !.owner = Owner] \in Plan
      <4>1. cust[c] \in Plan
        BY <1>0, <3>1 DEF OwnedBy, Present, Absent, Gone
      <4>2. QED
        BY <4>1 DEF Plan
    <3>2. QED
      BY <1>0, <1>10, <3>1 DEF HandOver
  <2>3. QED
    BY <1>0, <1>10, <2>1, <2>2 DEF HandOver
<1>11. ASSUME NEW c \in Customers, SwitchCustomer(c) PROVE TypeOK'
  <2>1. cust[c] \in Plan
    BY <1>0, <1>11 DEF SwitchCustomer, Absent, Gone
  <2>2. [cust[c] EXCEPT !.on = ~@] \in Plan
    BY <2>1 DEF Plan
  <2>3. cust' = [cust EXCEPT ![c] = [cust[c] EXCEPT !.on = ~@]]
    BY <1>0, <1>11 DEF SwitchCustomer
  <2>4. cust' \in [Customers -> {Absent, Gone} \cup Plan]
    BY <1>0, <2>2, <2>3
  <2>5. RowsOK' /\ ReqsOK'
    BY <1>0, <1>11 DEF SwitchCustomer, RowsOK, ReqsOK
  <2>6. QED
    BY <1>0, <1>11, <2>4, <2>5 DEF SwitchCustomer
<1>12. ASSUME NEW c \in Customers, Charge(c) PROVE TypeOK'
  <2>1. RowsOK'
    BY <1>0, <1>12, ChargeOK
  <2>2. ReqsOK' /\ Rest
    BY <1>0, <1>12 DEF Charge, ReqsOK
  <2>3. QED
    BY <1>0, <2>1, <2>2
<1>13. CASE NextDay
  <2>1. RowsOK' /\ ReqsOK' /\ now' \in 0 .. MaxDay
    BY <1>0, <1>13 DEF NextDay, RowsOK, ReqsOK
  <2>2. QED
    BY <1>0, <1>13, <2>1 DEF NextDay
<1>14. CASE TickKnows \/ TickGuesses
  <2>1. RowsOK' /\ ReqsOK' /\ unread' \in Nat
    BY <1>0, <1>14 DEF TickKnows, TickGuesses, TickServe, RowsOK, ReqsOK
  <2>2. suspended' \subseteq Operators /\ served' \subseteq Customers
    BY <1>0, <1>14 DEF TickKnows, TickGuesses, TickServe, Suspended, Present
  <2>3. QED
    BY <1>0, <1>14, <2>1, <2>2 DEF TickKnows, TickGuesses, TickServe
<1>15. CASE UNCHANGED vars
  BY <1>15 DEF vars, TypeOK
<1>16. QED
  BY <1>1, <1>2, <1>3, <1>4, <1>5, <1>6, <1>7, <1>8, <1>9, <1>10, <1>11, <1>12,
     <1>13, <1>14, <1>15 DEF Next

\* Rows are well formed, whatever is written over what: no operator ever has
\* both an end date and a term on hold (operators/admins.go, Update;
\* signin.go, SignedIn).
THEOREM TypeCorrect == Spec => []TypeOK
<1>1. QED
  BY TypeInit, TypeStep, PTL DEF Spec

-----------------------------------------------------------------------------
(* What a step may never do.                                               *)

LEMMA AsksLeaves ==
  ASSUME ReqsOK, NEW p \in Requests, NEW r, Asks(p, r), NEW q \in Requests, req[q] # Idle
  PROVE  req'[q] = req[q]
  BY DEF Asks, ReqsOK

LEMMA AnswersLeaves ==
  ASSUME ReqsOK, NEW p \in Requests, NEW kind, Answers(p, kind), NEW q \in Requests,
         req[q].kind # kind
  PROVE  req'[q] = req[q]
  BY DEF Answers, ReqsOK

\* A sign-in ends by its own step and by no other.
LEMMA SignInEnds ==
  ASSUME TypeOK, [Next]_vars, NEW q \in Requests, req[q].kind = "signin", req'[q] = Idle
  PROVE  SignedIn(q)
<1>1. ReqsOK /\ req[q] # Idle
  BY TypesApart DEF Types, Idle
<1>2. req'[q] # req[q]
  BY <1>1
<1>3. ASSUME NEW p \in Requests, NEW r PROVE ~Asks(p, r)
  BY <1>1, <1>2, AsksLeaves
<1>4. ASSUME NEW p \in Requests, NEW kind, kind # "signin" PROVE ~Answers(p, kind)
  BY <1>1, <1>2, <1>4, AnswersLeaves
<1>5. req' # req
  BY <1>2
<1>6. ASSUME NEW p \in Requests PROVE ~DeleteCustomers(p)
  BY <1>1, <1>2 DEF DeleteCustomers, ReqsOK
<1>7. PICK p \in Requests : SignedIn(p)
  <2>1. \A p \in Requests : ~EditWrite(p) /\ ~PlanWrite(p) /\ ~HandOver(p)
    BY <1>4 DEF EditWrite, PlanWrite, HandOver
  <2>2. \A p \in Requests, o \in Operators :
           /\ ~SignIn(p, o)
           /\ \A change : ~EditRead(p, o, change)
           /\ \A c, n : ~PlanCheck(p, o, c, n)
           /\ \A mode : ~DeleteCount(p, o, mode)
    BY <1>3 DEF EditRead, SignIn, PlanCheck, DeleteCount
  <2>3. ~NextDay /\ ~TickKnows /\ ~TickGuesses /\ vars' # vars
    BY <1>5 DEF NextDay, TickKnows, TickGuesses, TickServe, vars
  <2>4. /\ \A o, form : ~CreateOperator(o, form)
        /\ \A c : ~SwitchCustomer(c) /\ ~Charge(c)
    BY <1>5 DEF CreateOperator, SwitchCustomer, Charge
  <2>5. QED
    BY <1>6, <2>1, <2>2, <2>3, <2>4 DEF Next
<1>8. p = q
  BY <1>1, <1>2, <1>7 DEF SignedIn, Answers, ReqsOK
<1>9. QED
  BY <1>7, <1>8

\* Of two sign-ins at once the second finds the term started and leaves it:
\* no sign-in moves an end date that is there (signin.go, SignedIn).
THEOREM OneStart == Spec => TermStartsOnce
<1>1. ASSUME TypeOK, [Next]_vars, NEW q \in Requests, req[q].kind = "signin", req'[q] = Idle,
             NEW o \in Operators, op[o].here, op[o].expires # Never
      PROVE  op'[o] = op[o]
  <2>1. SignedIn(q) /\ RowsOK
    BY <1>1, SignInEnds, TypesApart DEF Types
  <2>2. QED
    BY <1>1, <2>1 DEF SignedIn, RowsOK
<1>2. ASSUME TypeOK, [Next]_vars
      PROVE  \A q \in Requests : req[q].kind = "signin" /\ req'[q] = Idle =>
                \A o \in Operators : op[o].here /\ op[o].expires # Never => op'[o] = op[o]
  BY <1>1, <1>2
<1>3. QED
  BY <1>2, TypeCorrect, PTL DEF Spec, TermStartsOnce

\* A tick puts on the tunnels nobody whose operator it holds to be suspended
\* (reconciler.go, readDesired, lastSuspended).
THEOREM NoneBack == Spec => StaysSuspended
<1>1. ASSUME [Next]_vars, NEW c \in served' \ served
      PROVE  Above(cust[c]) \cap suspended \cap Suspended = {}
  <2>1. served' # served
    BY <1>1
  <2>2. TickKnows \/ TickGuesses
    BY <1>1, <2>1
       DEF Next, vars, CreateOperator, EditRead, SignIn, PlanCheck, DeleteCount, EditWrite,
           SignedIn, PlanWrite, DeleteCustomers, HandOver, SwitchCustomer, Charge, NextDay
  <2>3. CASE TickKnows
    BY <1>1, <2>3 DEF TickKnows, TickServe, Serviceable
  <2>4. CASE TickGuesses
    BY <1>1, <2>4 DEF TickGuesses, TickServe, Serviceable
  <2>5. QED
    BY <2>2, <2>3, <2>4
<1>2. ASSUME [Next]_vars
      PROVE  \A c \in served' \ served : Above(cust[c]) \cap suspended \cap Suspended = {}
  BY <1>1, <1>2
<1>3. QED
  BY <1>2, PTL DEF Spec, StaysSuspended

-----------------------------------------------------------------------------
(* Nobody is left with an operator who is gone.                            *)

\* Who is selling is there: their removal waits for the sale.
Sellers == \A q \in Requests : req[q].kind = "plan" => op[req[q].who].here

IInv == TypeOK /\ NoOrphans /\ Sellers

\* What leaves the customers alone, starts no sale and removes nobody.
LEMMA Undisturbed ==
  ASSUME IInv, Stay, cust' = cust,
         \A q \in Requests : req'[q].kind = "plan" => req'[q] = req[q]
  PROVE  NoOrphans' /\ Sellers'
<1>1. ASSUME NEW c \in Present' PROVE cust'[c].owner = Owner \/ op'[cust'[c].owner].here
  <2>1. c \in Present /\ c \in Customers /\ cust[c].here
    BY <1>1 DEF Present
  <2>2. cust[c] \in {Absent, Gone} \cup Plan
    BY <2>1 DEF IInv, TypeOK
  <2>3. cust[c] \in Plan
    BY <2>1, <2>2 DEF Absent, Gone
  <2>4. cust[c].owner \in Operators \cup {Owner}
    BY <2>3 DEF Plan
  <2>5. QED
    BY <2>1, <2>4 DEF IInv, NoOrphans, Stay
<1>2. ASSUME NEW q \in Requests, req'[q].kind = "plan" PROVE op'[req'[q].who].here
  <2>1. req'[q] = req[q] /\ req[q].kind = "plan"
    BY <1>2
  <2>2. req[q].who \in Operators
    BY <2>1, RequestKinds, TypesApart DEF IInv, Types
  <2>3. QED
    BY <2>1, <2>2 DEF IInv, Sellers, Stay
<1>3. QED
  BY <1>1, <1>2 DEF NoOrphans, Sellers

\* Where customers change: those that are there then are with the owner or with
\* an operator who is there, and the operators stay.
LEMMA Moved ==
  ASSUME IInv, op' = op,
         \A q \in Requests : req'[q].kind = "plan" => req'[q] = req[q],
         \A c \in Customers :
            cust'[c].here => \/ cust[c].here /\ cust'[c].owner = cust[c].owner
                             \/ cust'[c].owner = Owner \/ op[cust'[c].owner].here
  PROVE  NoOrphans' /\ Sellers'
<1>1. ASSUME NEW c \in Present' PROVE cust'[c].owner = Owner \/ op'[cust'[c].owner].here
  BY <1>1 DEF IInv, NoOrphans, Present
<1>2. Sellers'
  BY DEF IInv, Sellers
<1>3. QED
  BY <1>1, <1>2 DEF NoOrphans

LEMMA IInvStep ==
  ASSUME "plan" \notin MayOverlap, IInv, [Next]_vars
  PROVE  IInv'
<1> USE DEF IInv
<1>0. TypeOK' /\ RowsOK /\ ReqsOK /\ now \in Nat /\ (op' = op => Stay)
  BY TypeStep, TypesApart, OperatorsAssumption DEF Types, Stay
<1>1. ASSUME NEW o \in Operators, NEW form \in Forms[o], CreateOperator(o, form)
      PROVE  NoOrphans' /\ Sellers'
  BY <1>0, <1>1, CreateOK, Undisturbed DEF CreateOperator
<1>2. ASSUME NEW q \in Requests, NEW r, Asks(q, r), op' = op, cust' = cust,
             r.kind = "plan" => op[r.who].here
      PROVE  NoOrphans' /\ Sellers'
  <2>1. \A p \in Requests : req'[p] = IF p = q THEN r ELSE req[p]
    BY <1>0, <1>2 DEF Asks, ReqsOK
  <2>2. NoOrphans'
    BY <1>2 DEF NoOrphans, Present
  <2>3. Sellers'
    BY <1>2, <2>1 DEF Sellers
  <2>4. QED
    BY <2>2, <2>3
<1>3. ASSUME NEW q \in Requests, NEW o \in Operators,
             \/ \E change \in Changes : EditRead(q, o, change)
             \/ SignIn(q, o)
             \/ \E c \in Customers, n \in Seats : PlanCheck(q, o, c, n)
             \/ \E mode \in {"keep", "delete"} : DeleteCount(q, o, mode)
      PROVE  NoOrphans' /\ Sellers'
  <2>1. ASSUME NEW change \in Changes, EditRead(q, o, change) PROVE NoOrphans' /\ Sellers'
    BY <1>2, <2>1 DEF EditRead
  <2>2. CASE SignIn(q, o)
    BY <1>2, <2>2 DEF SignIn
  <2>3. ASSUME NEW c \in Customers, NEW n \in Seats, PlanCheck(q, o, c, n)
        PROVE  NoOrphans' /\ Sellers'
    BY <1>2, <2>3 DEF PlanCheck
  <2>4. ASSUME NEW mode \in {"keep", "delete"}, DeleteCount(q, o, mode)
        PROVE  NoOrphans' /\ Sellers'
    BY <1>2, <2>4 DEF DeleteCount
  <2>5. QED
    BY <1>3, <2>1, <2>2, <2>3, <2>4
<1>4. ASSUME NEW q \in Requests, NEW kind, Answers(q, kind)
      PROVE  \A p \in Requests : req'[p].kind = "plan" => req'[p] = req[p] /\ p # q
  BY <1>0, <1>4 DEF Answers, ReqsOK, Idle
<1>5. ASSUME NEW q \in Requests, EditWrite(q) \/ SignedIn(q) PROVE NoOrphans' /\ Sellers'
  <2>1. Stay
    BY <1>0, <1>5, EditWriteOK, SignedInOK
  <2>2. cust' = cust /\ \E kind : Answers(q, kind)
    BY <1>5 DEF EditWrite, SignedIn
  <2>3. QED
    BY <1>4, <2>1, <2>2, Undisturbed
<1>6. ASSUME NEW q \in Requests, PlanWrite(q) PROVE NoOrphans' /\ Sellers'
  <2> DEFINE r == req[q]
  <2>1. /\ r.who \in Operators /\ r.cust \in Customers /\ r.new \in BOOLEAN
        /\ op[r.who].here /\ op' = op /\ cust \in [Customers -> {Absent, Gone} \cup Plan]
    BY <1>0, <1>6, RequestKinds, TypesApart DEF PlanWrite, Answers, Sellers, Types
  <2>2. \A p \in Requests : req'[p].kind = "plan" => req'[p] = req[p]
    BY <1>4, <1>6 DEF PlanWrite
  <2>3. CASE r.new
    <3>1. \A c \in Customers \ {r.cust} : cust'[c] = cust[c]
      BY <1>6, <2>1, <2>3 DEF PlanWrite
    <3>2. cust'[r.cust].owner = r.who
      BY <1>6, <2>1, <2>3 DEF PlanWrite
    <3>3. QED
      BY <2>1, <2>2, <3>1, <3>2, Moved
  <2>4. CASE ~r.new
    <3>1. \A c \in Customers : cust'[c].here => cust[c].here /\ cust'[c].owner = cust[c].owner
      BY <1>6, <2>1, <2>4 DEF PlanWrite
    <3>2. QED
      BY <2>1, <2>2, <3>1, Moved
  <2>5. QED
    BY <2>1, <2>3, <2>4
<1>7. ASSUME NEW q \in Requests, DeleteCustomers(q) PROVE NoOrphans' /\ Sellers'
  <2>1. \A p \in Requests : req'[p].kind = "plan" => req'[p] = req[p]
    BY <1>0, <1>7 DEF DeleteCustomers, ReqsOK
  <2>2. \A c \in Customers : cust'[c].here => cust[c].here /\ cust'[c].owner = cust[c].owner
    BY <1>7 DEF DeleteCustomers, Gone
  <2>3. op' = op
    BY <1>7 DEF DeleteCustomers
  <2>4. QED
    BY <2>1, <2>2, <2>3, Moved
<1>8. ASSUME NEW q \in Requests, HandOver(q) PROVE NoOrphans' /\ Sellers'
  <2> DEFINE o == req[q].who
  <2>1. \A p \in Requests : p # q => req[p].kind # "plan"
    BY <1>8 DEF HandOver, Answers, Free
  <2>2. Sellers'
    BY <1>4, <1>8, <2>1 DEF Sellers, HandOver
  <2>3. /\ op \in [Operators -> {Absent, Gone} \cup Row] /\ cust \in [Customers -> {Absent, Gone} \cup Plan]
    BY DEF TypeOK
  <2>4. ASSUME NEW c \in Customers, cust'[c].here
        PROVE  cust'[c].owner = Owner \/ op'[cust'[c].owner].here
    <3>1. CASE c \in OwnedBy(o)
      <4>1. cust'[c] = [cust[c] EXCEPT !.owner = Owner] /\ cust[c] \in {Absent, Gone} \cup Plan /\ cust[c].here
        BY <1>8, <2>3, <3>1 DEF HandOver, OwnedBy, Present
      <4>2. cust[c] \in Plan
        BY <4>1 DEF Absent, Gone
      <4>3. QED
        BY <4>1, <4>2 DEF Plan
    <3>2. CASE c \notin OwnedBy(o)
      <4>1. cust'[c] = cust[c]
        BY <1>8, <3>2 DEF HandOver
      <4>2. c \in Present /\ cust[c].owner # o
        BY <2>4, <3>2, <4>1 DEF OwnedBy, Present
      <4>3. op'[cust[c].owner] = op[cust[c].owner] \/ cust[c].owner = Owner
        <5>1. cust[c] \in Plan
          BY <2>3, <4>2 DEF Absent, Gone, Present
        <5>2. cust[c].owner \in Operators \cup {Owner}
          BY <5>1 DEF Plan
        <5>3. QED
          BY <1>8, <2>3, <4>2, <5>2 DEF HandOver
      <4>4. QED
        BY <4>1, <4>2, <4>3 DEF NoOrphans
    <3>3. QED
      BY <3>1, <3>2
  <2>5. QED
    BY <2>2, <2>4 DEF NoOrphans, Present
<1>9. ASSUME NEW c \in Customers, SwitchCustomer(c) PROVE NoOrphans' /\ Sellers'
  <2>1. cust[c] \in Plan
    BY <1>9 DEF TypeOK, SwitchCustomer, Absent, Gone
  <2>2. [cust[c] EXCEPT !.on = ~@].owner = cust[c].owner
    BY <2>1 DEF Plan
  <2>3. \A d \in Customers : cust'[d].here => cust[d].here /\ cust'[d].owner = cust[d].owner
    BY <1>9, <2>2 DEF TypeOK, SwitchCustomer
  <2>4. op' = op /\ req' = req
    BY <1>9 DEF SwitchCustomer
  <2>5. QED
    BY <2>3, <2>4, Moved
<1>10. ASSUME NEW c \in Customers, Charge(c) PROVE NoOrphans' /\ Sellers'
  BY <1>0, <1>10, ChargeOK, Undisturbed DEF Charge
<1>11. CASE NextDay \/ TickKnows \/ TickGuesses \/ UNCHANGED vars
  <2>1. op' = op /\ cust' = cust /\ req' = req
    BY <1>11 DEF NextDay, TickKnows, TickGuesses, TickServe, vars
  <2>2. QED
    BY <1>0, <2>1, Undisturbed
<1>12. QED
  BY <1>0, <1>1, <1>3, <1>5, <1>6, <1>7, <1>8, <1>9, <1>10, <1>11 DEF Next

\* Whoever is sold to while an operator is being removed, no customer is left
\* with an operator who is gone, as long as a sale has the panel to itself
\* between its check and its write (operators/admins.go, Delete;
\* membership.go, HandOver).
THEOREM NobodyIsOrphaned ==
  ASSUME "plan" \notin MayOverlap
  PROVE  Spec => []NoOrphans
<1>1. Init => IInv
  BY TypeInit DEF IInv, NoOrphans, Sellers, Present, Init, Absent, Idle
<1>2. IInv /\ [Next]_vars => IInv'
  BY IInvStep
<1>3. IInv => NoOrphans
  BY DEF IInv
<1>4. QED
  BY <1>1, <1>2, <1>3, PTL DEF Spec
=============================================================================
