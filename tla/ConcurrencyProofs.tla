--------------------------- MODULE ConcurrencyProofs ---------------------------
(***************************************************************************)
(* Whom the limit on connections leaves alone, for any devices, hosts,     *)
(* limit and windows, whichever calls are lost or late and whoever         *)
(* restarts: a server holds devices off only when more connections than    *)
(* the plan has were really used, near enough at one time; and a           *)
(* customer's only device is let in wherever it goes.                      *)
(***************************************************************************)
EXTENDS Concurrency, FiniteSetTheorems, TLAPS

-----------------------------------------------------------------------------
(* The invariant.                                                          *)

Act == [seen : BOOLEAN, moved : Int, since : Int, addr : Hosts \union {NoHost},
        flips : 0..2, flipAt : Int, addrs : [Hosts -> Int]]

\* When a hold can end.
Ends == {t \in Int : t >= Never}

\* Every figure is of its type.
Shape ==
    /\ now \in Nat /\ heard \in Int /\ push \in Int
    /\ using \in [Devices -> SUBSET Hosts]
    /\ served \subseteq Devices /\ fresh \subseteq served
    /\ acts \in [Devices -> Act]
    /\ held \in [Servers -> [Devices -> Ends]]
    /\ report \in [at : Int, of : [OnNode -> [n : Nat, since : Int]]]
    /\ answer.at \in Int
    /\ answer.at # Never => answer \in [at : Int, of : [OnNode -> [n : Nat, age : Int]]]
    /\ \A c \in holdCalls : c.dev \in OnNode /\ c.until \in Ends /\ c.at \in Int
    /\ used \in [Devices -> [Hosts -> Int]]
    /\ starts \in [Devices -> Nat]

Lead(d) == IF d \in OnNode THEN Ahead ELSE 0

\* What the properties record of the users is what they do: a device used from one
\* host at a time was started each time, and one that is let in and not read yet
\* in this time unit was used in it.
UseOK ==
    /\ \A d \in Devices : starts[d] <= 2 => \A g, h \in using[d] : g = h
    /\ \A d \in Devices : starts[d] = 0 => using[d] = {}
    /\ \A d \in Devices, h \in Hosts : used[d][h] <= now
    /\ \A d \in served : \A h \in using[d] : Home[d] \notin done => used[d][h] = now

\* What a server has seen of a device happened: nothing is remembered of a device
\* not seen; a live one was last seen at its address; each address it has was
\* used, within a window of its last traffic; and one that was used from one place at
\* a time has changed its address no more often than its user did.
SeenOK(d, a) ==
    /\ a \in Act
    /\ ~a.seen => a = Unseen
    /\ a.moved # Never => a.addr \in Hosts /\ a.addrs[a.addr] = a.moved /\ a.since <= a.moved
    /\ \A h \in Hosts : a.addrs[h] # Never =>
          /\ a.addrs[h] <= used[d][h] + Lead(d)
          /\ a.moved # Never => a.addrs[h] > a.moved - Window
    /\ starts[d] <= 2 =>
          /\ a.flips <= 1
          /\ a.flips = 1 => using[d] \subseteq {a.addr}
    /\ starts[d] <= 1 =>
          /\ a.flips = 0
          /\ a.addr # NoHost => using[d] \subseteq {a.addr}
    /\ starts[d] = 0 => a.addr = NoHost

\* The hosts a device was used from less than w before at, and how far back a
\* server's count of them goes.
Recent(d, at, w) == {h \in Hosts : at - used[d][h] < w}
Reach(d) == IF starts[d] <= 2 THEN Window ELSE 2 * Window

\* What the node says of a device, and what the panel keeps of it, is no more than
\* what was used when it was said.
ToldOK ==
    /\ answer.at # Never =>
          /\ answer.at <= now /\ now - answer.at <= GiveUp
          /\ \A d \in OnNode :
                answer.of[d].n <= Cardinality(Recent(d, answer.at, Reach(d)))
    /\ \A d \in OnNode :
          report.of[d].n <= Cardinality(Recent(d, report.at, Reach(d) + GiveUp))

HistoryInv == Shape /\ UseOK /\ (\A d \in Devices : SeenOK(d, acts[d])) /\ ToldOK

-----------------------------------------------------------------------------
(* Clocks and hosts.                                                       *)

LEMMA Clocks ==
  ASSUME Shape
  PROVE  /\ Never \in Int /\ now # Never
         /\ \A s \in Servers : Clock(s) \in Int /\ Clock(s) # Never /\ Clock(s) - Never >= Window
         /\ \A d \in Devices : Home[d] \in Servers /\ Clock(Home[d]) = now + Lead(d)
         /\ \A d \in Devices : Lead(d) \in Int /\ Reach(d) \in Nat /\ starts[d] \in Nat
         /\ Window \in Nat /\ GiveUp \in Nat /\ RemoteTTL \in Nat
         /\ Never \in Ends /\ Ends \subseteq Int /\ \A s \in Servers : Clock(s) + HoldFor \in Ends
<1>1. /\ Window \in Nat /\ HoldFor \in Nat /\ RemoteTTL \in Nat /\ PanelSilence \in Nat
      /\ GiveUp \in Nat /\ Ahead \in Int
  BY ConcurrencyAssumption
<1>2. Never \in Int /\ -Never >= Window + 1 /\ -Never >= Window + 1 - Ahead /\ -Never >= Window + 1 + Ahead
  BY <1>1 DEF Never
<1>3. now \in Nat
  BY DEF Shape
<1>4. \A s \in Servers : Clock(s) \in Int /\ Clock(s) # Never /\ Clock(s) - Never >= Window
  BY <1>1, <1>2, <1>3 DEF Servers, Clock
<1>5. \A d \in Devices : Home[d] \in Servers /\ Clock(Home[d]) = now + Lead(d)
  BY <1>1, <1>3 DEF Home, Servers, Clock, Lead
<1>6. \A d \in Devices : Lead(d) \in Int /\ Reach(d) \in Nat /\ starts[d] \in Nat
  BY <1>1 DEF Lead, Reach, Shape
<1>7. Never \in Ends /\ Ends \subseteq Int /\ \A s \in Servers : Clock(s) + HoldFor \in Ends
  BY <1>1, <1>2, <1>4 DEF Ends
<1>8. QED
  BY <1>1, <1>2, <1>3, <1>4, <1>5, <1>6, <1>7

\* A server that has seen nothing of a device has seen nothing wrong.
LEMMA UnseenOK ==
  ASSUME Shape, NEW d \in Devices
  PROVE  SeenOK(d, Unseen)
<1>1. Never \in Int /\ Unseen \in Act
  BY Clocks DEF Unseen, Act
<1>2. \A h \in Hosts : Unseen.addrs[h] = Never
  BY DEF Unseen
<1>3. QED
  BY <1>1, <1>2 DEF Unseen, SeenOK

\* What is remembered of a live device when traffic of it moves from h (moved).
LEMMA MovedOK ==
  ASSUME HistoryInv, NEW d \in served, NEW h \in using[d], Home[d] \notin done, NEW a,
         SeenOK(d, a), a.seen
  PROVE  SeenOK(d, Moved(a, h, Clock(Home[d])))
<1> DEFINE t == Clock(Home[d])
           b == Moved(a, h, t)
<1>1. /\ d \in Devices /\ h \in Hosts /\ t = now + Lead(d) /\ t \in Int /\ t # Never
      /\ Lead(d) \in Int /\ Window \in Nat /\ Never \in Int /\ starts[d] \in Nat /\ now \in Nat
      /\ NoHost \notin Hosts
  BY Clocks, ConcurrencyAssumption DEF HistoryInv, Shape
<1>2. a \in Act
  BY DEF SeenOK
<1> HIDE DEF t
<1>3. /\ b \in Act /\ b.seen /\ b.moved = t /\ b.addr = h /\ b.addrs[h] = t
      /\ \A g \in Hosts : g # h => b.addrs[g] = IF t - a.addrs[g] >= Window THEN Never ELSE a.addrs[g]
  BY <1>1, <1>2 DEF Moved, Act
<1>4. /\ b.flips \in {0, 1, a.flips, a.flips + 1}
      /\ b.flips # 0 /\ b.flips # a.flips => a.addr # NoHost /\ h # a.addr
  <2>1. \/ b.flips \in {0, a.flips}
        \/ a.addr # NoHost /\ h # a.addr /\ b.flips \in {1, a.flips + 1}
    BY <1>1, <1>2 DEF Moved, Act
  <2>2. QED
    BY <2>1
<1>5. used[d][h] = now /\ \A g \in Hosts : used[d][g] \in Int
  BY <1>1 DEF HistoryInv, UseOK, Shape
<1>6. \A g \in Hosts : b.addrs[g] # Never =>
          /\ b.addrs[g] <= used[d][g] + Lead(d)
          /\ b.addrs[g] > b.moved - Window
  <2> SUFFICES ASSUME NEW g \in Hosts, b.addrs[g] # Never
               PROVE  b.addrs[g] <= used[d][g] + Lead(d) /\ b.addrs[g] > b.moved - Window
    OBVIOUS
  <2>0. Window > 0
    BY ConcurrencyAssumption
  <2>1. CASE g = h
    BY <1>1, <1>3, <1>5, <2>0, <2>1
  <2>2. CASE g # h
    <3>1. a.addrs[g] # Never /\ b.addrs[g] = a.addrs[g] /\ ~(t - a.addrs[g] >= Window)
      BY <1>3, <2>2
    <3>2. a.addrs[g] \in Int /\ a.addrs[g] <= used[d][g] + Lead(d)
      BY <1>2, <3>1 DEF SeenOK, Act
    <3>3. QED
      BY <1>1, <1>3, <3>1, <3>2
  <2>3. QED
    BY <2>1, <2>2
<1>7. starts[d] <= 2 => using[d] = {h}
  BY <1>1 DEF HistoryInv, UseOK
<1>8. starts[d] # 0
  BY <1>1 DEF HistoryInv, UseOK
<1>9. ASSUME starts[d] <= 2 PROVE b.flips <= 1 /\ using[d] \subseteq {b.addr}
  <2>1. a.flips \in Nat /\ a.flips <= 1 /\ (a.flips = 1 => using[d] \subseteq {a.addr})
    BY <1>2, <1>9 DEF SeenOK, Act
  <2>2. a.flips = 1 => h = a.addr
    BY <2>1, <1>7, <1>9
  <2>3. QED
    BY <1>3, <1>4, <1>7, <1>9, <2>1, <2>2
<1>10. ASSUME starts[d] <= 1 PROVE b.flips = 0
  <2>1. a.flips = 0 /\ (a.addr # NoHost => using[d] \subseteq {a.addr})
    BY <1>10 DEF SeenOK
  <2>2. QED
    BY <1>4, <2>1
<1>11. b.since <= b.moved
  <2>1. CASE t - a.moved < Window
    <3>1. a.moved # Never
      BY <1>1, <2>1, Clocks DEF HistoryInv, t
    <3>2. /\ a.addr \in Hosts /\ a.addrs[a.addr] = a.moved /\ a.since <= a.moved
          /\ a.moved <= used[d][a.addr] + Lead(d)
      BY <3>1 DEF SeenOK
    <3>3. used[d][a.addr] <= now /\ used[d][a.addr] \in Int
      BY <1>1, <3>2 DEF HistoryInv, UseOK, Shape
    <3>4. b.since = a.since /\ a.since \in Int /\ a.moved \in Int
      BY <1>2, <2>1 DEF Moved, Act
    <3>5. QED
      BY <1>1, <1>3, <3>2, <3>3, <3>4
  <2>2. CASE ~(t - a.moved < Window)
    <3>1. b.since = t
      BY <2>2 DEF Moved
    <3>2. QED
      BY <1>1, <1>3, <3>1
  <2>3. QED
    BY <2>1, <2>2
<1>12. QED
  <2> HIDE DEF b
  <2>1. SeenOK(d, b)
    BY <1>1, <1>3, <1>6, <1>8, <1>9, <1>10, <1>11 DEF SeenOK
  <2>2. QED
    BY <2>1 DEF b, t

\* Whatever a server can make of a device in one reading is so.
LEMMA ReadingOK ==
  ASSUME HistoryInv, NEW d \in Devices, Home[d] \notin done,
         NEW a \in Readings(d, Clock(Home[d]))
  PROVE  SeenOK(d, a)
<1>1. SeenOK(d, acts[d]) /\ acts[d] \in Act /\ using[d] \subseteq Hosts
  BY DEF HistoryInv, SeenOK, Shape
<1>2. CASE a = acts[d]
  BY <1>1, <1>2
<1>3. ASSUME d \in served, ~acts[d].seen,
             NEW h \in IF using[d] = {} THEN {NoHost} ELSE using[d],
             a = [acts[d] EXCEPT !.seen = TRUE, !.addr = h]
      PROVE  SeenOK(d, a)
  <2>1. acts[d] = Unseen
    BY <1>1, <1>3 DEF SeenOK
  <2>2. h \in Hosts \union {NoHost}
    BY <1>1, <1>3
  <2>8. Unseen \in Act /\ Unseen.moved = Never /\ Unseen.flips = 0
    BY Clocks DEF HistoryInv, Unseen, Act
  <2>9. /\ a.seen /\ a.moved = Never /\ a.flips = 0 /\ a.addr = h /\ a.addrs = Unseen.addrs
        /\ a \in Act
    BY <1>3, <2>1, <2>2, <2>8 DEF Act
  <2>3. \A g \in Hosts : a.addrs[g] = Never
    BY <2>9 DEF Unseen
  <2>4. starts[d] = 0 => a.addr = NoHost
    BY <1>3, <2>9 DEF HistoryInv, UseOK
  <2>5. starts[d] <= 2 /\ a.addr # NoHost => using[d] \subseteq {a.addr}
    BY <1>3, <2>9 DEF HistoryInv, UseOK
  <2>6. starts[d] \in Nat
    BY DEF HistoryInv, Shape
  <2>7. QED
    BY <2>9, <2>3, <2>4, <2>5, <2>6 DEF SeenOK
<1>4. ASSUME d \in served, acts[d].seen, NEW h \in using[d],
             a = Moved(acts[d], h, Clock(Home[d]))
      PROVE  SeenOK(d, a)
  BY <1>1, <1>4, MovedOK
<1>5. QED
  BY <1>2, <1>3, <1>4 DEF Readings

LEMMA RememberedOK ==
  ASSUME Shape, NEW d \in Devices, NEW a, SeenOK(d, a), NEW t
  PROVE  SeenOK(d, Remembered(a, t))
<1>1. Never \in Int /\ a \in Act
  BY Clocks DEF SeenOK
<1>2. CASE Remembered(a, t) = a
  BY <1>2
<1>3. CASE /\ Remembered(a, t) = [a EXCEPT !.since = Never, !.moved = Never]
           /\ a.moved # Never
  <2> DEFINE b == Remembered(a, t)
  <2>1. /\ b \in Act /\ b.seen = a.seen /\ b.moved = Never /\ b.addr = a.addr
        /\ b.addrs = a.addrs /\ b.flips = a.flips
    BY <1>1, <1>3 DEF Act
  <2>2. a.seen
    BY <1>3 DEF SeenOK, Unseen
  <2> HIDE DEF b
  <2>3. SeenOK(d, b)
    BY <2>1, <2>2 DEF SeenOK
  <2>4. QED
    BY <2>3 DEF b
<1>4. QED
  BY <1>2, <1>3 DEF Remembered

\* A device let back in starts afresh.
LEMMA AfreshOK ==
  ASSUME Shape, NEW d \in Devices, NEW a, SeenOK(d, a)
  PROVE  SeenOK(d, [a EXCEPT !.moved = Never])
<1> DEFINE b == [a EXCEPT !.moved = Never]
<1>1. Never \in Int /\ a \in Act
  BY Clocks DEF SeenOK
<1>2. /\ b \in Act /\ b.seen = a.seen /\ b.moved = Never /\ b.addr = a.addr
      /\ b.addrs = a.addrs /\ b.flips = a.flips
  BY <1>1 DEF Act
<1>3. ~a.seen => b = Unseen
  <2>1. Unseen.moved = Never /\ Unseen = [x \in DOMAIN Unseen |-> Unseen[x]]
    BY DEF Unseen
  <2>3. [Unseen EXCEPT !.moved = Never] = Unseen
    BY <2>1
  <2>2. QED
    BY <2>3 DEF SeenOK
<1> HIDE DEF b
<1>4. SeenOK(d, b)
  BY <1>2, <1>3 DEF SeenOK
<1>5. QED
  BY <1>4 DEF b

\* The hosts a device was used from are finitely many; looking further back finds
\* no fewer.
LEMMA RecentFinite ==
  ASSUME NEW d, NEW at, NEW w
  PROVE  IsFiniteSet(Recent(d, at, w)) /\ Cardinality(Recent(d, at, w)) \in Nat
<1>1. IsFiniteSet(Hosts) /\ Recent(d, at, w) \subseteq Hosts
  BY ConcurrencyAssumption DEF Recent
<1>2. IsFiniteSet(Recent(d, at, w))
  BY <1>1, FS_Subset
<1>3. QED
  BY <1>2, FS_CardinalityType

LEMMA RecentGrows ==
  ASSUME NEW d, NEW at, NEW w, NEW S, Recent(d, at, w) \subseteq S, IsFiniteSet(S),
         NEW n \in Nat, n <= Cardinality(Recent(d, at, w))
  PROVE  n <= Cardinality(S)
<1>1. Cardinality(Recent(d, at, w)) <= Cardinality(S) /\ Cardinality(S) \in Nat
  BY FS_Subset, FS_CardinalityType
<1>2. QED
  BY <1>1, RecentFinite

\* A device carries no more connections than it was used from hosts lately: one for
\* the host of its last traffic; more only when two are fighting over it, and then
\* one for each that has an address of it (activity.connections).
LEMMA ConnectionsCounted ==
  ASSUME HistoryInv, NEW d \in Devices, NEW a, SeenOK(d, a)
  PROVE  /\ Connections(a, Clock(Home[d])) \in Nat
         /\ Connections(a, Clock(Home[d])) <= Cardinality(Recent(d, now, Reach(d)))
<1> DEFINE t == Clock(Home[d])
           live == {h \in Hosts : a.addrs[h] # Never}
           R == Recent(d, now, Reach(d))
<1>1. /\ t = now + Lead(d) /\ t \in Int /\ Lead(d) \in Int /\ Window \in Nat /\ Never \in Int
      /\ now \in Nat /\ t - Never >= Window /\ starts[d] \in Nat /\ a \in Act
      /\ \A h \in Hosts : used[d][h] \in Int
  BY Clocks DEF HistoryInv, Shape, SeenOK
<1>2. IsFiniteSet(live) /\ Cardinality(live) \in Nat
  <2>1. IsFiniteSet(Hosts) /\ live \subseteq Hosts
    BY ConcurrencyAssumption
  <2>2. QED
    BY <2>1, FS_Subset, FS_CardinalityType
<1>3. IsFiniteSet(R) /\ Cardinality(R) \in Nat
  BY RecentFinite
<1> HIDE DEF t
<1>4. Connections(a, t) \in {0, 1, Cardinality(live)}
  BY DEF Connections
<1>5. CASE Connections(a, t) = 0
  BY <1>3, <1>5 DEF t
<1>6. ASSUME Connections(a, t) # 0
      PROVE  /\ a.moved \in Int /\ t - a.moved < Window /\ a.moved # Never
             /\ a.addr \in Hosts /\ a.addrs[a.addr] = a.moved
  <2>1. t - a.moved < Window /\ a.moved \in Int
    BY <1>1, <1>6 DEF Connections, Act
  <2>2. a.moved # Never
    BY <1>1, <2>1
  <2>3. QED
    BY <2>1, <2>2 DEF SeenOK
<1>7. CASE Connections(a, t) = 1
  <2>1. a.moved <= used[d][a.addr] + Lead(d)
    BY <1>6, <1>7 DEF SeenOK
  <2>2. now - used[d][a.addr] < Window
    BY <1>1, <1>6, <1>7, <2>1
  <2>3. a.addr \in R
    BY <1>1, <1>6, <1>7, <2>2 DEF Recent, Reach
  <2>4. Cardinality(R) # 0
    BY <1>3, <2>3, FS_EmptySet
  <2>5. QED
    BY <1>3, <1>7, <2>4 DEF t
<1>8. CASE Connections(a, t) \notin {0, 1}
  <2>1. Connections(a, t) = Cardinality(live) /\ a.flips >= 2
    BY <1>4, <1>8 DEF Connections
  <2>2. starts[d] > 2
    BY <1>1, <2>1 DEF SeenOK, Act
  <2>3. live \subseteq R
    <3> SUFFICES ASSUME NEW h \in live PROVE h \in R
      OBVIOUS
    <3>1. a.addrs[h] \in Int /\ a.addrs[h] <= used[d][h] + Lead(d) /\ a.addrs[h] > a.moved - Window
      BY <1>1, <1>6, <1>8 DEF SeenOK, Act
    <3>2. now - used[d][h] < 2 * Window
      BY <1>1, <1>6, <1>8, <3>1
    <3>3. QED
      BY <1>1, <2>2, <3>2 DEF Recent, Reach
  <2>4. Cardinality(live) <= Cardinality(R)
    BY <1>3, <2>3, FS_Subset
  <2>5. QED
    BY <1>2, <2>1, <2>4 DEF t
<1>9. QED
  BY <1>5, <1>7, <1>8

-----------------------------------------------------------------------------
(* The invariant is one.                                                   *)

LEMMA HistoryInitial == Init => HistoryInv
<1> SUFFICES ASSUME Init PROVE HistoryInv
  OBVIOUS
<1>1. Never \in Int /\ now = 0 /\ Ahead \in Int
  <2>1. Never \in Int
    BY ConcurrencyAssumption DEF Never
  <2>2. QED
    BY <2>1, ConcurrencyAssumption DEF Init
<1>2. Unseen \in Act
  BY <1>1 DEF Unseen, Act
<1>3. using \in [Devices -> SUBSET Hosts] /\ starts \in [Devices -> Nat]
      /\ used \in [Devices -> [Hosts -> Int]]
  BY <1>1 DEF Init
<1>4. report \in [at : Int, of : [OnNode -> [n : Nat, since : Int]]]
  BY <1>1 DEF Init, NoReport, Silent
<1>5. Shape
  BY <1>1, <1>2, <1>3, <1>4 DEF Init, Shape, Ends
<1>6. -Never >= 1
  BY ConcurrencyAssumption DEF Never
<1>7. UseOK
  <2>1. ASSUME NEW d \in Devices, starts[d] <= 2, NEW g \in using[d], NEW h \in using[d]
        PROVE  g = h
    <3>1. using[d] # {} /\ Cardinality(using[d]) = 1
      BY <2>1 DEF Init
    <3>2. using[d] \subseteq Hosts /\ IsFiniteSet(using[d])
      BY <1>3, ConcurrencyAssumption, FS_Subset
    <3>3. QED
      BY <2>1, <3>1, <3>2, FS_Singleton
  <2>2. \A d \in Devices : starts[d] = 0 => using[d] = {}
    BY DEF Init
  <2>3. \A d \in Devices, h \in Hosts : used[d][h] <= now
    BY <1>1, <1>6 DEF Init
  <2>4. \A d \in served : \A h \in using[d] : used[d][h] = now
    BY <1>1, <1>3 DEF Init
  <2>5. QED
    BY <2>1, <2>2, <2>3, <2>4 DEF UseOK
<1>8. \A d \in Devices : SeenOK(d, acts[d])
  BY <1>5, UnseenOK DEF Init
<1>9. \A d \in OnNode, w \in Int : Cardinality(Recent(d, report.at, w)) \in Nat
  BY RecentFinite
<1>10. \A d \in OnNode : Reach(d) + GiveUp \in Int /\ report.of[d].n = 0
  BY <1>5, Clocks, ConcurrencyAssumption DEF Init, NoReport, Silent
<1>11. answer.at = Never
  BY DEF Init
<1>12. ToldOK
  <2>1. ASSUME NEW d \in OnNode
        PROVE  report.of[d].n <= Cardinality(Recent(d, report.at, Reach(d) + GiveUp))
    <3>1. Cardinality(Recent(d, report.at, Reach(d) + GiveUp)) \in Nat
      BY <1>9, <1>10
    <3>2. QED
      BY <1>10, <3>1
  <2>2. QED
    BY <1>11, <2>1 DEF ToldOK
<1>13. QED
  BY <1>5, <1>7, <1>8, <1>12 DEF HistoryInv

\* What a server has seen of a device stays so while its user does nothing but
\* stop, and while only more is used.
LEMMA SeenStays ==
  ASSUME Shape, Shape', NEW d \in Devices, NEW a, SeenOK(d, a),
         starts'[d] = starts[d], using'[d] \subseteq using[d],
         \A h \in Hosts : used[d][h] <= used'[d][h]
  PROVE  SeenOK(d, a)'
<1>1. a \in Act /\ Lead(d) \in Int /\ \A h \in Hosts : used[d][h] \in Int /\ used'[d][h] \in Int
  BY Clocks DEF SeenOK, Shape
<1>2. \A h \in Hosts : a.addrs[h] # Never =>
          /\ a.addrs[h] <= used'[d][h] + Lead(d)
          /\ a.moved # Never => a.addrs[h] > a.moved - Window
  <2>1. SUFFICES ASSUME NEW h \in Hosts, a.addrs[h] # Never
                 PROVE  /\ a.addrs[h] <= used'[d][h] + Lead(d)
                        /\ a.moved # Never => a.addrs[h] > a.moved - Window
    OBVIOUS
  <2>2. /\ a.addrs[h] <= used[d][h] + Lead(d)
        /\ a.moved # Never => a.addrs[h] > a.moved - Window
    BY <2>1 DEF SeenOK
  <2>3. a.addrs[h] \in Int /\ used[d][h] \in Int /\ used'[d][h] \in Int /\ used[d][h] <= used'[d][h]
    BY <1>1 DEF Act
  <2>4. QED
    BY <1>1, <2>2, <2>3
<1>3. QED
  BY <1>1, <1>2 DEF SeenOK, Lead

\* No report counts what was used after it, so it stays true whatever is used next,
\* and whoever is used for the second time.
LEMMA ToldStays ==
  ASSUME Shape, Shape', ToldOK, now <= now',
         answer' = answer \/ answer'.at = Never, report' = report,
         answer'.at # Never => now' - answer.at <= GiveUp,
         \A d \in Devices : starts[d] <= starts'[d],
         \A d \in Devices : \A h \in Hosts : used[d][h] <= used'[d][h]
  PROVE  ToldOK'
<1>1. \A d \in Devices : /\ starts[d] \in Nat /\ starts'[d] \in Nat
                         /\ \A h \in Hosts : used[d][h] \in Int /\ used'[d][h] \in Int
  BY DEF Shape
<1>2. Window \in Nat /\ GiveUp \in Nat /\ OnNode \subseteq Devices /\ now \in Nat /\ now' \in Nat
  BY ConcurrencyAssumption DEF Shape
<1>3. ASSUME NEW d \in OnNode, NEW at \in Int, NEW x \in {0, GiveUp}, NEW n \in Nat,
             n <= Cardinality(Recent(d, at, Reach(d) + x))
      PROVE  n <= Cardinality(Recent(d, at, Reach(d) + x)')
  <2> DEFINE S == Recent(d, at, Reach(d) + x)'
  <2>1. S = {h \in Hosts : at - used'[d][h] < (Reach(d) + x)'}
    BY DEF Recent
  <2>2. Reach(d) \in Nat /\ Reach(d)' \in Nat /\ Reach(d) <= Reach(d)'
    BY <1>1, <1>2 DEF Reach
  <2>3. (Reach(d) + x)' = Reach(d)' + x
    OBVIOUS
  <2>4. Recent(d, at, Reach(d) + x) \subseteq S
    <3> SUFFICES ASSUME NEW h \in Hosts, at - used[d][h] < Reach(d) + x
                 PROVE  at - used'[d][h] < Reach(d)' + x
      BY <2>1, <2>3 DEF Recent
    <3>1. used[d][h] \in Int /\ used'[d][h] \in Int /\ used[d][h] <= used'[d][h] /\ x \in Nat
      BY <1>1, <1>2
    <3>2. QED
      BY <2>2, <3>1
  <2>5. IsFiniteSet(S)
    BY <2>1, ConcurrencyAssumption, FS_Subset
  <2> HIDE DEF S
  <2>6. n <= Cardinality(S)
    BY <2>4, <2>5, <1>3, RecentGrows
  <2>7. QED
    BY <2>6 DEF S
<1>4. ASSUME NEW d \in OnNode
      PROVE  report'.of[d].n <= Cardinality(Recent(d, report.at, Reach(d) + GiveUp)')
  <2>1. report.of[d].n \in Nat /\ report.at \in Int
    BY DEF Shape
  <2>2. PICK at : at = report.at
    OBVIOUS
  <2>3. report.of[d].n <= Cardinality(Recent(d, at, Reach(d) + GiveUp))
    BY <2>2 DEF ToldOK
  <2>4. report.of[d].n <= Cardinality(Recent(d, at, Reach(d) + GiveUp)')
    BY <1>3, <2>1, <2>2, <2>3
  <2>5. report'.at = at
    BY <2>2
  <2>6. QED
    BY <2>4, <2>5 DEF Recent, Reach
<1>5. ASSUME answer'.at # Never, NEW d \in OnNode
      PROVE  answer'.of[d].n <= Cardinality(Recent(d, answer.at, Reach(d))')
  <2>0. answer' = answer
    BY <1>5
  <2>1. answer.of[d].n \in Nat /\ answer.at \in Int
    BY <1>5, <2>0 DEF Shape
  <2>2. PICK at : at = answer.at
    OBVIOUS
  <2>3. answer.of[d].n <= Cardinality(Recent(d, at, Reach(d)))
    BY <1>5, <2>0, <2>2 DEF ToldOK
  <2>7. Reach(d) \in Nat /\ Reach(d)' \in Nat /\ Reach(d) + 0 = Reach(d) /\ (Reach(d) + 0)' = Reach(d)'
    BY <1>1, <1>2 DEF Reach
  <2>4. answer.of[d].n <= Cardinality(Recent(d, at, Reach(d))')
    <3>1. answer.of[d].n <= Cardinality(Recent(d, at, Reach(d) + 0))
      BY <2>3, <2>7
    <3>2. answer.of[d].n <= Cardinality(Recent(d, at, Reach(d) + 0)')
      BY <1>3, <2>1, <2>2, <3>1
    <3>3. QED
      BY <3>2, <2>7 DEF Recent
  <2>5. answer'.at = at
    BY <2>0, <2>2
  <2>6. QED
    BY <2>0, <2>4, <2>5 DEF Recent, Reach
<1>6. answer'.at # Never => answer'.at <= now' /\ now' - answer'.at <= GiveUp
  <2>1. SUFFICES ASSUME answer'.at # Never PROVE answer'.at <= now' /\ now' - answer'.at <= GiveUp
    OBVIOUS
  <2>2. answer' = answer /\ answer.at \in Int /\ answer.at <= now
    BY <2>1 DEF ToldOK, Shape
  <2>3. QED
    BY <1>2, <2>1, <2>2
<1>7. QED
  <2>1. \A d \in OnNode : report'.of[d].n <= Cardinality(Recent(d, report.at, Reach(d) + GiveUp)')
    BY <1>4
  <2>2. answer'.at # Never => \A d \in OnNode :
            answer'.of[d].n <= Cardinality(Recent(d, answer.at, Reach(d))')
    BY <1>5
  <2>3. QED
    BY <1>6, <2>1, <2>2 DEF ToldOK, Never

\* The steps in which nobody uses anything, nothing is read, and nothing is said.
LEMMA QuietOK ==
  ASSUME HistoryInv, Shape', UNCHANGED <<now, userVars, served>>, done \subseteq done',
         \A d \in Devices : acts'[d] = acts[d] \/ acts'[d] = Unseen,
         answer' = answer \/ answer'.at = Never,
         report' = report \/ (report' = NoReport /\ answer'.at = Never)
  PROVE  HistoryInv'
<1>1. /\ now' = now /\ using' = using /\ used' = used /\ starts' = starts /\ served' = served
      /\ Shape /\ UseOK /\ ToldOK
  BY DEF userVars, HistoryInv
<1>2. UseOK'
  BY <1>1 DEF UseOK
<1>3. ASSUME NEW d \in Devices PROVE SeenOK(d, acts[d])'
  <2>1. PICK a : a = acts'[d]
    OBVIOUS
  <2>2. SeenOK(d, a)
    <3>1. CASE acts'[d] = acts[d]
      BY <2>1, <3>1 DEF HistoryInv
    <3>2. CASE acts'[d] = Unseen
      BY <1>1, <2>1, <3>2, UnseenOK
    <3>3. QED
      BY <3>1, <3>2
  <2>3. SeenOK(d, a)'
    BY <1>1, <2>2 DEF SeenOK, Lead
  <2>4. QED
    BY <2>1, <2>3 DEF SeenOK, Lead
<1>4. ToldOK'
  <2>1. /\ \A d \in Devices : starts[d] <= starts'[d]
        /\ \A d \in Devices : \A h \in Hosts : used[d][h] <= used'[d][h]
        /\ now <= now' /\ (answer'.at # Never => now' - answer.at <= GiveUp)
    BY <1>1 DEF Shape, ToldOK
  <2>2. CASE report' = report
    BY <1>1, <2>1, <2>2, ToldStays
  <2>3. CASE report' = NoReport /\ answer'.at = Never
    <3>1. ASSUME NEW d \in OnNode
          PROVE  report'.of[d].n <= Cardinality(Recent(d, report.at, Reach(d) + GiveUp)')
      <4>1. PICK at, w : at = report'.at /\ w = (Reach(d) + GiveUp)'
        OBVIOUS
      <4>2. PICK S : S = Recent(d, report.at, Reach(d) + GiveUp)'
        OBVIOUS
      <4>3. S \subseteq Hosts
        BY <4>2 DEF Recent
      <4>4. Cardinality(S) \in Nat
        BY <4>3, ConcurrencyAssumption, FS_Subset, FS_CardinalityType
      <4>5. report'.of[d].n = 0
        BY <2>3 DEF NoReport, Silent
      <4>6. QED
        BY <4>2, <4>4, <4>5
    <3>2. QED
      BY <2>3, <3>1 DEF ToldOK, Never
  <2>4. QED
    BY <2>2, <2>3
<1>5. QED
  BY <1>2, <1>3, <1>4 DEF HistoryInv

LEMMA PassOK ==
  ASSUME HistoryInv, Pass
  PROVE  HistoryInv'
<1>1. /\ Shape /\ UseOK /\ ToldOK /\ now \in Nat /\ now' = now + 1 /\ done' = {}
      /\ using' = using /\ starts' = starts /\ served' = served /\ fresh' = fresh
      /\ acts' = acts /\ held' = held /\ report' = report /\ heard' = heard
      /\ answer' = answer /\ holdCalls' = holdCalls /\ push' = push
  BY DEF HistoryInv, Shape, Pass, serverVars, linkVars
<1>2. /\ used' \in [Devices -> [Hosts -> Int]]
      /\ \A d \in Devices, h \in Hosts :
            used'[d][h] = IF d \in served /\ h \in using[d] THEN now + 1 ELSE used[d][h]
  BY <1>1 DEF Pass, Shape
<1>3. Shape'
  BY <1>1, <1>2 DEF Shape, Never
<1>4. \A d \in Devices : \A h \in Hosts :
          used[d][h] \in Int /\ used[d][h] <= used'[d][h] /\ used'[d][h] <= now'
  BY <1>1, <1>2 DEF UseOK, Shape
<1>5. UseOK'
  <2>1. \A d \in Devices : using[d] \subseteq Hosts /\ served \subseteq Devices
    BY <1>1 DEF Shape
  <2>2. \A d \in served : \A h \in using[d] : used'[d][h] = now + 1
    BY <1>1, <1>2, <2>1 DEF Shape
  <2>3. QED
    BY <1>1, <1>4, <2>2 DEF UseOK
<1>6. ASSUME NEW d \in Devices PROVE SeenOK(d, acts[d])'
  <2>1. PICK a : a = acts[d]
    OBVIOUS
  <2>2. SeenOK(d, a)
    BY <2>1 DEF HistoryInv
  <2>3. SeenOK(d, a)'
    BY <1>1, <1>3, <1>4, <2>2, SeenStays
  <2>4. QED
    BY <1>1, <2>1, <2>3 DEF SeenOK, Lead
<1>7. ToldOK'
  <2>1. answer.at # Never => now - answer.at < GiveUp /\ answer.at \in Int
    BY <1>1 DEF Pass, Shape
  <2>2. answer'.at # Never => now' - answer.at <= GiveUp
    BY <1>1, <2>1, ConcurrencyAssumption DEF Never
  <2>3. \A d \in Devices : starts[d] <= starts'[d]
    BY <1>1 DEF Shape
  <2>4. now <= now'
    BY <1>1
  <2>5. \A d \in Devices : \A h \in Hosts : used[d][h] <= used'[d][h]
    BY <1>4
  <2>6. QED
    BY <1>1, <1>3, <2>2, <2>3, <2>4, <2>5, ToldStays
<1>8. QED
  BY <1>3, <1>5, <1>6, <1>7 DEF HistoryInv

LEMMA SwitchOK ==
  ASSUME HistoryInv, NEW d \in Devices, NEW h \in Hosts, Switch(d, h)
  PROVE  HistoryInv'
<1>1. /\ Shape /\ UseOK /\ ToldOK /\ now \in Nat /\ now' = now /\ done' = {} /\ done = {}
      /\ served' = served /\ fresh' = fresh
      /\ acts' = acts /\ held' = held /\ report' = report /\ heard' = heard
      /\ answer' = answer /\ holdCalls' = holdCalls /\ push' = push
  BY DEF HistoryInv, Shape, Switch, serverVars, linkVars
<1>2. /\ using' \in [Devices -> SUBSET Hosts]
      /\ using'[d] = IF h \in using[d] THEN using[d] \ {h} ELSE using[d] \union {h}
      /\ \A e \in Devices : e # d => using'[e] = using[e]
  BY <1>1 DEF Switch, Shape
<1>3. /\ used' \in [Devices -> [Hosts -> Int]]
      /\ \A e \in Devices, g \in Hosts :
            used'[e][g] = IF e = d /\ g = h /\ h \notin using[d] /\ d \in served
                          THEN now ELSE used[e][g]
  BY <1>1 DEF Switch, Shape
<1>4. /\ starts' \in [Devices -> Nat]
      /\ starts'[d] = IF h \in using[d] THEN starts[d]
                      ELSE IF using[d] = {} THEN starts[d] + 1 ELSE starts[d] + 3
      /\ \A e \in Devices : e # d => starts'[e] = starts[e]
  BY <1>1 DEF Switch, Shape
<1>5. Shape'
  BY <1>1, <1>2, <1>3, <1>4 DEF Shape, Never
<1>6. \A e \in Devices : \A g \in Hosts :
          used[e][g] \in Int /\ used[e][g] <= used'[e][g] /\ used'[e][g] <= now'
  <2> SUFFICES ASSUME NEW e \in Devices, NEW g \in Hosts
               PROVE  used[e][g] \in Int /\ used[e][g] <= used'[e][g] /\ used'[e][g] <= now'
    OBVIOUS
  <2>1. used[e][g] \in Int /\ used[e][g] <= now
    BY <1>1 DEF UseOK, Shape
  <2>2. used'[e][g] = now \/ used'[e][g] = used[e][g]
    BY <1>3
  <2>3. QED
    BY <1>1, <2>1, <2>2
<1>7. \A e \in Devices : starts[e] \in Nat /\ starts[e] <= starts'[e]
  <2> SUFFICES ASSUME NEW e \in Devices PROVE starts[e] \in Nat /\ starts[e] <= starts'[e]
    OBVIOUS
  <2>1. starts[e] \in Nat
    BY <1>1 DEF Shape
  <2>2. starts'[e] \in {starts[e], starts[e] + 1, starts[e] + 3}
    BY <1>4
  <2>3. QED
    BY <2>1, <2>2
<1>8. UseOK'
  <2>1. \A e \in Devices : starts'[e] <= 2 => \A f, g \in using'[e] : f = g
    BY <1>1, <1>2, <1>4, <1>7 DEF UseOK
  <2>2. \A e \in Devices : starts'[e] = 0 => using'[e] = {}
    BY <1>1, <1>2, <1>4, <1>7 DEF UseOK
  <2>3. \A e \in served : \A g \in using'[e] : used'[e][g] = now
    <3> SUFFICES ASSUME NEW e \in served, NEW g \in using'[e] PROVE used'[e][g] = now
      OBVIOUS
    <3>1. e \in Devices /\ g \in Hosts
      BY <1>1, <1>2 DEF Shape
    <3>2. g \in using[e] => used[e][g] = now
      BY <1>1, <3>1 DEF UseOK
    <3>3. QED
      BY <1>2, <1>3, <3>1, <3>2
  <2>4. QED
    BY <1>1, <1>6, <2>1, <2>2, <2>3 DEF UseOK
<1>9. ASSUME NEW e \in Devices PROVE SeenOK(e, acts[e])'
  <2>1. PICK a : a = acts[e]
    OBVIOUS
  <2>2. SeenOK(e, a) /\ a \in Act
    BY <2>1 DEF HistoryInv, SeenOK
  <2>3. CASE starts'[e] = starts[e] /\ using'[e] \subseteq using[e]
    <3>1. SeenOK(e, a)'
      BY <1>1, <1>5, <1>6, <2>2, <2>3, SeenStays
    <3>2. QED
      BY <1>1, <2>1, <3>1 DEF SeenOK, Lead
  <2>4. CASE e = d /\ h \notin using[d]
    <3>1. starts'[e] \in {starts[e] + 1, starts[e] + 3}
      BY <1>4, <2>4
    <3>2. \A g \in Hosts : a.addrs[g] # Never =>
              /\ a.addrs[g] <= used'[e][g] + Lead(e)
              /\ a.moved # Never => a.addrs[g] > a.moved - Window
      <4> SUFFICES ASSUME NEW g \in Hosts, a.addrs[g] # Never
                   PROVE  /\ a.addrs[g] <= used'[e][g] + Lead(e)
                          /\ a.moved # Never => a.addrs[g] > a.moved - Window
        OBVIOUS
      <4>1. /\ a.addrs[g] <= used[e][g] + Lead(e)
            /\ a.moved # Never => a.addrs[g] > a.moved - Window
        BY <2>2 DEF SeenOK
      <4>2. /\ a.addrs[g] \in Int /\ used[e][g] \in Int /\ used'[e][g] \in Int
            /\ used[e][g] <= used'[e][g] /\ Lead(e) \in Int
        BY <1>1, <1>3, <1>6, <2>2, Clocks DEF Act
      <4>3. QED
        BY <4>1, <4>2
    <3>3. starts'[e] <= 2 => a.flips = 0
      BY <1>7, <2>2, <3>1 DEF SeenOK
    <3>4. starts'[e] <= 1 => a.addr = NoHost
      BY <1>7, <2>2, <3>1 DEF SeenOK
    <3>5. starts'[e] # 0 /\ starts'[e] \in Nat
      BY <1>4, <1>7, <3>1
    <3>6. SeenOK(e, a)'
      BY <2>2, <3>2, <3>3, <3>4, <3>5 DEF SeenOK, Lead
    <3>7. QED
      BY <1>1, <2>1, <3>6 DEF SeenOK, Lead
  <2>5. QED
    BY <1>2, <1>4, <2>3, <2>4
<1>10. ToldOK'
  <2>1. answer'.at # Never => now' - answer.at <= GiveUp
    BY <1>1 DEF ToldOK, Never
  <2>2. now <= now'
    BY <1>1
  <2>3. /\ \A e \in Devices : starts[e] <= starts'[e]
        /\ \A e \in Devices : \A g \in Hosts : used[e][g] <= used'[e][g]
    BY <1>6, <1>7
  <2>4. QED
    BY <1>1, <1>5, <2>1, <2>2, <2>3, ToldStays
<1>11. QED
  BY <1>5, <1>8, <1>9, <1>10 DEF HistoryInv

\* All a server can see in one reading is so.
LEMMA SeenIsSo ==
  ASSUME HistoryInv, NEW s \in Servers, s \notin done, NEW seen \in Seen(s)
  PROVE  /\ seen \in [Devices -> Act]
         /\ \A d \in Devices : SeenOK(d, seen[d])
<1>1. ASSUME NEW d \in Devices PROVE SeenOK(d, seen[d])
  <2>1. CASE Home[d] = s
    <3>1. PICK a \in Readings(d, Clock(s)) : seen[d] = Remembered(a, Clock(s))
      BY <2>1 DEF Seen
    <3>2. SeenOK(d, a)
      BY <2>1, <3>1, ReadingOK
    <3>3. SeenOK(d, Remembered(a, Clock(s)))
      BY <3>2, RememberedOK DEF HistoryInv
    <3>4. QED
      BY <3>1, <3>3
  <2>2. CASE Home[d] # s
    <3>1. seen[d] = acts[d]
      BY <2>2 DEF Seen
    <3>2. QED
      BY <3>1 DEF HistoryInv
  <2>3. QED
    BY <2>1, <2>2
<1>2. seen = [d \in Devices |-> seen[d]]
  BY DEF Seen
<1>3. \A d \in Devices : seen[d] \in Act
  BY <1>1 DEF SeenOK
<1>4. QED
  BY <1>1, <1>2, <1>3

\* How long the devices are held off that a tick of s takes off now, and which of
\* its own it lets in (tick: enforce, then the peers that should be there).
Off(s, seen) == IF Decides(s) THEN Enforce(s, seen) ELSE {}
Until(s, seen) == [d \in Devices |-> IF d \in Off(s, seen) THEN Clock(s) + HoldFor ELSE held[s][d]]
Over(s, seen) == {d \in Devices : /\ Home[d] = s /\ Until(s, seen)[d] # Never
                                  /\ Clock(s) > Until(s, seen)[d]}
LetIn(s, seen) == {d \in Devices : Home[d] = s /\ Until(s, seen)[d] = Never} \union Over(s, seen)

LEMMA TickDoes ==
  ASSUME NEW s \in Servers, Tick(s)
  PROVE  /\ s \notin done /\ done' = done \union {s}
         /\ UNCHANGED <<now, using, used, starts, report, heard, link, answer, push>>
         /\ \E seen \in Seen(s) :
               /\ held' = [held EXCEPT ![s] = [d \in Devices |->
                             IF d \in Over(s, seen) THEN Never ELSE Until(s, seen)[d]]]
               /\ acts' = [d \in Devices |-> IF d \in Over(s, seen)
                                             THEN [seen[d] EXCEPT !.moved = Never] ELSE seen[d]]
               /\ served' = (served \ {d \in Devices : Home[d] = s}) \union LetIn(s, seen)
               /\ fresh' = (fresh \ {d \in Devices : Home[d] = s}) \union (LetIn(s, seen) \ served)
               /\ holdCalls' = holdCalls \union
                     {[dev |-> d, until |-> Until(s, seen)[d], at |-> now] :
                         d \in Off(s, seen) \ {e \in Devices : Home[e] = s}}
<1>1. PICK seen \in Seen(s) :
        LET t     == Clock(s)
            mine  == {d \in Devices : Home[d] = s}
            off   == IF Decides(s) THEN Enforce(s, seen) ELSE {}
            until == [d \in Devices |-> IF d \in off THEN t + HoldFor ELSE held[s][d]]
            over  == {d \in mine : until[d] # Never /\ t > until[d]}
            in    == {d \in mine : until[d] = Never} \union over
        IN  /\ held' = [held EXCEPT ![s] = [d \in Devices |->
                             IF d \in over THEN Never ELSE until[d]]]
            /\ acts' = [d \in Devices |->
                             IF d \in over THEN [seen[d] EXCEPT !.moved = Never]
                             ELSE seen[d]]
            /\ served' = (served \ mine) \union in
            /\ fresh' = (fresh \ mine) \union (in \ served)
            /\ holdCalls' = holdCalls \union
                  {[dev |-> d, until |-> until[d], at |-> now] : d \in off \ mine}
  BY DEF Tick
<1>2. /\ s \notin done /\ done' = done \union {s}
      /\ UNCHANGED <<now, using, used, starts, report, heard, link, answer, push>>
  BY DEF Tick, userVars
<1>3. {d \in {e \in Devices : Home[e] = s} : Until(s, seen)[d] # Never /\ Clock(s) > Until(s, seen)[d]}
        = Over(s, seen)
  BY DEF Over
<1>4. {d \in {e \in Devices : Home[e] = s} : Until(s, seen)[d] = Never}
        = {d \in Devices : Home[d] = s /\ Until(s, seen)[d] = Never}
  OBVIOUS
<1>5. QED
  BY <1>1, <1>2, <1>3, <1>4 DEF Off, Until, LetIn

LEMMA TickOK ==
  ASSUME HistoryInv, NEW s \in Servers, Tick(s)
  PROVE  HistoryInv'
<1>1. /\ Shape /\ UseOK /\ ToldOK /\ s \notin done /\ done' = done \union {s} /\ now' = now
      /\ using' = using /\ used' = used /\ starts' = starts /\ report' = report /\ heard' = heard
      /\ answer' = answer /\ push' = push
  BY TickDoes DEF HistoryInv
<1>2. PICK seen \in Seen(s) :
        /\ held' = [held EXCEPT ![s] = [d \in Devices |->
                      IF d \in Over(s, seen) THEN Never ELSE Until(s, seen)[d]]]
        /\ acts' = [d \in Devices |-> IF d \in Over(s, seen)
                                      THEN [seen[d] EXCEPT !.moved = Never] ELSE seen[d]]
        /\ served' = (served \ {d \in Devices : Home[d] = s}) \union LetIn(s, seen)
        /\ fresh' = (fresh \ {d \in Devices : Home[d] = s}) \union (LetIn(s, seen) \ served)
        /\ holdCalls' = holdCalls \union
              {[dev |-> d, until |-> Until(s, seen)[d], at |-> now] :
                  d \in Off(s, seen) \ {e \in Devices : Home[e] = s}}
  BY TickDoes
<1>3. seen \in [Devices -> Act] /\ \A d \in Devices : SeenOK(d, seen[d])
  BY <1>1, <1>2, SeenIsSo
<1>4. /\ Never \in Ends /\ Clock(s) + HoldFor \in Ends /\ now \in Nat
      /\ \A d \in Devices : Home[d] = IF d \in OnNode THEN "node" ELSE "panel"
  BY <1>1, Clocks, ConcurrencyAssumption DEF Shape, Home
<1>5. \A d \in Devices : Until(s, seen)[d] \in Ends
  BY <1>1, <1>4 DEF Until, Shape
<1>6. held' \in [Servers -> [Devices -> Ends]]
  BY <1>1, <1>2, <1>4, <1>5 DEF Shape
<1>7. ASSUME NEW d \in Devices
      PROVE  acts'[d] \in Act /\ SeenOK(d, acts[d])'
  <2>1. PICK a : a = IF d \in Over(s, seen) THEN [seen[d] EXCEPT !.moved = Never] ELSE seen[d]
    OBVIOUS
  <2>2. SeenOK(d, a)
    BY <1>1, <1>3, <2>1, AfreshOK
  <2>3. acts'[d] = a
    BY <1>2, <2>1
  <2>4. SeenOK(d, a)'
    BY <1>1, <2>2 DEF SeenOK, Lead
  <2>5. QED
    BY <2>3, <2>4 DEF SeenOK, Lead
<1>8. acts' \in [Devices -> Act]
  <2>1. DOMAIN acts' = Devices /\ acts' = [d \in Devices |-> acts'[d]]
    BY <1>2
  <2>2. QED
    BY <1>7, <2>1
<1>9. served' \subseteq Devices /\ fresh' \subseteq served'
  <2>1. LetIn(s, seen) \subseteq Devices
    BY DEF LetIn, Over
  <2>2. QED
    BY <1>1, <1>2, <2>1 DEF Shape
<1>10. Off(s, seen) \subseteq Devices /\ Off(s, seen) \ {d \in Devices : Home[d] = s} \subseteq OnNode
  <2>1. Off(s, seen) \subseteq Accounts(s)
    BY DEF Off, Enforce
  <2>2. QED
    BY <1>4, <2>1, ConcurrencyAssumption DEF Accounts, Servers
<1>11. \A c \in holdCalls' : c.dev \in OnNode /\ c.until \in Ends /\ c.at \in Int
  <2>1. SUFFICES ASSUME NEW c \in holdCalls', c \notin holdCalls
                 PROVE  c.dev \in OnNode /\ c.until \in Ends /\ c.at \in Int
    BY <1>1 DEF Shape
  <2>2. PICK d \in Off(s, seen) \ {e \in Devices : Home[e] = s} :
          c = [dev |-> d, until |-> Until(s, seen)[d], at |-> now]
    BY <1>2, <2>1
  <2>3. c.dev = d /\ c.until = Until(s, seen)[d] /\ c.at = now
    BY <2>2
  <2>4. QED
    <3>1. d \in OnNode /\ d \in Devices
      BY <1>10, <2>2
    <3>2. Until(s, seen)[d] \in Ends
      BY <1>5, <3>1
    <3>3. QED
      BY <1>4, <2>3, <3>1, <3>2
<1>12. Shape'
  BY <1>1, <1>6, <1>8, <1>9, <1>11 DEF Shape, Never
<1>13. UseOK'
  <2>1. \A d \in served' : \A h \in using[d] : Home[d] \notin done' => used[d][h] = now
    <3> SUFFICES ASSUME NEW d \in served', NEW h \in using[d], Home[d] \notin done'
                 PROVE  used[d][h] = now
      OBVIOUS
    <3>1. Home[d] # s /\ Home[d] \notin done
      BY <1>1
    <3>2. d \in served
      BY <1>2, <3>1 DEF LetIn, Over
    <3>3. QED
      BY <1>1, <3>1, <3>2 DEF UseOK
  <2>2. QED
    BY <1>1, <2>1 DEF UseOK
<1>14. ToldOK'
  BY <1>1 DEF ToldOK, Never, Recent, Reach
<1>15. QED
  BY <1>7, <1>12, <1>13, <1>14 DEF HistoryInv

\* The node's answer.
LEMMA SessionsOK ==
  ASSUME HistoryInv, Sessions
  PROVE  HistoryInv'
<1>1. /\ Shape /\ UseOK /\ ToldOK /\ done' = done /\ now' = now
      /\ using' = using /\ used' = used /\ starts' = starts /\ report' = report
      /\ acts' = acts /\ held' = held /\ served' = served /\ fresh' = fresh
      /\ push' = push /\ holdCalls' = holdCalls /\ heard' = Clock("node")
  BY DEF HistoryInv, Sessions, elseUnchanged, userVars, serverVars
<1>2. /\ OnNode \subseteq Devices /\ Never \in Int /\ Clock("node") \in Int /\ now \in Nat
      /\ "node" \in Servers /\ \A d \in OnNode : Home[d] = "node"
      /\ GiveUp \in Nat
  BY <1>1, Clocks, ConcurrencyAssumption DEF Servers, Home, Shape
<1>3. ASSUME NEW d \in OnNode
      PROVE  /\ Own(acts, d, Clock("node")).n \in Nat
             /\ Own(acts, d, Clock("node")).since \in Int
             /\ Own(acts, d, Clock("node")).n <= Cardinality(Recent(d, now, Reach(d)))
  <2>1. d \in Devices /\ SeenOK(d, acts[d]) /\ acts[d].since \in Int
    BY <1>1, <1>2 DEF HistoryInv, Shape, Act
  <2>2. /\ Connections(acts[d], Clock("node")) \in Nat
        /\ Connections(acts[d], Clock("node")) <= Cardinality(Recent(d, now, Reach(d)))
    BY <1>2, <2>1, ConnectionsCounted
  <2>3. QED
    BY <1>2, <2>1, <2>2 DEF Own, Silent
<1>4. answer' = [at |-> now,
                 of |-> [d \in OnNode |-> [n   |-> Own(acts, d, Clock("node")).n,
                                           age |-> Clock("node") - Own(acts, d, Clock("node")).since]]]
  BY DEF Sessions
<1>5. answer' \in [at : Int, of : [OnNode -> [n : Nat, age : Int]]]
  BY <1>2, <1>3, <1>4
<1>6. Shape'
  BY <1>1, <1>2, <1>5 DEF Shape, Never
<1>7. UseOK'
  BY <1>1 DEF UseOK
<1>8. \A d \in Devices : SeenOK(d, acts[d])'
  BY <1>1 DEF HistoryInv, SeenOK, Lead
<1>9. ToldOK'
  <2>1. \A d \in OnNode : answer'.of[d].n <= Cardinality(Recent(d, now, Reach(d)))
    BY <1>3, <1>4
  <2>2. answer'.at = now /\ answer'.at <= now' /\ now' - answer'.at <= GiveUp
    BY <1>1, <1>2, <1>4
  <2>3. QED
    BY <1>1, <2>1, <2>2 DEF ToldOK, Never, Recent, Reach
<1>10. QED
  BY <1>6, <1>7, <1>8, <1>9 DEF HistoryInv

\* What the panel keeps of it.
LEMMA SetRemoteOK ==
  ASSUME HistoryInv, SetRemote
  PROVE  HistoryInv'
<1>1. /\ Shape /\ UseOK /\ ToldOK /\ done' = done /\ now' = now /\ answer.at # Never
      /\ using' = using /\ used' = used /\ starts' = starts /\ answer' = [at |-> Never]
      /\ acts' = acts /\ held' = held /\ served' = served /\ fresh' = fresh
      /\ push' = push /\ holdCalls' = holdCalls /\ heard' = heard
  BY DEF HistoryInv, SetRemote, elseUnchanged, userVars, serverVars
<1>2. OnNode \subseteq Devices /\ Never \in Int /\ now \in Nat /\ GiveUp \in Nat
  BY <1>1, Clocks, ConcurrencyAssumption DEF Shape
<1>3. answer \in [at : Int, of : [OnNode -> [n : Nat, age : Int]]]
  BY <1>1 DEF Shape
<1>4. report' = [at |-> now,
                 of |-> [d \in OnNode |->
                           IF answer.of[d].n = 0 THEN Silent
                           ELSE [n |-> answer.of[d].n, since |-> now - answer.of[d].age]]]
  BY DEF SetRemote
<1>5. report' \in [at : Int, of : [OnNode -> [n : Nat, since : Int]]]
  BY <1>2, <1>3, <1>4 DEF Silent
<1>6. Shape'
  BY <1>1, <1>2, <1>5 DEF Shape, Never
<1>7. UseOK'
  BY <1>1 DEF UseOK
<1>8. \A d \in Devices : SeenOK(d, acts[d])'
  BY <1>1 DEF HistoryInv, SeenOK, Lead
<1>9. ASSUME NEW d \in OnNode
      PROVE  report'.of[d].n <= Cardinality(Recent(d, now, Reach(d) + GiveUp))
  <2>1. answer.of[d].n \in Nat /\ answer.of[d].n <= Cardinality(Recent(d, answer.at, Reach(d)))
    BY <1>1, <1>3 DEF ToldOK
  <2>2. report'.of[d].n = answer.of[d].n
    BY <1>3, <1>4 DEF Silent
  <2>3. Recent(d, answer.at, Reach(d)) \subseteq Recent(d, now, Reach(d) + GiveUp)
    <3> SUFFICES ASSUME NEW h \in Hosts, answer.at - used[d][h] < Reach(d)
                 PROVE  now - used[d][h] < Reach(d) + GiveUp
      BY DEF Recent
    <3>1. used[d][h] \in Int /\ answer.at \in Int /\ now - answer.at <= GiveUp /\ Reach(d) \in Nat
      BY <1>1, <1>2, Clocks DEF ToldOK, Shape
    <3>2. QED
      BY <1>2, <3>1
  <2>4. IsFiniteSet(Recent(d, now, Reach(d) + GiveUp))
    BY RecentFinite
  <2>5. answer.of[d].n <= Cardinality(Recent(d, now, Reach(d) + GiveUp))
    BY <2>1, <2>3, <2>4, RecentGrows
  <2>6. QED
    BY <2>2, <2>5
<1>10. ToldOK'
  <2>1. report'.at = now /\ answer'.at = Never
    BY <1>1, <1>4
  <2>2. QED
    BY <1>1, <1>9, <2>1 DEF ToldOK, Never, Recent, Reach
<1>11. QED
  BY <1>6, <1>7, <1>8, <1>10 DEF HistoryInv

LEMMA StillOK ==
  ASSUME HistoryInv, Shape', UNCHANGED <<now, userVars, served, acts, report, answer>>,
         done \subseteq done'
  PROVE  HistoryInv'
<1>1. UNCHANGED <<now, userVars, served>>
  OBVIOUS
<1>2. \A d \in Devices : acts'[d] = acts[d] \/ acts'[d] = Unseen
  OBVIOUS
<1>3. /\ answer' = answer \/ answer'.at = Never
      /\ report' = report \/ (report' = NoReport /\ answer'.at = Never)
  OBVIOUS
<1>4. QED
  BY <1>1, <1>2, <1>3, QuietOK

\* The other steps.
LEMMA OthersOK ==
  ASSUME HistoryInv,
         \/ AnswerLost \/ Push \/ PushFails \/ PanelRestarts \/ NodeRestarts
         \/ \E c \in holdCalls : HoldArrives(c) \/ HoldLost(c)
         \/ \E l \in {"up", "down", "deaf"} : LinkChanges(l)
         \/ UNCHANGED vars
  PROVE  HistoryInv'
<1>1. /\ Shape /\ OnNode \subseteq Devices /\ Never \in Int /\ Never \in Ends /\ now \in Nat /\ {"panel", "node"} = Servers
      /\ Clock("node") \in Int /\ Unseen \in Act /\ "node" \in Servers /\ "panel" \in Servers
  <2>1. Shape /\ Never \in Int /\ Never \in Ends /\ {"panel", "node"} = Servers
    BY Clocks DEF HistoryInv, Servers
  <2>2. Unseen \in Act /\ Clock("node") \in Int
    BY <2>1, Clocks DEF Unseen, Act
  <2>3. QED
    BY <2>1, <2>2, ConcurrencyAssumption DEF Shape
<1>2. CASE AnswerLost
  <2>1. Shape'
    BY <1>1, <1>2 DEF AnswerLost, elseUnchanged, userVars, serverVars, Shape, Never
  <2>2. QED
    BY <1>2, <2>1, QuietOK DEF AnswerLost, elseUnchanged, userVars, serverVars
<1>3. CASE Push
  <2>1. held' = [held EXCEPT !["node"] = [d \in Devices |->
                   IF d \in {e \in OnNode : InForce("panel", e) /\ Clock("node") < held["panel"][e]}
                   THEN Longer(held["node"][d], held["panel"][d]) ELSE held["node"][d]]]
    BY <1>3 DEF Push
  <2>2. held' \in [Servers -> [Devices -> Ends]]
    BY <1>1, <2>1 DEF Shape, Longer
  <2>3. push' \in Int
    BY <1>1, <1>3 DEF Push
  <2>4. /\ UNCHANGED <<served, fresh, acts, report, answer, holdCalls, now, userVars>>
        /\ heard' = Clock("node") /\ done \subseteq done'
    BY <1>3 DEF Push, elseUnchanged
  <2>5. Shape'
    BY <1>1, <2>2, <2>3, <2>4 DEF Shape, userVars, Never
  <2>6. QED
    BY <2>4, <2>5, StillOK
<1>4. CASE PushFails
  <2>1. Shape'
    BY <1>1, <1>4 DEF PushFails, elseUnchanged, userVars, serverVars, Shape, Never
  <2>2. QED
    BY <1>4, <2>1, StillOK DEF PushFails, elseUnchanged, userVars, serverVars
<1>5. CASE PanelRestarts
  <2>1. /\ held' = [held EXCEPT !["panel"] = [d \in Devices |-> Never]]
        /\ acts' = [d \in Devices |-> IF d \in OnNode THEN acts[d] ELSE Unseen]
        /\ report' = NoReport /\ answer' = [at |-> Never] /\ holdCalls' = {} /\ push' = Never
        /\ UNCHANGED <<served, fresh, heard, done, now, userVars>>
    BY <1>5 DEF PanelRestarts, elseUnchanged
  <2>2. report' \in [at : Int, of : [OnNode -> [n : Nat, since : Int]]]
    BY <1>1, <2>1 DEF NoReport, Silent
  <2>3. acts' \in [Devices -> Act] /\ held' \in [Servers -> [Devices -> Ends]]
    BY <1>1, <2>1 DEF Shape
  <2>4. answer'.at = Never
    BY <2>1
  <2>5. Shape'
    BY <1>1, <2>1, <2>2, <2>3, <2>4 DEF Shape, userVars, Never
  <2>6. HistoryInv'
    BY <2>1, <2>4, <2>5, QuietOK
  <2>7. QED
    BY <2>6
<1>6. CASE NodeRestarts
  <2>1. /\ held' = [held EXCEPT !["node"] = [d \in Devices |-> Never]]
        /\ acts' = [d \in Devices |-> IF d \in OnNode THEN Unseen ELSE acts[d]]
        /\ heard' = Never /\ answer' = [at |-> Never] /\ push' = Never
        /\ UNCHANGED <<served, fresh, report, holdCalls, done, now, userVars>>
    BY <1>6 DEF NodeRestarts, elseUnchanged
  <2>3. acts' \in [Devices -> Act] /\ held' \in [Servers -> [Devices -> Ends]]
    BY <1>1, <2>1 DEF Shape
  <2>4. answer'.at = Never
    BY <2>1
  <2>5. Shape'
    BY <1>1, <2>1, <2>3, <2>4 DEF Shape, userVars, Never
  <2>6. HistoryInv'
    BY <2>1, <2>4, <2>5, QuietOK
  <2>7. QED
    BY <2>6
<1>7. ASSUME NEW c \in holdCalls, HoldArrives(c)
      PROVE  HistoryInv'
  <2>1. /\ held' = [held EXCEPT !["node"][c.dev] = Longer(@, c.until)]
        /\ heard' = Clock("node") /\ holdCalls' = holdCalls \ {c}
        /\ UNCHANGED <<served, fresh, acts, report, answer, push, done, now, userVars>>
    BY <1>7 DEF HoldArrives, elseUnchanged
  <2>2. held' \in [Servers -> [Devices -> Ends]]
    BY <1>1, <2>1 DEF Shape, Longer
  <2>3. Shape'
    BY <1>1, <2>1, <2>2 DEF Shape, userVars, Never
  <2>4. QED
    BY <2>1, <2>3, StillOK
<1>8. ASSUME NEW c \in holdCalls, HoldLost(c)
      PROVE  HistoryInv'
  <2>1. /\ holdCalls' = holdCalls \ {c}
        /\ UNCHANGED <<serverVars, report, heard, answer, push, done, now, userVars>>
    BY <1>8 DEF HoldLost, elseUnchanged
  <2>3. Shape'
    BY <1>1, <2>1 DEF Shape, userVars, serverVars, Never
  <2>4. QED
    BY <2>1, <2>3, StillOK DEF serverVars
<1>9. ASSUME NEW l \in {"up", "down", "deaf"}, LinkChanges(l)
      PROVE  HistoryInv'
  <2>1. UNCHANGED <<serverVars, report, heard, answer, holdCalls, push, now, userVars, done>>
    BY <1>9 DEF LinkChanges
  <2>3. Shape'
    BY <1>1, <2>1 DEF Shape, userVars, serverVars, Never
  <2>4. QED
    BY <2>1, <2>3, StillOK DEF serverVars
<1>10. CASE UNCHANGED vars
  <2>1. UNCHANGED <<serverVars, report, heard, answer, holdCalls, push, now, userVars, done>>
    BY <1>10 DEF vars, serverVars, userVars
  <2>3. Shape'
    BY <1>1, <2>1 DEF Shape, userVars, serverVars, Never
  <2>4. QED
    BY <2>1, <2>3, StillOK DEF serverVars
<1>11. QED
  BY <1>2, <1>3, <1>4, <1>5, <1>6, <1>7, <1>8, <1>9, <1>10

LEMMA HistoryStep == HistoryInv /\ [Next]_vars => HistoryInv'
<1> SUFFICES ASSUME HistoryInv, [Next]_vars PROVE HistoryInv'
  OBVIOUS
<1>1. CASE Pass
  BY <1>1, PassOK
<1>2. ASSUME NEW d \in Devices, NEW h \in Hosts, Switch(d, h) PROVE HistoryInv'
  BY <1>2, SwitchOK
<1>3. ASSUME NEW s \in Servers, Tick(s) PROVE HistoryInv'
  BY <1>3, TickOK
<1>4. CASE Sessions
  BY <1>4, SessionsOK
<1>5. CASE SetRemote
  BY <1>5, SetRemoteOK
<1>6. QED
  BY <1>1, <1>2, <1>3, <1>4, <1>5, OthersOK DEF Next

\* What the servers know of a customer's devices is true: every device they
\* count was used, from as many hosts as they count, within the time they
\* look back, by the clock of either and through a report that was late
\* (concurrency.go: moved, connections, sessions; api/node.go: handleNodeSessions).
THEOREM KnowledgeIsTrue == Spec => []HistoryInv
<1>1. Init => HistoryInv
  BY HistoryInitial
<1>2. HistoryInv /\ [Next]_vars => HistoryInv'
  BY HistoryStep
<1>3. QED
  BY <1>1, <1>2, PTL DEF Spec

\* What remains of the types: nothing is from the future, and only a database of
\* one connection waits for itself.
BoundsOK ==
    /\ now <= MaxTime
    /\ report.at <= now /\ push <= now
    /\ link \in {"up", "down", "deaf"}
    /\ ~oneConnection => ~Stuck
    /\ done \subseteq Servers \union {"push"}

LEMMA BoundsStep ==
  ASSUME HistoryInv, BoundsOK, [Next]_vars
  PROVE  BoundsOK'
<1>1. /\ now \in Nat /\ MaxTime \in Nat /\ push \in Int /\ report.at \in Int
      /\ Never \in Int /\ Never <= now
  BY Clocks, ConcurrencyAssumption DEF HistoryInv, Shape, Servers, Clock
<1>2. CASE Pass
  BY <1>1, <1>2 DEF BoundsOK, Pass, linkVars, Stuck
<1>3. ASSUME NEW s \in Servers, Tick(s) PROVE BoundsOK'
  BY <1>3 DEF BoundsOK, Tick, Stuck
<1>4. CASE SetRemote
  BY <1>1, <1>4 DEF BoundsOK, SetRemote, elseUnchanged, Stuck
<1>5. CASE Push
  BY <1>1, <1>5 DEF BoundsOK, Push, elseUnchanged, Stuck
<1>6. ASSUME NEW l \in {"up", "down", "deaf"}, LinkChanges(l) PROVE BoundsOK'
  BY <1>6 DEF BoundsOK, LinkChanges, Stuck
<1>7. CASE PanelRestarts
  BY <1>1, <1>7 DEF BoundsOK, PanelRestarts, NoReport, elseUnchanged, Stuck
<1>8. CASE NodeRestarts \/ PushFails
  BY <1>1, <1>8 DEF BoundsOK, NodeRestarts, PushFails, elseUnchanged, Stuck
<1>9. ASSUME UNCHANGED <<now, report, push, link, oneConnection, done>> PROVE BoundsOK'
  BY <1>9 DEF BoundsOK, Stuck
<1>10. QED
  BY <1>2, <1>3, <1>4, <1>5, <1>6, <1>7, <1>8, <1>9
     DEF Next, vars, Switch, linkVars, Sessions, AnswerLost, HoldArrives, HoldLost, elseUnchanged

\* Every variable keeps its type: no report or answer is from the future, a live
\* device was first seen before it was last seen, and only a database of one
\* connection ever waits for itself.
THEOREM TypeCorrect == Spec => []TypeOK
<1>1. Init => HistoryInv /\ BoundsOK
  <2>1. SUFFICES ASSUME Init, HistoryInv PROVE BoundsOK
    BY HistoryInitial
  <2>2. Never \in Int /\ Never <= now /\ now = 0 /\ MaxTime \in Nat
    BY <2>1, Clocks, ConcurrencyAssumption DEF Init, HistoryInv, Shape, Servers, Clock
  <2>3. QED
    BY <2>1, <2>2 DEF Init, BoundsOK, NoReport, Stuck
<1>2. HistoryInv /\ BoundsOK /\ [Next]_vars => (HistoryInv /\ BoundsOK)'
  BY HistoryStep, BoundsStep
<1>3. HistoryInv /\ BoundsOK => TypeOK
  <2> SUFFICES ASSUME HistoryInv, BoundsOK PROVE TypeOK
    OBVIOUS
  <2>1. /\ now \in Nat /\ MaxTime \in Nat /\ Never \in Int /\ Never <= now
    BY Clocks, ConcurrencyAssumption DEF HistoryInv, Shape, Servers, Clock
  <2>2. \A d \in Devices : /\ acts[d].since <= acts[d].moved \/ acts[d].moved = Never
                          /\ acts[d].flips \in 0..2
    BY DEF HistoryInv, SeenOK, Act
  <2>3. answer.at <= now
    BY <2>1 DEF HistoryInv, ToldOK
  <2>4. held \in [Servers -> [Devices -> Int]]
    BY DEF HistoryInv, Shape, Ends
  <2>5. QED
    BY <2>1, <2>2, <2>3, <2>4 DEF TypeOK, BoundsOK, HistoryInv, Shape
<1>4. QED
  BY <1>1, <1>2, <1>3, PTL DEF Spec

-----------------------------------------------------------------------------
(* Sums. The library's sum of a function is a CHOOSE of another function:  *)
(* what it gives is found member by member, and each fact about it by      *)
(* looking at a smallest set it could fail for.                            *)

One(s) == CHOOSE x \in s : TRUE
Unfolds(h, g, S) ==
    h = [s \in SUBSET S |-> IF s = {} THEN 0 ELSE g[One(s)] + h[s \ {One(s)}]]

\* Of subsets of a finite set there is always a smallest one.
LEMMA Smallest ==
  ASSUME NEW S, IsFiniteSet(S), NEW Q \in SUBSET SUBSET S, Q # {}
  PROVE  \E T \in Q : \A U \in Q : U \subseteq T => U = T
<1>1. IsWellFoundedOn(StrictSubsetOrdering(S), FiniteSubsetsOf(S))
  BY FS_StrictSubsetOrderingWellFounded
<1>2. Q \subseteq FiniteSubsetsOf(S)
  BY FS_Subset DEF FiniteSubsetsOf
<1>3. PICK T \in Q : \A U \in Q : ~(<<U, T>> \in StrictSubsetOrdering(S))
  BY <1>1, <1>2, WFMin
<1>4. QED
  BY <1>3 DEF StrictSubsetOrdering

LEMMA OneOf == \A s : s # {} => One(s) \in s
  BY DEF One

\* Two unfoldings of one function agree wherever both are defined.
LEMMA UnfoldsAgree ==
  ASSUME NEW g, NEW S, NEW T, IsFiniteSet(S), NEW h, NEW k,
         Unfolds(h, g, S), Unfolds(k, g, T), NEW U \in SUBSET S, U \in SUBSET T
  PROVE  h[U] = k[U]
<1> DEFINE Bad == {s \in SUBSET S : s \in SUBSET T /\ h[s] # k[s]}
<1> SUFFICES ASSUME Bad # {} PROVE FALSE
  OBVIOUS
<1>1. PICK s \in Bad : \A u \in Bad : u \subseteq s => u = s
  <2>1. Bad \in SUBSET SUBSET S
    OBVIOUS
  <2> HIDE DEF Bad
  <2>2. QED
    BY <2>1, Smallest
<1>2. s # {}
  BY <1>1 DEF Unfolds
<1>3. h[s \ {One(s)}] = k[s \ {One(s)}]
  BY <1>1, <1>2, OneOf
<1>4. QED
  BY <1>1, <1>2, <1>3 DEF Unfolds

\* Every function with a finite domain has one, and its sum over a set is one
\* value and the sum of the others.
LEMMA SumUnfolds ==
  ASSUME NEW g, NEW S, IsFiniteSet(S)
  PROVE  /\ \E h : Unfolds(h, g, S)
         /\ SumFunctionOnSet(g, S) =
              IF S = {} THEN 0 ELSE g[One(S)] + SumFunctionOnSet(g, S \ {One(S)})
<1> DEFINE W(T) == CHOOSE h : Unfolds(h, g, T)
           Exists(T) == \E h : Unfolds(h, g, T)
<1>1. \A T : SumFunctionOnSet(g, T) = W(T)[T]
  BY DEF SumFunctionOnSet, FoldFunctionOnSet, MapThenFoldSet, Unfolds, One
<1>2. \A T \in SUBSET S : Exists(T) => Unfolds(W(T), g, T)
  OBVIOUS
<1> HIDE DEF W
<1>3. ASSUME NEW T \in SUBSET S, Exists(T), Exists(T \ {One(T)})
      PROVE  SumFunctionOnSet(g, T) =
                IF T = {} THEN 0 ELSE g[One(T)] + SumFunctionOnSet(g, T \ {One(T)})
  <2>1. Unfolds(W(T), g, T)
    BY <1>2, <1>3
  <2>2. CASE T = {}
    BY <2>1, <2>2, <1>1 DEF Unfolds
  <2>3. CASE T # {}
    <3> DEFINE R == T \ {One(T)}
    <3>1. Unfolds(W(R), g, R) /\ R \in SUBSET S /\ R \in SUBSET T /\ IsFiniteSet(T)
      BY <1>2, <1>3, FS_Subset
    <3>2. W(T)[R] = W(R)[R]
      BY <2>1, <3>1, UnfoldsAgree
    <3>3. W(T)[T] = g[One(T)] + W(T)[R]
      BY <2>1, <2>3 DEF Unfolds
    <3>4. QED
      BY <1>1, <2>3, <3>2, <3>3
  <2>4. QED
    BY <2>2, <2>3
<1>4. \A T \in SUBSET S : Exists(T)
  <2> DEFINE Bad == {T \in SUBSET S : ~Exists(T)}
  <2> SUFFICES ASSUME Bad # {} PROVE FALSE
    OBVIOUS
  <2>1. PICK T \in Bad : \A u \in Bad : u \subseteq T => u = T
    <3>1. Bad \in SUBSET SUBSET S
      OBVIOUS
    <3> HIDE DEF Bad
    <3>2. QED
      BY <3>1, Smallest
  <2>2. \A u \in SUBSET T : u # T => Exists(u) /\ Exists(u \ {One(u)})
    <3>1. \A u \in SUBSET T : u # T => u \ {One(u)} \in SUBSET T /\ u \ {One(u)} # T
      OBVIOUS
    <3>2. \A u \in SUBSET T : u # T => Exists(u)
      BY <2>1
    <3>3. QED
      BY <3>1, <3>2
  <2> DEFINE h == [s \in SUBSET T |->
                     IF s = {} THEN 0 ELSE g[One(s)] + SumFunctionOnSet(g, s \ {One(s)})]
  <2>3. \A s \in SUBSET T : s # T => h[s] = SumFunctionOnSet(g, s)
    BY <1>3, <2>1, <2>2
  <2>4. \A s \in SUBSET T : s # {} => s \ {One(s)} \in SUBSET T /\ s \ {One(s)} # T
    BY OneOf
  <2>5. \A s \in SUBSET T : s # {} => h[s \ {One(s)}] = SumFunctionOnSet(g, s \ {One(s)})
    BY <2>3, <2>4
  <2>6. \A s \in SUBSET T : h[s] = IF s = {} THEN 0 ELSE g[One(s)] + h[s \ {One(s)}]
    BY <2>5
  <2>7. h = [s \in SUBSET T |-> h[s]]
    OBVIOUS
  <2> HIDE DEF h
  <2>8. Unfolds(h, g, T)
    BY <2>6, <2>7 DEF Unfolds
  <2>9. QED
    BY <2>1, <2>8
<1>5. S \ {One(S)} \in SUBSET S
  OBVIOUS
<1>6. QED
  BY <1>3, <1>4, <1>5

\* A sum of figures, none of which is more than a set has members, is no more than
\* all those sets have together.
LEMMA SumIsCovered ==
  ASSUME NEW T, IsFiniteSet(T), NEW H, IsFiniteSet(H), NEW g, NEW R,
         \A d \in T : g[d] \in Nat /\ R[d] \subseteq H /\ g[d] <= Cardinality(R[d])
  PROVE  /\ SumFunctionOnSet(g, T) \in Nat
         /\ SumFunctionOnSet(g, T) <= Cardinality({p \in T \X H : p[2] \in R[p[1]]})
<1> DEFINE Pairs(U) == {p \in U \X H : p[2] \in R[p[1]]}
           Good(U) == /\ SumFunctionOnSet(g, U) \in Nat
                      /\ SumFunctionOnSet(g, U) <= Cardinality(Pairs(U))
           Bad == {U \in SUBSET T : ~Good(U)}
<1> SUFFICES ASSUME Bad # {} PROVE FALSE
  OBVIOUS
<1>1. PICK U \in Bad : \A V \in Bad : V \subseteq U => V = U
  <2>1. Bad \in SUBSET SUBSET T
    OBVIOUS
  <2> HIDE DEF Bad
  <2>2. QED
    BY <2>1, Smallest
<1>2. \A V \in SUBSET T : IsFiniteSet(V) /\ IsFiniteSet(Pairs(V)) /\ Cardinality(Pairs(V)) \in Nat
  <2> SUFFICES ASSUME NEW V \in SUBSET T
               PROVE  IsFiniteSet(V) /\ IsFiniteSet(Pairs(V)) /\ Cardinality(Pairs(V)) \in Nat
    OBVIOUS
  <2>1. IsFiniteSet(V)
    BY FS_Subset
  <2>2. IsFiniteSet(V \X H)
    BY <2>1, FS_Product
  <2>3. Pairs(V) \subseteq V \X H
    OBVIOUS
  <2>4. IsFiniteSet(Pairs(V))
    BY <2>2, <2>3, FS_Subset
  <2>5. QED
    BY <2>1, <2>4, FS_CardinalityType
<1>3. CASE U = {}
  <2>1. SumFunctionOnSet(g, U) = 0
    BY <1>3, FS_EmptySet, SumUnfolds
  <2>2. Cardinality(Pairs(U)) \in Nat
    BY <1>1, <1>2
  <2> HIDE DEF Pairs
  <2>3. QED
    BY <1>1, <2>1, <2>2
<1>4. CASE U # {}
  <2> DEFINE V == U \ {One(U)}
  <2>1. One(U) \in U /\ One(U) \in T /\ V \in SUBSET T /\ V # U
    BY <1>1, <1>4, OneOf
  <2>2. Good(V)
    BY <1>1, <2>1
  <2>3. SumFunctionOnSet(g, U) = g[One(U)] + SumFunctionOnSet(g, V)
    BY <1>1, <1>2, <1>4, SumUnfolds
  <2> DEFINE X == {One(U)} \X R[One(U)]
  <2>4. R[One(U)] \subseteq H /\ IsFiniteSet(R[One(U)]) /\ Cardinality(R[One(U)]) \in Nat
        /\ g[One(U)] \in Nat /\ g[One(U)] <= Cardinality(R[One(U)])
    BY <2>1, FS_Subset, FS_CardinalityType
  <2>5. IsFiniteSet(X) /\ Cardinality(X) = Cardinality(R[One(U)])
    <3>1. IsFiniteSet({One(U)}) /\ Cardinality({One(U)}) = 1
      BY FS_Singleton
    <3>2. IsFiniteSet(X) /\ Cardinality(X) = Cardinality({One(U)}) * Cardinality(R[One(U)])
      BY <2>4, <3>1, FS_Product
    <3>3. QED
      BY <2>4, <3>1, <3>2
  <2>6. Pairs(U) = Pairs(V) \union X /\ Pairs(V) \cap X = {}
    BY <2>1, <2>4
  <2>7. Cardinality(Pairs(U)) = Cardinality(Pairs(V)) + Cardinality(X)
    <3>1. Cardinality(Pairs(V) \union X) =
            Cardinality(Pairs(V)) + Cardinality(X) - Cardinality(Pairs(V) \cap X)
      BY <1>2, <2>1, <2>5, FS_Union
    <3>2. Cardinality(Pairs(V) \cap X) = 0
      BY <2>6, FS_EmptySet
    <3>3. Cardinality(Pairs(V)) \in Nat /\ Cardinality(X) \in Nat
      BY <1>2, <2>1, <2>4, <2>5
    <3> HIDE DEF Pairs, X, V
    <3>4. QED
      BY <2>6, <3>1, <3>2, <3>3
  <2> HIDE DEF Pairs, X, V
  <2>8. Good(U)
    BY <1>2, <2>1, <2>2, <2>3, <2>4, <2>5, <2>7
  <2>9. QED
    BY <1>1, <2>8
<1>5. QED
  BY <1>3, <1>4

\* Ones sum to how many there are.
LEMMA SumOfOnes ==
  ASSUME NEW T, IsFiniteSet(T), NEW g, \A d \in T : g[d] = 1
  PROVE  SumFunctionOnSet(g, T) = Cardinality(T)
<1> DEFINE Bad == {U \in SUBSET T : SumFunctionOnSet(g, U) # Cardinality(U)}
<1> SUFFICES ASSUME Bad # {} PROVE FALSE
  OBVIOUS
<1>1. PICK U \in Bad : \A V \in Bad : V \subseteq U => V = U
  <2>1. Bad \in SUBSET SUBSET T
    OBVIOUS
  <2> HIDE DEF Bad
  <2>2. QED
    BY <2>1, Smallest
<1>2. U \in SUBSET T /\ IsFiniteSet(U)
  BY <1>1, FS_Subset
<1>3. U # {}
  <2>1. U = {} => SumFunctionOnSet(g, U) = 0 /\ Cardinality(U) = 0
    BY FS_EmptySet, SumUnfolds
  <2>2. QED
    BY <1>1, <2>1
<1>4. One(U) \in U /\ U \ {One(U)} \in SUBSET T /\ U \ {One(U)} # U
  BY <1>2, <1>3, OneOf
<1>5. SumFunctionOnSet(g, U \ {One(U)}) = Cardinality(U \ {One(U)})
  BY <1>1, <1>4
<1>6. SumFunctionOnSet(g, U) = 1 + SumFunctionOnSet(g, U \ {One(U)})
  BY <1>2, <1>3, <1>4, SumUnfolds
<1>7. Cardinality(U \ {One(U)}) = Cardinality(U) - 1 /\ Cardinality(U) \in Nat
  BY <1>2, <1>4, FS_RemoveElement, FS_CardinalityType
<1>8. QED
  BY <1>1, <1>5, <1>6, <1>7

-----------------------------------------------------------------------------
(* Nobody is held off who keeps to their plan.                             *)

\* What a decision counts for a device is no more than it was really used from,
\* as long ago as can be behind a decision (lookup).
LEMMA LookupCounted ==
  ASSUME HistoryInv, NEW s \in Servers, s \notin done, NEW seen \in Seen(s), NEW d \in Accounts(s)
  PROVE  /\ Lookup(s, seen, d).n \in Nat
         /\ Lookup(s, seen, d).n <= Cardinality(Recent(d, now, Stale(d)))
<1>1. /\ OnNode \subseteq Devices /\ d \in Devices /\ now \in Nat /\ Reach(d) \in Nat
      /\ GiveUp \in Nat /\ RemoteTTL \in Nat /\ Stale(d) = Reach(d) + GiveUp + RemoteTTL
      /\ \A h \in Hosts : used[d][h] \in Int
  BY Clocks, ConcurrencyAssumption DEF HistoryInv, Shape, Accounts, Servers, Stale, Reach
<1>2. IsFiniteSet(Recent(d, now, Stale(d))) /\ Cardinality(Recent(d, now, Stale(d))) \in Nat
  BY RecentFinite
<1>3. CASE s = Home[d]
  <2>1. SeenOK(d, seen[d])
    BY <1>1, SeenIsSo
  <2>2. /\ Connections(seen[d], Clock(s)) \in Nat
        /\ Connections(seen[d], Clock(s)) <= Cardinality(Recent(d, now, Reach(d)))
    BY <1>1, <1>3, <2>1, ConnectionsCounted
  <2>3. Recent(d, now, Reach(d)) \subseteq Recent(d, now, Stale(d))
    <3> SUFFICES ASSUME NEW h \in Hosts, now - used[d][h] < Reach(d)
                 PROVE  now - used[d][h] < Stale(d)
      BY DEF Recent
    <3>1. QED
      BY <1>1
  <2>4. Connections(seen[d], Clock(s)) <= Cardinality(Recent(d, now, Stale(d)))
    BY <1>2, <2>2, <2>3, RecentGrows
  <2>5. Lookup(s, seen, d).n = Connections(seen[d], Clock(s))
    BY <1>3 DEF Lookup, Own, Silent
  <2>6. QED
    BY <2>2, <2>4, <2>5
<1>4. CASE s # Home[d] /\ Clock(s) - report.at > RemoteTTL
  <2>1. Lookup(s, seen, d).n = 0
    BY <1>4 DEF Lookup, Silent
  <2>2. QED
    BY <1>2, <2>1
<1>5. CASE s # Home[d] /\ ~(Clock(s) - report.at > RemoteTTL)
  <2>1. s = "panel" /\ d \in OnNode
    BY <1>1, <1>5 DEF Accounts, Servers, Home
  <2>2. Lookup(s, seen, d) = report.of[d] /\ now - report.at <= RemoteTTL /\ report.at \in Int
    BY <1>1, <1>5, <2>1 DEF Lookup, Clock, HistoryInv, Shape
  <2>3. /\ report.of[d].n \in Nat
        /\ report.of[d].n <= Cardinality(Recent(d, report.at, Reach(d) + GiveUp))
    BY <2>1 DEF HistoryInv, Shape, ToldOK
  <2>4. Recent(d, report.at, Reach(d) + GiveUp) \subseteq Recent(d, now, Stale(d))
    <3> SUFFICES ASSUME NEW h \in Hosts, report.at - used[d][h] < Reach(d) + GiveUp
                 PROVE  now - used[d][h] < Stale(d)
      BY DEF Recent
    <3>1. QED
      BY <1>1, <2>2
  <2>5. report.of[d].n <= Cardinality(Recent(d, now, Stale(d)))
    BY <1>2, <2>3, <2>4, RecentGrows
  <2>6. QED
    BY <2>2, <2>3, <2>5
<1>6. QED
  BY <1>3, <1>4, <1>5

\* The hosts the customer's devices were used from, as far back as Stale.
Together == {p \in Devices \X Hosts : now - used[p[1]][p[2]] < Stale(p[1])}

\* A server that holds anything off has counted more than the plan allows, and there
\* was more (enforce).
LEMMA EnforcedOverLimit ==
  ASSUME HistoryInv, NEW s \in Servers, s \notin done, NEW seen \in Seen(s), Enforce(s, seen) # {}
  PROVE  Cardinality(Together) > Limit
<1> DEFINE known == [d \in Accounts(s) |-> Lookup(s, seen, d)]
           live  == {d \in Accounts(s) : known[d].n > 0 /\ ~InForce(s, d)}
           g     == [d \in live |-> known[d].n]
           R     == [d \in live |-> Recent(d, now, Stale(d))]
<1>1. ~(SumFunctionOnSet(g, live) <= Limit)
  BY DEF Enforce, SumFunction
<1>2. Accounts(s) \subseteq Devices /\ IsFiniteSet(Devices) /\ IsFiniteSet(Hosts) /\ Limit \in Nat
  BY ConcurrencyAssumption DEF Accounts
<1>3. live \subseteq Devices /\ IsFiniteSet(live)
  <2>1. live \subseteq Devices
    BY <1>2
  <2> HIDE DEF live
  <2>2. QED
    BY <1>2, <2>1, FS_Subset
<1>4. \A d \in live : g[d] \in Nat /\ R[d] \subseteq Hosts /\ g[d] <= Cardinality(R[d])
  BY LookupCounted DEF Recent
<1> DEFINE counted == {p \in live \X Hosts : p[2] \in R[p[1]]}
<1>5. counted \subseteq Together
  BY <1>3 DEF Together, Recent
<1>6. SumFunctionOnSet(g, live) \in Nat /\ SumFunctionOnSet(g, live) <= Cardinality(counted)
  <2>1. IsFiniteSet(live) /\ IsFiniteSet(Hosts)
    BY <1>2, <1>3
  <2> HIDE DEF live, g, R
  <2>2. \A d \in live : g[d] \in Nat /\ R[d] \subseteq Hosts /\ g[d] <= Cardinality(R[d])
    BY <1>4
  <2>3. QED
    BY <2>1, <2>2, SumIsCovered
<1>7. IsFiniteSet(Together)
  <2>1. IsFiniteSet(Devices \X Hosts) /\ Together \subseteq Devices \X Hosts
    BY <1>2, FS_Product DEF Together
  <2>2. QED
    BY <2>1, FS_Subset
<1> HIDE DEF counted, live, g
<1>8. /\ Cardinality(counted) \in Nat /\ Cardinality(Together) \in Nat
      /\ Cardinality(counted) <= Cardinality(Together)
  BY <1>5, <1>7, FS_Subset, FS_CardinalityType
<1>9. QED
  BY <1>1, <1>2, <1>6, <1>8

\* Only a tick of a server holds anything off that was not, and it says so for
\* those it decided on: a hold that is over ends, and the others stay.
LEMMA HoldsOnlyWhatItDecides ==
  ASSUME HistoryInv, [Next]_vars, NEW s \in Servers, NewHolds(s) # {}
  PROVE  s \notin done /\ \E seen \in Seen(s) : Enforce(s, seen) # {}
<1>1. s \in done' \ done /\ s \in {"panel", "node"}
  BY DEF NewHolds, Servers
<1>2. Tick(s)
  <2>1. CASE \E r \in Servers : Tick(r)
    <3>1. PICK r \in Servers : Tick(r)
      BY <2>1
    <3>2. done' = done \union {r}
      BY <3>1, TickDoes
    <3>3. QED
      BY <1>1, <3>1, <3>2
  <2>2. CASE Pass
    BY <1>1, <2>2 DEF Pass
  <2>3. CASE Push
    BY <1>1, <2>3 DEF Push
  <2>4. CASE \E d \in Devices, h \in Hosts : Switch(d, h)
    BY <1>1, <2>4 DEF Switch
  <2>5. CASE Sessions \/ SetRemote \/ AnswerLost \/ PushFails \/ PanelRestarts \/ NodeRestarts
    BY <1>1, <2>5 DEF Sessions, SetRemote, AnswerLost, PushFails, PanelRestarts, NodeRestarts
  <2>6. CASE \E c \in holdCalls : HoldArrives(c) \/ HoldLost(c)
    BY <1>1, <2>6 DEF HoldArrives, HoldLost
  <2>7. CASE \E l \in {"up", "down", "deaf"} : LinkChanges(l)
    BY <1>1, <2>7 DEF LinkChanges
  <2>8. CASE UNCHANGED vars
    BY <1>1, <2>8 DEF vars
  <2>9. QED
    BY <2>1, <2>2, <2>3, <2>4, <2>5, <2>6, <2>7, <2>8 DEF Next
<1>3. PICK seen \in Seen(s) :
        held' = [held EXCEPT ![s] = [d \in Devices |->
                   IF d \in Over(s, seen) THEN Never ELSE Until(s, seen)[d]]]
  BY <1>2, TickDoes
<1>4. PICK d \in Devices : held'[s][d] > held[s][d]
  BY DEF NewHolds
<1>5. held'[s][d] \in {Never, Until(s, seen)[d]} /\ held[s][d] \in Ends /\ Never \in Int
  BY <1>3, <1>4, Clocks DEF HistoryInv, Shape
<1>6. d \in Off(s, seen)
  <2>1. SUFFICES ASSUME d \notin Off(s, seen) PROVE FALSE
    OBVIOUS
  <2>2. Until(s, seen)[d] = held[s][d]
    BY <2>1 DEF Until
  <2>3. QED
    BY <1>4, <1>5, <2>2 DEF Ends
<1>7. QED
  BY <1>1, <1>3, <1>6 DEF Off

\* A customer who keeps to their plan is left alone: for any limit, windows, devices
\* and hosts, through answers that are late or lost, clocks that differ and servers
\* that restart, a server holds something off only when the customer's devices
\* carried more connections than the plan has (concurrency.go: enforce, lookup).
THEOREM NobodyWronged == Spec => OnlyOverLimit
<1>1. Init => HistoryInv
  BY HistoryInitial
<1>2. HistoryInv /\ [Next]_vars => HistoryInv'
  BY HistoryStep
<1>3. ASSUME HistoryInv, [Next]_vars
      PROVE  \A s \in Servers : NewHolds(s) # {} =>
                Cardinality({p \in Devices \X Hosts : now - used[p[1]][p[2]] < Stale(p[1])}) > Limit
  <2> SUFFICES ASSUME NEW s \in Servers, NewHolds(s) # {}
               PROVE  Cardinality(Together) > Limit
    BY DEF Together
  <2>1. QED
    BY <1>3, HoldsOnlyWhatItDecides, EnforcedOverLimit
<1>4. QED
  BY <1>1, <1>2, <1>3, PTL DEF Spec, OnlyOverLimit

-----------------------------------------------------------------------------
(* A device that is the only one, and was used from one place at a time and *)
(* moved at most once, counts as one connection wherever it is counted, and *)
(* one connection every plan has.                                          *)

Lone(d) == starts[d] <= 2 /\ \A e \in Devices \ {d} : starts[e] = 0
Due(d, e) == IF e = d THEN 1 ELSE 0

LoneInv ==
    \A d \in Devices : Lone(d) =>
        /\ served = Devices
        /\ \A s \in Servers, e \in Devices : held[s][e] = Never
        /\ holdCalls = {}
        /\ \A e \in OnNode : report.of[e].n <= Due(d, e)
        /\ answer.at # Never => \A e \in OnNode : answer.of[e].n <= Due(d, e)

\* A device is never started fewer times than it was.
LEMMA StartsGrow ==
  ASSUME Shape, Shape', [Next]_vars, NEW e \in Devices
  PROVE  starts[e] \in Nat /\ starts'[e] \in Nat /\ starts[e] <= starts'[e]
<1> SUFFICES starts[e] \in Nat /\ starts'[e] \in Nat => starts[e] <= starts'[e]
  BY DEF Shape
<1>1. CASE starts' = starts
  BY <1>1
<1>2. CASE \E c \in Devices, h \in Hosts : Switch(c, h)
  <2>1. PICK c \in Devices, h \in Hosts :
          starts' = [starts EXCEPT ![c] = IF h \in using[c] THEN @
                                          ELSE IF using[c] = {} THEN @ + 1 ELSE @ + 3]
    BY <1>2 DEF Switch
  <2>2. starts'[e] \in {starts[e], starts[e] + 1, starts[e] + 3}
    BY <2>1 DEF Shape
  <2>3. QED
    BY <2>2
<1>3. CASE Pass
  BY <1>1, <1>3 DEF Pass
<1>4. CASE \E s \in Servers : Tick(s)
  BY <1>1, <1>4 DEF Tick, userVars
<1>5. CASE Sessions \/ SetRemote \/ AnswerLost \/ Push \/ PushFails \/ PanelRestarts \/ NodeRestarts
  BY <1>1, <1>5 DEF Sessions, SetRemote, AnswerLost, Push, PushFails, PanelRestarts, NodeRestarts,
                    elseUnchanged, userVars
<1>6. CASE \E c \in holdCalls : HoldArrives(c) \/ HoldLost(c)
  BY <1>1, <1>6 DEF HoldArrives, HoldLost, elseUnchanged, userVars
<1>7. CASE \E l \in {"up", "down", "deaf"} : LinkChanges(l)
  BY <1>1, <1>7 DEF LinkChanges, userVars
<1>8. CASE UNCHANGED vars
  BY <1>1, <1>8 DEF vars
<1>9. QED
  BY <1>2, <1>3, <1>4, <1>5, <1>6, <1>7, <1>8 DEF Next

\* Nobody is lone who was not before.
LEMMA LoneBefore ==
  ASSUME Shape, Shape', [Next]_vars, NEW d \in Devices, Lone(d)'
  PROVE  Lone(d)
<1>1. \A e \in Devices : starts[e] \in Nat /\ starts'[e] \in Nat /\ starts[e] <= starts'[e]
  BY StartsGrow
<1>2. starts'[d] <= 2 /\ \A e \in Devices \ {d} : starts'[e] = 0
  BY DEF Lone
<1>3. starts[d] <= 2
  BY <1>1, <1>2
<1>4. ASSUME NEW e \in Devices \ {d} PROVE starts[e] = 0
  BY <1>1, <1>2
<1>5. QED
  BY <1>3, <1>4 DEF Lone

\* How many connections a server sees of each of the customer's devices, when one
\* of them is alone.
LEMMA LoneConnections ==
  ASSUME HistoryInv, NEW d \in Devices, Lone(d), NEW e \in Devices, NEW a, SeenOK(e, a)
  PROVE  /\ Connections(a, Clock(Home[e])) \in Nat
         /\ Connections(a, Clock(Home[e])) <= Due(d, e)
<1>1. /\ Connections(a, Clock(Home[e])) \in Nat /\ Never \in Int /\ Clock(Home[e]) - Never >= Window
      /\ NoHost \notin Hosts /\ starts[e] \in Nat
  BY ConnectionsCounted, Clocks, ConcurrencyAssumption DEF HistoryInv
<1>2. CASE e = d
  <2>1. a.flips <= 1 /\ a.flips \in 0..2
    BY <1>1, <1>2 DEF Lone, SeenOK, Act
  <2>2. Connections(a, Clock(Home[e])) \in {0, 1}
    BY <2>1 DEF Connections
  <2>3. QED
    BY <1>1, <1>2, <2>2 DEF Due
<1>3. CASE e # d
  <2>1. a.moved = Never
    BY <1>1, <1>3 DEF Lone, SeenOK
  <2>2. Connections(a, Clock(Home[e])) = 0
    BY <1>1, <2>1 DEF Connections
  <2>3. QED
    BY <1>1, <1>3, <2>2 DEF Due
<1>4. QED
  BY <1>2, <1>3

\* One connection is not too many for any plan.
LEMMA LoneLeftAlone ==
  ASSUME HistoryInv, LoneInv, NEW d \in Devices, Lone(d),
         NEW s \in Servers, s \notin done, NEW seen \in Seen(s)
  PROVE  Enforce(s, seen) = {}
<1> DEFINE known == [e \in Accounts(s) |-> Lookup(s, seen, e)]
           live  == {e \in Accounts(s) : known[e].n > 0 /\ ~InForce(s, e)}
           g     == [e \in live |-> known[e].n]
<1>1. Accounts(s) \subseteq Devices /\ Limit \in Nat /\ Limit >= 1
  BY ConcurrencyAssumption DEF Accounts
<1>2. ASSUME NEW e \in Accounts(s)
      PROVE  Lookup(s, seen, e).n \in Nat /\ Lookup(s, seen, e).n <= Due(d, e)
  <2>1. Lookup(s, seen, e).n \in Nat /\ e \in Devices
    BY <1>1, LookupCounted
  <2>2. CASE s = Home[e]
    <3>1. SeenOK(e, seen[e])
      BY <2>1, SeenIsSo
    <3>2. Connections(seen[e], Clock(s)) <= Due(d, e)
      BY <2>1, <2>2, <3>1, LoneConnections
    <3>3. Lookup(s, seen, e).n = Connections(seen[e], Clock(s))
      BY <2>2 DEF Lookup, Own, Silent
    <3>4. QED
      BY <2>1, <3>2, <3>3
  <2>3. CASE s # Home[e]
    <3>1. e \in OnNode
      BY <2>1, <2>3, ConcurrencyAssumption DEF Accounts, Servers, Home
    <3>2. report.of[e].n <= Due(d, e)
      BY <3>1 DEF LoneInv
    <3>3. Lookup(s, seen, e).n \in {0, report.of[e].n}
      BY <2>3 DEF Lookup, Silent
    <3>4. Due(d, e) \in {0, 1}
      BY DEF Due
    <3>5. QED
      BY <2>1, <3>2, <3>3, <3>4
  <2>4. QED
    BY <2>2, <2>3
<1>3. live \subseteq {d} /\ \A e \in live : g[e] \in {0, 1}
  <2> SUFFICES ASSUME NEW e \in live PROVE e = d /\ g[e] \in {0, 1}
    OBVIOUS
  <2>1. e \in Accounts(s) /\ g[e] = Lookup(s, seen, e).n /\ g[e] > 0
    OBVIOUS
  <2>2. g[e] \in Nat /\ g[e] <= Due(d, e)
    BY <1>2, <2>1
  <2> HIDE DEF g, live
  <2>3. QED
    BY <2>1, <2>2 DEF Due
<1>4. SumFunctionOnSet(g, live) <= Limit
  <2> HIDE DEF g, live
  <2>1. SumFunctionOnSet(g, {}) = 0
    BY SumUnfolds, FS_EmptySet
  <2>2. CASE live = {}
    BY <1>1, <2>1, <2>2
  <2>3. CASE live # {}
    <3>0. live = {d}
      BY <1>3, <2>3
    <3>1. IsFiniteSet(live) /\ live \ {d} = {}
      BY <3>0, FS_Singleton
    <3>2. One(live) = d
      BY <2>3, <3>0, OneOf
    <3>3. SumFunctionOnSet(g, live) = g[d] + SumFunctionOnSet(g, {})
      BY <2>3, <3>1, <3>2, SumUnfolds
    <3>4. g[d] \in {0, 1}
      BY <1>3, <3>0
    <3>5. QED
      BY <1>1, <2>1, <3>3, <3>4
  <2>4. QED
    BY <2>2, <2>3
<1>5. QED
  BY <1>4 DEF Enforce, SumFunction

LEMMA LoneInitial == Init => LoneInv
<1> SUFFICES ASSUME Init PROVE LoneInv
  OBVIOUS
<1>1. /\ served = Devices /\ holdCalls = {} /\ answer.at = Never
      /\ \A s \in Servers, e \in Devices : held[s][e] = Never
      /\ \A e \in OnNode : report.of[e].n = 0
  BY DEF Init, NoReport, Silent
<1>2. \A d, e \in Devices : Due(d, e) \in {0, 1}
  BY DEF Due
<1>3. OnNode \subseteq Devices
  BY ConcurrencyAssumption
<1>4. QED
  BY <1>1, <1>2, <1>3 DEF LoneInv

\* One step, for the device that is alone after it and was before.
LEMMA LoneStep ==
  ASSUME HistoryInv, HistoryInv', LoneInv, [Next]_vars
  PROVE  LoneInv'
<1> SUFFICES ASSUME NEW d \in Devices, Lone(d)'
             PROVE  /\ served' = Devices
                    /\ \A s \in Servers, e \in Devices : held'[s][e] = Never
                    /\ holdCalls' = {}
                    /\ \A e \in OnNode : report'.of[e].n <= Due(d, e)
                    /\ answer'.at # Never => \A e \in OnNode : answer'.of[e].n <= Due(d, e)
  BY DEF LoneInv, Never, Due
<1> DEFINE Served == served' = Devices
           NoHolds == \A s \in Servers, e \in Devices : held'[s][e] = Never
           NoCalls == holdCalls' = {}
           Report == \A e \in OnNode : report'.of[e].n <= Due(d, e)
           Answer == answer'.at # Never => \A e \in OnNode : answer'.of[e].n <= Due(d, e)
<1>1. Lone(d)
  BY LoneBefore DEF HistoryInv
<1>2. /\ served = Devices /\ holdCalls = {}
      /\ \A s \in Servers, e \in Devices : held[s][e] = Never
      /\ \A e \in OnNode : report.of[e].n <= Due(d, e)
      /\ answer.at # Never => \A e \in OnNode : answer.of[e].n <= Due(d, e)
  BY <1>1 DEF LoneInv
<1>3. /\ Shape /\ Never \in Int /\ OnNode \subseteq Devices
      /\ \A s \in Servers : Clock(s) \in Int /\ Clock(s) - Never >= Window
      /\ Window \in Nat /\ \A e \in OnNode : Due(d, e) \in {0, 1}
      /\ "node" \in Servers /\ "panel" \in Servers
  BY Clocks, ConcurrencyAssumption DEF HistoryInv, Due, Servers
<1>4. CASE UNCHANGED <<served, holdCalls, held, report, answer>>
  BY <1>2, <1>4
<1>5. ASSUME NEW s \in Servers, Tick(s)
      PROVE  Served /\ NoHolds /\ NoCalls /\ Report /\ Answer
  <2>1. /\ s \notin done /\ report' = report /\ answer' = answer
    BY <1>5, TickDoes
  <2>2. PICK seen \in Seen(s) :
          /\ held' = [held EXCEPT ![s] = [e \in Devices |->
                        IF e \in Over(s, seen) THEN Never ELSE Until(s, seen)[e]]]
          /\ served' = (served \ {e \in Devices : Home[e] = s}) \union LetIn(s, seen)
          /\ holdCalls' = holdCalls \union
                {[dev |-> e, until |-> Until(s, seen)[e], at |-> now] :
                    e \in Off(s, seen) \ {e \in Devices : Home[e] = s}}
    BY <1>5, TickDoes
  <2>3. Off(s, seen) = {}
    BY <1>1, <2>1, LoneLeftAlone DEF Off
  <2>4. \A e \in Devices : Until(s, seen)[e] = Never
    BY <1>2, <2>3 DEF Until
  <2>5. NoHolds
    BY <1>2, <1>3, <2>2, <2>4 DEF Shape
  <2>6. Served
    BY <1>2, <2>2, <2>4 DEF LetIn, Over
  <2>7. NoCalls
    BY <1>2, <2>2, <2>3
  <2>8. QED
    BY <1>2, <2>1, <2>5, <2>6, <2>7
<1>6. CASE Sessions
  <2>1. UNCHANGED <<served, holdCalls, held, report>>
    BY <1>6 DEF Sessions, serverVars
  <2>2. ASSUME NEW e \in OnNode PROVE answer'.of[e].n <= Due(d, e)
    <3>1. e \in Devices /\ Home[e] = "node" /\ SeenOK(e, acts[e])
      BY <1>3 DEF Home, HistoryInv
    <3>2. Connections(acts[e], Clock("node")) <= Due(d, e)
      BY <1>1, <3>1, LoneConnections
    <3>3. answer'.of[e].n = Own(acts, e, Clock("node")).n
      BY <1>6 DEF Sessions
    <3>4. Own(acts, e, Clock("node")).n = Connections(acts[e], Clock("node"))
      BY DEF Own, Silent
    <3>5. QED
      BY <3>2, <3>3, <3>4
  <2>3. QED
    BY <1>2, <2>1, <2>2
<1>7. CASE SetRemote
  <2>1. UNCHANGED <<served, holdCalls, held>> /\ answer'.at = Never /\ answer.at # Never
    BY <1>7 DEF SetRemote, serverVars
  <2>2. ASSUME NEW e \in OnNode PROVE report'.of[e].n <= Due(d, e)
    <3>1. report'.of[e].n \in {0, answer.of[e].n}
      BY <1>7 DEF SetRemote, Silent
    <3>2. answer.of[e].n <= Due(d, e)
      BY <1>2, <2>1
    <3>3. QED
      BY <1>3, <3>1, <3>2
  <2>3. QED
    BY <1>2, <2>1, <2>2
<1>8. CASE Push
  <2>1. UNCHANGED <<served, holdCalls, report, answer>>
    BY <1>8 DEF Push
  <2>2. \A e \in OnNode : ~InForce("panel", e)
    BY <1>2, <1>3 DEF InForce
  <2>3. held' = [held EXCEPT !["node"] = [e \in Devices |-> held["node"][e]]]
    BY <1>8, <2>2 DEF Push
  <2>4. NoHolds
    BY <1>2, <1>3, <2>3 DEF Shape
  <2>5. QED
    BY <1>2, <2>1, <2>4
<1>9. CASE PanelRestarts
  <2>1. /\ held' = [held EXCEPT !["panel"] = [e \in Devices |-> Never]] /\ report' = NoReport
        /\ answer'.at = Never /\ holdCalls' = {} /\ served' = served
    BY <1>9 DEF PanelRestarts
  <2>2. NoHolds
    BY <1>2, <1>3, <2>1 DEF Shape
  <2>3. Report
    BY <1>3, <2>1 DEF NoReport, Silent
  <2>4. QED
    BY <1>2, <2>1, <2>2, <2>3
<1>10. CASE NodeRestarts
  <2>1. /\ held' = [held EXCEPT !["node"] = [e \in Devices |-> Never]]
        /\ answer'.at = Never /\ UNCHANGED <<served, report, holdCalls>>
    BY <1>10 DEF NodeRestarts
  <2>2. NoHolds
    BY <1>2, <1>3, <2>1 DEF Shape
  <2>3. QED
    BY <1>2, <2>1, <2>2
<1>11. CASE AnswerLost
  <2>1. answer'.at = Never /\ UNCHANGED <<served, holdCalls, held, report>>
    BY <1>11 DEF AnswerLost, serverVars
  <2>2. QED
    BY <1>2, <2>1
<1>12. CASE Pass \/ PushFails
  BY <1>4, <1>12 DEF Pass, PushFails, serverVars, linkVars
<1>13. CASE \E e \in Devices, h \in Hosts : Switch(e, h)
  BY <1>4, <1>13 DEF Switch, serverVars, linkVars
<1>14. CASE \E l \in {"up", "down", "deaf"} : LinkChanges(l)
  BY <1>4, <1>14 DEF LinkChanges, serverVars
<1>15. CASE UNCHANGED vars
  BY <1>4, <1>15 DEF vars
<1>16. ~\E c \in holdCalls : HoldArrives(c) \/ HoldLost(c)
  BY <1>2
<1>17. QED
  BY <1>5, <1>6, <1>7, <1>8, <1>9, <1>10, <1>11, <1>12, <1>13, <1>14, <1>15, <1>16 DEF Next

\* A phone that walks from one network onto another is not a second person, under
\* any plan and whatever the windows are: the only device of a customer that was
\* used from one place at a time and moved once is let in, on the panel or the
\* node, whatever its server restarts or has not heard (concurrency.go: moved,
\* connections, enforce).
THEOREM AWalkIsFree == Spec => []AMoveIsFree
<1>1. Init => HistoryInv /\ LoneInv
  BY HistoryInitial, LoneInitial
<1>2. HistoryInv /\ LoneInv /\ [Next]_vars => (HistoryInv /\ LoneInv)'
  BY HistoryStep, LoneStep
<1>3. HistoryInv /\ LoneInv => AMoveIsFree
  BY DEF LoneInv, Lone, AMoveIsFree
<1>4. QED
  BY <1>1, <1>2, <1>3, PTL DEF Spec

-----------------------------------------------------------------------------
(* What is left of the customer's devices. A server that holds some off    *)
(* keeps as many as the plan allows; what one server holds is put on top   *)
(* of what the other does only where the holds cross.                      *)

Earlier(known, e, d) == \/ known[e].since < known[d].since
                        \/ known[e].since = known[d].since /\ e < d

\* Of more than k in an order, at least k have fewer than k before them.
LEMMA AsManyKept ==
  ASSUME NEW L, IsFiniteSet(L), NEW k \in Nat, Cardinality(L) > k,
         NEW before, \A d \in L : before[d] \subseteq L /\ d \notin before[d],
         \A d \in L : \A e \in before[d] : before[e] \subseteq before[d],
         NEW K \in SUBSET L, \A d \in L : d \in K <=> Cardinality(before[d]) < k
  PROVE  Cardinality(K) >= k
<1>1. PICK M : M = L \ K
  OBVIOUS
<1>2. IsFiniteSet(K) /\ Cardinality(K) \in Nat /\ IsFiniteSet(M) /\ K \subseteq L
  BY <1>1, FS_Subset, FS_CardinalityType
<1> SUFFICES ASSUME Cardinality(K) < k PROVE FALSE
  BY <1>2
<1>3. M # {}
  <2>1. M = {} => K = L
    BY <1>1, <1>2
  <2>2. QED
    BY <1>2, <2>1
<1> DEFINE Older(d) == before[d] \cap M
           Q == {Older(d) : d \in M}
<1>4. PICK d \in M : \A e \in M : Older(e) \subseteq Older(d) => Older(e) = Older(d)
  <2>0. \A d : Older(d) \in SUBSET M
    OBVIOUS
  <2>1. Q \in SUBSET SUBSET M /\ Q # {}
    <3> HIDE DEF Older
    <3>1. QED
      BY <1>3, <2>0
  <2>2. \E T \in Q : \A U \in Q : U \subseteq T => U = T
    <3> HIDE DEF Q
    <3>1. QED
      BY <1>2, <2>1, Smallest
  <2>3. PICK T \in Q : \A U \in Q : U \subseteq T => U = T
    <3> HIDE DEF Q
    <3>1. QED
      BY <2>2
  <2> HIDE DEF Older
  <2>4. \A e \in M : Older(e) \in Q
    OBVIOUS
  <2>5. PICK d \in M : T = Older(d)
    OBVIOUS
  <2> HIDE DEF Q
  <2>6. QED
    BY <2>3, <2>4, <2>5
<1>5. ASSUME NEW e \in Older(d) PROVE FALSE
  <2>1. e \in M /\ e \in before[d] /\ Older(e) \subseteq Older(d) /\ e \notin Older(e)
    BY <1>1, <1>4
  <2>2. QED
    BY <1>4, <2>1
<1>6. before[d] \subseteq K
  BY <1>1, <1>4, <1>5
<1>7. Cardinality(before[d]) \in Nat /\ Cardinality(before[d]) <= Cardinality(K)
  BY <1>2, <1>6, FS_Subset, FS_CardinalityType
<1>8. d \in K
  BY <1>1, <1>2, <1>4, <1>7
<1>9. QED
  BY <1>1, <1>4, <1>8

\* A server that holds off devices of one connection each keeps as many of the others
\* as the plan allows (enforce).
LEMMA EnforceKeeps ==
  ASSUME HistoryInv, NEW s \in Servers, s \notin done, NEW seen \in Seen(s),
         \A d \in Accounts(s) : Lookup(s, seen, d).n <= 1, Enforce(s, seen) # {}
  PROVE  \E K \in SUBSET Accounts(s) :
            /\ Cardinality(K) >= Limit
            /\ \A d \in K : ~InForce(s, d) /\ d \notin Enforce(s, seen)
<1> DEFINE known == [d \in Accounts(s) |-> Lookup(s, seen, d)]
           live  == {d \in Accounts(s) : known[d].n > 0 /\ ~InForce(s, d)}
           g     == [d \in live |-> known[d].n]
           before == [d \in live |-> {e \in live : Earlier(known, e, d)}]
           kept  == {d \in live : known[d].n = 1
                       /\ Cardinality({e \in live : known[e].n = 1 /\ Earlier(known, e, d)}) < Limit}
<1>1. Enforce(s, seen) = live \ kept /\ ~(SumFunctionOnSet(g, live) <= Limit)
  <2>1. kept = {d \in live : known[d].n = 1 /\ Cardinality({e \in live : known[e].n = 1 /\
                  (\/ known[e].since < known[d].since
                   \/ known[e].since = known[d].since /\ e < d)}) < Limit}
    BY DEF Earlier
  <2>2. QED
    BY <2>1 DEF Enforce, SumFunction
<1>2. /\ Accounts(s) \subseteq Devices /\ Accounts(s) \subseteq Nat /\ IsFiniteSet(Accounts(s))
      /\ Limit \in Nat
  <2>1. Accounts(s) \subseteq Devices /\ Accounts(s) \subseteq Nat
    BY ConcurrencyAssumption DEF Accounts
  <2>2. QED
    BY <2>1, ConcurrencyAssumption, FS_Subset
<1>3. ASSUME NEW d \in Accounts(s)
      PROVE  Lookup(s, seen, d).n \in Nat /\ Lookup(s, seen, d).n <= 1 /\ Lookup(s, seen, d).since \in Int
  <2>1. Lookup(s, seen, d).n \in Nat
    BY LookupCounted
  <2>2. Lookup(s, seen, d).since \in Int
    <3>1. Never \in Int /\ d \in Devices /\ seen[d].since \in Int
      BY <1>2, Clocks, SeenIsSo DEF HistoryInv, Act
    <3>2. s # Home[d] => d \in OnNode
      BY <3>1, ConcurrencyAssumption DEF Accounts, Servers, Home
    <3>3. s # Home[d] => report.of[d].since \in Int
      BY <3>2 DEF HistoryInv, Shape
    <3>4. QED
      BY <3>1, <3>3 DEF Lookup, Own, Silent
  <2>3. QED
    BY <2>1, <2>2
<1>4. IsFiniteSet(live) /\ live \subseteq Accounts(s) /\ Cardinality(live) \in Nat
  <2>1. live \subseteq Accounts(s)
    OBVIOUS
  <2> HIDE DEF live
  <2>2. QED
    BY <1>2, <2>1, FS_Subset, FS_CardinalityType
<1>5. \A d \in live : known[d].n = 1 /\ g[d] = 1 /\ known[d].since \in Int
  <2> SUFFICES ASSUME NEW d \in live PROVE known[d].n = 1 /\ g[d] = 1 /\ known[d].since \in Int
    OBVIOUS
  <2>1. d \in Accounts(s) /\ known[d] = Lookup(s, seen, d) /\ known[d].n > 0 /\ g[d] = known[d].n
    OBVIOUS
  <2> HIDE DEF known, live, g
  <2>2. QED
    BY <1>3, <2>1
<1> HIDE DEF known, g
<1>6. SumFunctionOnSet(g, live) \in Nat /\ SumFunctionOnSet(g, live) <= Cardinality(live)
  <2> HIDE DEF live
  <2>1. SumFunctionOnSet(g, live) = Cardinality(live)
    BY <1>4, <1>5, SumOfOnes
  <2>2. QED
    BY <1>4, <2>1
<1>7. Cardinality(live) > Limit
  BY <1>1, <1>2, <1>4, <1>6
<1>8. kept = {d \in live : Cardinality(before[d]) < Limit}
  <2>1. \A d \in live : {e \in live : known[e].n = 1 /\ Earlier(known, e, d)} = before[d]
    BY <1>5
  <2>2. QED
    BY <1>5, <2>1
<1>9. Cardinality(kept) >= Limit
  <2>1. \A d \in live : before[d] \subseteq live /\ d \notin before[d]
    <3> SUFFICES ASSUME NEW d \in live PROVE ~Earlier(known, d, d)
      OBVIOUS
    <3>1. known[d].since \in Int /\ d \in Nat
      BY <1>2, <1>4, <1>5
    <3>2. QED
      BY <3>1 DEF Earlier
  <2>2. \A d \in live : \A e \in before[d] : before[e] \subseteq before[d]
    <3> SUFFICES ASSUME NEW d \in live, NEW e \in live, Earlier(known, e, d),
                        NEW f \in live, Earlier(known, f, e)
                 PROVE  Earlier(known, f, d)
      OBVIOUS
    <3>1. /\ known[d].since \in Int /\ known[e].since \in Int /\ known[f].since \in Int
          /\ d \in Nat /\ e \in Nat /\ f \in Nat
      BY <1>2, <1>4, <1>5
    <3>2. QED
      BY <3>1 DEF Earlier
  <2>3. IsFiniteSet(live) /\ Limit \in Nat /\ Cardinality(live) > Limit
    BY <1>2, <1>4, <1>7
  <2>4. kept \in SUBSET live /\ \A d \in live : d \in kept <=> Cardinality(before[d]) < Limit
    <3> HIDE DEF live, before
    <3>1. QED
      BY <1>8
  <2> HIDE DEF live, kept, before
  <2>5. QED
    BY <2>1, <2>2, <2>3, <2>4, AsManyKept
<1>10. kept \in SUBSET Accounts(s) /\ \A d \in kept : ~InForce(s, d) /\ d \notin live \ kept
  OBVIOUS
<1> HIDE DEF live, kept
<1>11. QED
  BY <1>1, <1>9, <1>10

\* The devices a server has accounts of that it does not hold off; and as many as
\* the plan allows, or all there are.
Free(s) == {d \in Accounts(s) : ~InForce(s, d)}
Enough(S) == Cardinality(S) >= Min({Limit, Cardinality(Devices)})

\* While no device was used from two places: each counts once; the panel's holds
\* leave enough; a hold on its way is no longer than the panel's own; and while the
\* node holds any off by itself, what it lets in is enough, until the holds cross.
StaysInv ==
    (\A d \in Devices : starts[d] <= 2) =>
        /\ \A d \in OnNode : report.of[d].n <= 1 /\ (answer.at # Never => answer.of[d].n <= 1)
        /\ Enough(Free("panel"))
        /\ \A c \in holdCalls : c.until <= held["panel"][c.dev]
        /\ "panel" \notin excused /\ ~crossed /\ OwnHolds # {} => Enough(Free("node"))

LEMMA EnoughGrows ==
  ASSUME NEW S, NEW T, S \subseteq T, T \subseteq Devices, Enough(S)
  PROVE  Enough(T)
<1>1. IsFiniteSet(T) /\ IsFiniteSet(Devices)
  BY ConcurrencyAssumption, FS_Subset
<1>2. /\ Cardinality(S) \in Nat /\ Cardinality(T) \in Nat /\ Cardinality(Devices) \in Nat
      /\ Cardinality(S) <= Cardinality(T)
  BY <1>1, FS_Subset, FS_CardinalityType
<1>3. PICK m : m = Min({Limit, Cardinality(Devices)})
  OBVIOUS
<1>4. Limit \in Nat
  BY ConcurrencyAssumption
<1>5. m \in Nat
  BY <1>2, <1>3, <1>4 DEF Min
<1>6. QED
  BY <1>2, <1>3, <1>5 DEF Enough

\* As many as the plan allows are enough, and so are all.
LEMMA EnoughIs ==
  ASSUME NEW S, S \subseteq Devices, Cardinality(S) >= Limit \/ S = Devices
  PROVE  Enough(S)
<1>1. Cardinality(S) \in Nat /\ Cardinality(Devices) \in Nat /\ Limit \in Nat
  BY ConcurrencyAssumption, FS_Subset, FS_CardinalityType
<1>2. Min({Limit, Cardinality(Devices)}) <= Limit /\ Min({Limit, Cardinality(Devices)}) <= Cardinality(Devices)
  BY <1>1 DEF Min
<1>3. Min({Limit, Cardinality(Devices)}) \in Nat
  BY <1>1 DEF Min
<1>4. QED
  BY <1>1, <1>2, <1>3 DEF Enough

\* A server that holds off nothing it did not hold off leaves enough if it did.
LEMMA FreeStays ==
  ASSUME NEW s \in Servers, Enough(Free(s)), \A d \in Accounts(s) : InForce(s, d)' => InForce(s, d)
  PROVE  Enough(Free(s)')
<1>1. Free(s) \subseteq Free(s)' /\ Free(s)' \subseteq Devices
  BY ConcurrencyAssumption DEF Free, Accounts
<1>2. PICK T : T = Free(s)'
  OBVIOUS
<1>3. Enough(T)
  BY <1>1, <1>2, EnoughGrows
<1>4. QED
  BY <1>2, <1>3

LEMMA StaysInitial == Init => StaysInv
<1> SUFFICES ASSUME Init PROVE StaysInv
  OBVIOUS
<1>1. Shape
  BY HistoryInitial DEF HistoryInv
<1>2. /\ Never \in Int /\ \A s \in Servers : Clock(s) \in Int /\ Clock(s) - Never >= Window
      /\ Window \in Nat /\ OnNode \subseteq Devices /\ "panel" \in Servers /\ "node" \in Servers
  BY <1>1, Clocks, ConcurrencyAssumption DEF Servers
<1>3. \A s \in Servers, d \in Devices : ~InForce(s, d)
  BY <1>2 DEF Init, InForce
<1>4. Free("panel") = Devices
  BY <1>2, <1>3 DEF Free, Accounts
<1>5. Enough(Free("panel"))
  BY <1>4, EnoughIs
<1>6. OwnHolds = {} /\ holdCalls = {} /\ answer.at = Never /\ \A d \in OnNode : report.of[d].n = 0
  BY <1>2, <1>3 DEF Init, OwnHolds, NoReport, Silent
<1>7. QED
  BY <1>5, <1>6 DEF StaysInv

\* A device that was used from one place at a time is one connection, wherever it
\* is counted.
LEMMA OneEach ==
  ASSUME HistoryInv, NEW d \in Devices, starts[d] <= 2, NEW a, SeenOK(d, a), NEW t
  PROVE  Connections(a, t) \in {0, 1}
<1>1. a.flips <= 1 /\ a.flips \in 0..2
  BY DEF SeenOK, Act
<1>2. QED
  BY <1>1 DEF Connections

\* So it is to the server that decides, and the decision leaves enough.
LEMMA DecisionLeavesEnough ==
  ASSUME HistoryInv, StaysInv, \A d \in Devices : starts[d] <= 2,
         NEW s \in Servers, s \notin done, NEW seen \in Seen(s), Off(s, seen) # {}
  PROVE  Enough({d \in Accounts(s) : ~InForce(s, d) /\ d \notin Off(s, seen)})
<1>1. Off(s, seen) = Enforce(s, seen) /\ Accounts(s) \subseteq Devices
  BY ConcurrencyAssumption DEF Off, Accounts
<1>2. ASSUME NEW d \in Accounts(s) PROVE Lookup(s, seen, d).n <= 1
  <2>1. CASE s = Home[d]
    <3>1. SeenOK(d, seen[d]) /\ d \in Devices
      BY <1>1, SeenIsSo
    <3>2. Connections(seen[d], Clock(s)) \in {0, 1}
      BY <3>1, OneEach
    <3>3. QED
      BY <2>1, <3>2 DEF Lookup, Own, Silent
  <2>2. CASE s # Home[d]
    <3>1. d \in OnNode
      BY <1>1, <2>2, ConcurrencyAssumption DEF Accounts, Servers, Home
    <3>2. report.of[d].n <= 1
      BY <3>1 DEF StaysInv
    <3>3. QED
      BY <2>2, <3>2 DEF Lookup, Silent
  <2>3. QED
    BY <2>1, <2>2
<1>3. PICK K \in SUBSET Accounts(s) :
        /\ Cardinality(K) >= Limit
        /\ \A d \in K : ~InForce(s, d) /\ d \notin Enforce(s, seen)
  BY <1>1, <1>2, EnforceKeeps
<1>4. Enough(K)
  BY <1>1, <1>3, EnoughIs
<1>5. PICK T : T = {d \in Accounts(s) : ~InForce(s, d) /\ d \notin Off(s, seen)}
  OBVIOUS
<1>6. K \subseteq T /\ T \subseteq Devices
  BY <1>1, <1>3, <1>5
<1>7. QED
  BY <1>4, <1>5, <1>6, EnoughGrows

\* What the invariant says, after a step.
EachOne == \A d \in OnNode : report.of[d].n <= 1 /\ (answer.at # Never => answer.of[d].n <= 1)
Calls == \A c \in holdCalls : c.until <= held["panel"][c.dev]
NodeLeaves == "panel" \notin excused /\ ~crossed /\ OwnHolds # {} => Enough(Free("node"))

\* The steps that hold nothing off: time passes, holds are lost, things are said.
LEMMA StaysWhileHeldStays ==
  ASSUME Shape, Shape', Enough(Free("panel")), Calls, NodeLeaves,
         held' = held, now <= now', holdCalls' \subseteq holdCalls,
         "panel" \in excused => "panel" \in excused', crossed => crossed'
  PROVE  Enough(Free("panel")') /\ Calls' /\ NodeLeaves'
<1>1. /\ now \in Nat /\ now' \in Nat /\ Ahead \in Int /\ "panel" \in Servers /\ "node" \in Servers
      /\ OnNode \subseteq Devices
  BY ConcurrencyAssumption DEF Shape, Servers
<1>2. \A s \in Servers, d \in Devices : InForce(s, d)' => InForce(s, d)
  <2> SUFFICES ASSUME NEW s \in Servers, NEW d \in Devices, Clock(s)' < held'[s][d]
               PROVE  Clock(s) < held[s][d]
    BY DEF InForce
  <2>1. held[s][d] \in Int /\ Clock(s) \in Int /\ Clock(s)' \in Int /\ Clock(s) <= Clock(s)'
    <3>1. held[s][d] \in Int
      BY DEF Shape, Ends
    <3>2. \/ Clock(s) = now + Ahead /\ Clock(s)' = now' + Ahead
          \/ Clock(s) = now /\ Clock(s)' = now'
      BY DEF Clock
    <3>3. QED
      BY <1>1, <3>1, <3>2
  <2>2. held'[s][d] = held[s][d]
    OBVIOUS
  <2>3. QED
    BY <2>1, <2>2
<1>3. Enough(Free("panel")')
  <2>1. \A d \in Accounts("panel") : InForce("panel", d)' => InForce("panel", d)
    BY <1>1, <1>2 DEF Accounts
  <2>2. QED
    BY <1>1, <2>1, FreeStays
<1>4. Calls'
  BY DEF Calls
<1>5. NodeLeaves'
  <2>1. SUFFICES ASSUME "panel" \notin excused', ~crossed', OwnHolds' # {}
                 PROVE  Enough(Free("node")')
    BY DEF NodeLeaves, Enough
  <2>2. OwnHolds # {}
    BY <1>1, <1>2, <2>1 DEF OwnHolds
  <2>3. Enough(Free("node"))
    BY <2>1, <2>2 DEF NodeLeaves
  <2>4. \A d \in Accounts("node") : InForce("node", d)' => InForce("node", d)
    BY <1>1, <1>2 DEF Accounts
  <2>5. QED
    BY <1>1, <2>3, <2>4, FreeStays
<1>6. QED
  BY <1>3, <1>4, <1>5

LEMMA StaysWhileTick ==
  ASSUME HistoryInv, HistoryInv', StaysInv, \A d \in Devices : starts[d] <= 2, NEW s \in Servers,
     Tick(s)
  PROVE  EachOne' /\ Enough(Free("panel")') /\ Calls' /\ NodeLeaves'
<1>1. /\ Shape /\ Shape' /\ EachOne /\ Enough(Free("panel")) /\ Calls /\ NodeLeaves
  BY DEF HistoryInv, StaysInv, EachOne, Calls, NodeLeaves
<1>2. /\ s \notin done /\ now' = now /\ report' = report /\ answer' = answer
      /\ excused' = excused /\ crossed' = crossed
  BY TickDoes DEF Tick
<1>3. PICK seen \in Seen(s) :
        /\ held' = [held EXCEPT ![s] = [d \in Devices |->
                      IF d \in Over(s, seen) THEN Never ELSE Until(s, seen)[d]]]
        /\ holdCalls' = holdCalls \union
              {[dev |-> d, until |-> Until(s, seen)[d], at |-> now] :
                  d \in Off(s, seen) \ {e \in Devices : Home[e] = s}}
  BY TickDoes
<1>4. /\ Never \in Int /\ \A r \in Servers : Clock(r) \in Int /\ Clock(r) - Never >= Window
      /\ Window \in Nat /\ HoldFor \in Nat /\ HoldFor > 0 /\ OnNode \subseteq Devices
      /\ "panel" \in Servers /\ "node" \in Servers
      /\ \A d \in Devices : Home[d] = IF d \in OnNode THEN "node" ELSE "panel"
      /\ \A r \in Servers, d \in Devices : held[r][d] \in Int /\ held'[r][d] \in Int
  BY <1>1, Clocks, ConcurrencyAssumption DEF Servers, Home, Shape, Ends
<1>5. /\ \A d \in Devices : held'[s][d] = IF d \in Over(s, seen) THEN Never ELSE Until(s, seen)[d]
      /\ \A r \in Servers \ {s} : held'[r] = held[r]
      /\ \A r \in Servers, d \in Devices : InForce(r, d)' <=> Clock(r) < held'[r][d]
  BY <1>1, <1>2, <1>3 DEF Shape, InForce, Clock
<1>6. Off(s, seen) \subseteq Accounts(s) /\ Accounts(s) \subseteq Devices
      /\ \A d \in Off(s, seen) : ~InForce(s, d)
  BY <1>4 DEF Off, Enforce, Accounts
<1>7. EachOne'
  BY <1>1, <1>2 DEF EachOne, Never
\* What the server left free stays free; what it holds off now was free before.
<1>8. ASSUME NEW d \in Devices, d \notin Off(s, seen), InForce(s, d)' PROVE InForce(s, d)
  <2>1. Until(s, seen)[d] = held[s][d]
    BY <1>8 DEF Until
  <2>2. held'[s][d] = held[s][d] \/ held'[s][d] = Never
    BY <1>5, <2>1
  <2>3. Clock(s) < held'[s][d] /\ Clock(s) \in Int /\ Clock(s) >= Never
    BY <1>4, <1>5, <1>8
  <2>4. QED
    BY <1>4, <2>2, <2>3 DEF InForce
<1>9. ASSUME NEW r \in Servers, r # s, NEW d \in Devices PROVE InForce(r, d)' <=> InForce(r, d)
  BY <1>5, <1>9 DEF InForce
<1>10. Off(s, seen) # {} => Enough(Free(s)')
  <2>1. SUFFICES ASSUME Off(s, seen) # {} PROVE Enough(Free(s)')
    OBVIOUS
  <2>2. PICK S : S = {d \in Accounts(s) : ~InForce(s, d) /\ d \notin Off(s, seen)}
    OBVIOUS
  <2>3. Enough(S)
    BY <1>2, <2>1, <2>2, DecisionLeavesEnough
  <2>4. PICK T : T = Free(s)'
    OBVIOUS
  <2>5. S \subseteq T /\ T \subseteq Devices
    BY <1>6, <1>8, <2>2, <2>4 DEF Free, Accounts
  <2>6. Enough(T)
    BY <2>3, <2>5, EnoughGrows
  <2>7. QED
    BY <2>4, <2>6
<1>11. Off(s, seen) = {} /\ Enough(Free(s)) => Enough(Free(s)')
  <2>1. SUFFICES ASSUME Off(s, seen) = {}, Enough(Free(s)) PROVE Enough(Free(s)')
    OBVIOUS
  <2>2. \A d \in Accounts(s) : InForce(s, d)' => InForce(s, d)
    BY <1>6, <1>8, <2>1
  <2>3. QED
    BY <2>1, <2>2, FreeStays
<1>12. ASSUME NEW r \in Servers, r # s, Enough(Free(r)) PROVE Enough(Free(r)')
  <2>1. \A d \in Accounts(r) : InForce(r, d)' => InForce(r, d)
    BY <1>4, <1>9, <1>12 DEF Accounts
  <2>2. QED
    BY <1>12, <2>1, FreeStays
<1>13. Enough(Free("panel")')
  BY <1>1, <1>4, <1>10, <1>11, <1>12
\* The panel's holds of the node's devices only grow.
<1>14. \A d \in OnNode : held["panel"][d] <= held'["panel"][d]
  <2> SUFFICES ASSUME NEW d \in OnNode PROVE held["panel"][d] <= held'["panel"][d]
    OBVIOUS
  <2>1. CASE s # "panel"
    BY <1>4, <1>5, <2>1
  <2>2. CASE s = "panel"
    <3>1. d \in Devices /\ d \notin Over(s, seen)
      BY <1>4, <2>2 DEF Over
    <3>2. held'[s][d] = Until(s, seen)[d]
      BY <1>5, <3>1
    <3>3. CASE d \notin Off(s, seen)
      BY <1>4, <2>2, <3>1, <3>2, <3>3 DEF Until
    <3>4. CASE d \in Off(s, seen)
      <4>1. held'[s][d] = Clock(s) + HoldFor
        BY <3>1, <3>2, <3>4 DEF Until
      <4>2. ~(Clock(s) < held[s][d])
        BY <1>6, <3>4 DEF InForce
      <4>3. QED
        BY <1>4, <2>2, <3>1, <4>1, <4>2
    <3>5. QED
      BY <3>3, <3>4
  <2>3. QED
    BY <2>1, <2>2
<1>15. Calls'
  <2> SUFFICES ASSUME NEW c \in holdCalls' PROVE c.until <= held'["panel"][c.dev]
    BY DEF Calls
  <2>1. CASE c \in holdCalls
    <3>1. c.until <= held["panel"][c.dev] /\ c.dev \in OnNode /\ c.until \in Int
      BY <1>1, <2>1 DEF Calls, Shape, Ends
    <3>2. QED
      BY <1>4, <1>14, <3>1
  <2>2. CASE c \notin holdCalls
    <3>1. PICK d \in Off(s, seen) \ {e \in Devices : Home[e] = s} :
            c = [dev |-> d, until |-> Until(s, seen)[d], at |-> now]
      BY <1>3, <2>2
    <3>2. d \in Devices /\ d \in Accounts(s) /\ Home[d] # s /\ d \notin Over(s, seen)
      BY <1>6, <3>1 DEF Over
    <3>3. s = "panel"
      BY <1>4, <3>2 DEF Accounts, Servers
    <3>4. held'["panel"][d] = Until(s, seen)[d]
      BY <1>5, <3>2, <3>3
    <3>5. c.until = Until(s, seen)[d] /\ c.dev = d
      BY <3>1
    <3>6. QED
      BY <1>4, <3>2, <3>3, <3>4, <3>5
  <2>3. QED
    BY <2>1, <2>2
<1>16. NodeLeaves'
  <2>1. SUFFICES ASSUME "panel" \notin excused', ~crossed', OwnHolds' # {}
                 PROVE  Enough(Free("node")')
    BY DEF NodeLeaves, Enough
  <2>2. CASE s = "node" /\ Off(s, seen) # {}
    BY <1>10, <2>2
  <2>3. CASE s # "node" \/ Off(s, seen) = {}
    <3>1. PICK d \in OnNode : InForce("node", d)' /\ held'["node"][d] > held'["panel"][d]
      BY <2>1 DEF OwnHolds
    <3>2. InForce("node", d)
      BY <1>4, <1>8, <1>9, <2>3, <3>1
    <3>3. held'["node"][d] = held["node"][d]
      <4>1. CASE s # "node"
        BY <1>4, <1>5, <4>1
      <4>2. CASE s = "node" /\ Off(s, seen) = {}
        <5>1. d \in Devices /\ Until(s, seen)[d] = held["node"][d]
          BY <1>4, <4>2 DEF Until
        <5>2. d \notin Over(s, seen)
          <6>1. Clock(s) < held[s][d] /\ Clock(s) \in Int /\ held[s][d] \in Int
            BY <1>4, <3>2, <4>2, <5>1 DEF InForce
          <6>2. QED
            BY <4>2, <5>1, <6>1 DEF Over
        <5>3. QED
          BY <1>5, <4>2, <5>1, <5>2
      <4>3. QED
        BY <2>3, <4>1, <4>2
    <3>4. held["node"][d] > held["panel"][d]
      BY <1>4, <1>14, <3>1, <3>3
    <3>5. OwnHolds # {}
      BY <3>2, <3>4 DEF OwnHolds
    <3>6. Enough(Free("node"))
      BY <1>1, <1>2, <2>1, <3>5 DEF NodeLeaves
    <3>7. QED
      BY <1>4, <1>11, <1>12, <2>3, <3>6
  <2>4. QED
    BY <2>2, <2>3
<1>17. QED
  BY <1>7, <1>13, <1>15, <1>16

\* A hold that reaches the node: it makes no hold of the panel's the node's own; and
\* it takes nothing off that was let in, unless the two cross.
LEMMA StaysWhileHoldArrives ==
  ASSUME Shape, Shape', Enough(Free("panel")), Calls, NodeLeaves, NEW c \in holdCalls,
     HoldArrives(c)
  PROVE  Enough(Free("panel")') /\ Calls' /\ NodeLeaves'
<1>1. /\ now' = now /\ excused' = excused /\ holdCalls' = holdCalls \ {c}
      /\ held' = [held EXCEPT !["node"][c.dev] = Longer(@, c.until)]
      /\ crossed' = (crossed \/ Crosses({d \in {c.dev} : Clock("node") < c.until}))
  BY DEF HoldArrives, elseUnchanged
<1>2. /\ "panel" \in Servers /\ "node" \in Servers /\ OnNode \subseteq Devices
      /\ \A r \in Servers : Clock(r) \in Int
      /\ c.dev \in OnNode /\ c.until \in Int /\ c.until <= held["panel"][c.dev]
      /\ \A r \in Servers, d \in Devices : held[r][d] \in Int
  BY Clocks, ConcurrencyAssumption DEF Servers, Shape, Calls, Ends
<1>3. /\ held'["panel"] = held["panel"]
      /\ \A d \in Devices : held'["node"][d] = IF d = c.dev THEN Longer(held["node"][d], c.until)
                                              ELSE held["node"][d]
      /\ \A r \in Servers, d \in Devices : InForce(r, d)' <=> Clock(r) < held'[r][d]
  BY <1>1, <1>2 DEF Shape, InForce, Clock
<1>4. Enough(Free("panel")')
  <2>1. \A d \in Accounts("panel") : InForce("panel", d)' => InForce("panel", d)
    BY <1>2, <1>3 DEF InForce, Accounts
  <2>2. QED
    BY <1>2, <2>1, FreeStays
<1>5. Calls'
  BY <1>1, <1>3 DEF Calls
<1>6. NodeLeaves'
  <2>1. SUFFICES ASSUME "panel" \notin excused', ~crossed', OwnHolds' # {}
                 PROVE  Enough(Free("node")')
    BY DEF NodeLeaves, Enough
  <2>2. PICK d \in OnNode : InForce("node", d)' /\ held'["node"][d] > held'["panel"][d]
    BY <2>1 DEF OwnHolds
  <2>3. held'["node"][d] = held["node"][d]
    BY <1>2, <1>3, <2>2 DEF Longer
  <2>4. d \in OwnHolds
    BY <1>2, <1>3, <2>2, <2>3 DEF OwnHolds, InForce
  <2>5. Enough(Free("node")) /\ ~Crosses({e \in {c.dev} : Clock("node") < c.until})
    BY <1>1, <2>1, <2>4 DEF NodeLeaves
  <2>6. ~(Clock("node") < c.until) \/ InForce("node", c.dev)
    BY <2>4, <2>5 DEF Crosses
  <2>7. \A e \in Accounts("node") : InForce("node", e)' => InForce("node", e)
    <3> SUFFICES ASSUME NEW e \in OnNode, InForce("node", e)' PROVE InForce("node", e)
      BY DEF Accounts
    <3>1. CASE e # c.dev
      BY <1>2, <1>3, <3>1 DEF InForce
    <3>2. CASE e = c.dev /\ ~(Clock("node") < c.until)
      BY <1>2, <1>3, <3>2 DEF InForce, Longer
    <3>3. QED
      BY <2>6, <3>1, <3>2
  <2>8. QED
    BY <1>2, <2>5, <2>7, FreeStays
<1>7. QED
  BY <1>4, <1>5, <1>6

LEMMA StaysWhilePush ==
  ASSUME Shape, Shape', Enough(Free("panel")), Calls, NodeLeaves, Push
  PROVE  Enough(Free("panel")') /\ Calls' /\ NodeLeaves'
<1> DEFINE due == {d \in OnNode : InForce("panel", d) /\ Clock("node") < held["panel"][d]}
<1>1. /\ now' = now /\ excused' = excused /\ holdCalls' = holdCalls
      /\ held' = [held EXCEPT !["node"] = [d \in Devices |->
                     IF d \in due THEN Longer(held["node"][d], held["panel"][d]) ELSE held["node"][d]]]
      /\ crossed' = (crossed \/ Crosses(due))
  BY DEF Push, elseUnchanged
<1>2. /\ "panel" \in Servers /\ "node" \in Servers /\ OnNode \subseteq Devices
      /\ \A r \in Servers : Clock(r) \in Int
      /\ \A r \in Servers, d \in Devices : held[r][d] \in Int
  BY Clocks, ConcurrencyAssumption DEF Servers, Shape, Ends
<1>3. /\ held'["panel"] = held["panel"]
      /\ \A d \in Devices : held'["node"][d] = IF d \in due THEN Longer(held["node"][d], held["panel"][d])
                                              ELSE held["node"][d]
      /\ \A r \in Servers, d \in Devices : InForce(r, d)' <=> Clock(r) < held'[r][d]
  BY <1>1, <1>2 DEF Shape, InForce, Clock
<1> HIDE DEF due
<1>4. Enough(Free("panel")')
  <2>1. \A d \in Accounts("panel") : InForce("panel", d)' => InForce("panel", d)
    BY <1>2, <1>3 DEF InForce, Accounts
  <2>2. QED
    BY <1>2, <2>1, FreeStays
<1>5. Calls'
  BY <1>1, <1>3 DEF Calls
<1>6. NodeLeaves'
  <2>1. SUFFICES ASSUME "panel" \notin excused', ~crossed', OwnHolds' # {}
                 PROVE  Enough(Free("node")')
    BY DEF NodeLeaves, Enough
  <2>2. PICK d \in OnNode : InForce("node", d)' /\ held'["node"][d] > held'["panel"][d]
    BY <2>1 DEF OwnHolds
  <2>3. held'["node"][d] = held["node"][d]
    BY <1>2, <1>3, <2>2 DEF Longer
  <2>4. d \in OwnHolds
    BY <1>2, <1>3, <2>2, <2>3 DEF OwnHolds, InForce
  <2>5. Enough(Free("node")) /\ ~Crosses(due)
    BY <1>1, <2>1, <2>4 DEF NodeLeaves
  <2>6. \A e \in due : InForce("node", e)
    BY <2>4, <2>5 DEF Crosses
  <2>7. \A e \in Accounts("node") : InForce("node", e)' => InForce("node", e)
    BY <1>2, <1>3, <2>6 DEF InForce, Accounts
  <2>8. QED
    BY <1>2, <2>5, <2>7, FreeStays
<1>7. QED
  BY <1>4, <1>5, <1>6

\* A server that starts again holds nothing off.
LEMMA StaysWhileRestart ==
  ASSUME Shape, Shape', Enough(Free("panel")), Calls, NodeLeaves, PanelRestarts \/ NodeRestarts
  PROVE  Enough(Free("panel")') /\ Calls' /\ NodeLeaves'
<1>1. /\ "panel" \in Servers /\ "node" \in Servers /\ OnNode \subseteq Devices
      /\ \A r \in Servers : Clock(r) \in Int /\ Clock(r)' = Clock(r) /\ Clock(r) - Never >= Window
      /\ Never \in Int /\ Window \in Nat /\ now' = now
  BY Clocks, ConcurrencyAssumption DEF Servers, PanelRestarts, NodeRestarts, elseUnchanged, Clock
<1>2. CASE PanelRestarts
  <2>1. held'["panel"] = [d \in Devices |-> Never] /\ holdCalls' = {} /\ excused' = excused \union {"panel"}
    BY <1>1, <1>2 DEF PanelRestarts, Shape
  <2>2. \A d \in Accounts("panel") : InForce("panel", d)' => InForce("panel", d)
    BY <1>1, <2>1 DEF InForce, Accounts
  <2>3. Enough(Free("panel")')
    BY <1>1, <2>2, FreeStays
  <2>4. QED
    BY <2>1, <2>3 DEF Calls, NodeLeaves
<1>3. CASE NodeRestarts
  <2>1. /\ held'["node"] = [d \in Devices |-> Never] /\ held'["panel"] = held["panel"]
        /\ holdCalls' = holdCalls
    BY <1>1, <1>3 DEF NodeRestarts, Shape
  <2>2. \A d \in Accounts("panel") : InForce("panel", d)' => InForce("panel", d)
    BY <1>1, <2>1 DEF InForce
  <2>3. Enough(Free("panel")')
    BY <1>1, <2>2, FreeStays
  <2>4. Calls'
    BY <2>1 DEF Calls
  <2>5. \A d \in OnNode : ~InForce("node", d)'
    BY <1>1, <2>1 DEF InForce
  <2>6. NodeLeaves'
    BY <2>5 DEF NodeLeaves, OwnHolds
  <2>7. QED
    BY <2>3, <2>4, <2>6
<1>4. QED
  BY <1>2, <1>3

LEMMA StaysStep ==
  ASSUME HistoryInv, HistoryInv', StaysInv, [Next]_vars
  PROVE  StaysInv'
<1>1. SUFFICES ASSUME \A d \in Devices : starts'[d] <= 2
               PROVE  EachOne' /\ Enough(Free("panel")') /\ Calls' /\ NodeLeaves'
  BY DEF StaysInv, EachOne, Calls, NodeLeaves, Enough
<1>2. \A d \in Devices : starts[d] <= 2
  <2> SUFFICES ASSUME NEW d \in Devices PROVE starts[d] <= 2
    OBVIOUS
  <2>1. starts[d] \in Nat /\ starts'[d] \in Nat /\ starts[d] <= starts'[d]
    BY StartsGrow DEF HistoryInv
  <2>2. QED
    BY <1>1, <2>1
<1>3. Shape /\ Shape' /\ EachOne /\ Enough(Free("panel")) /\ Calls /\ NodeLeaves
  BY <1>2 DEF HistoryInv, StaysInv, EachOne, Calls, NodeLeaves
<1>4. now \in Nat /\ now <= now + 1 /\ now <= now /\ OnNode \subseteq Devices
  BY <1>3, ConcurrencyAssumption DEF Shape
\* What the panel believes.
<1>5. ASSUME report' = report, answer' = answer \/ answer'.at = Never PROVE EachOne'
  BY <1>3, <1>5 DEF EachOne, Never
<1>6. CASE \E s \in Servers : Tick(s)
  BY <1>2, <1>6, StaysWhileTick
<1>7. CASE Pass
  <2>1. /\ now <= now' /\ held' = held /\ holdCalls' = holdCalls /\ report' = report /\ answer' = answer
        /\ excused' = excused /\ crossed' = crossed
    BY <1>4, <1>7 DEF Pass, serverVars, linkVars
  <2>2. QED
    BY <1>3, <1>5, <2>1, StaysWhileHeldStays
<1>8. CASE \E d \in Devices, h \in Hosts : Switch(d, h)
  <2>1. /\ now <= now' /\ held' = held /\ holdCalls' = holdCalls /\ report' = report /\ answer' = answer
        /\ excused' = excused /\ crossed' = crossed
    BY <1>4, <1>8 DEF Switch, serverVars, linkVars
  <2>2. QED
    BY <1>3, <1>5, <2>1, StaysWhileHeldStays
<1>9. CASE Sessions
  <2>1. /\ now <= now' /\ held' = held /\ holdCalls' = holdCalls /\ report' = report
        /\ excused' = excused /\ crossed' = crossed
    BY <1>4, <1>9 DEF Sessions, serverVars, elseUnchanged
  <2>2. ASSUME NEW d \in OnNode PROVE answer'.of[d].n <= 1
    <3>1. answer'.of[d].n = Own(acts, d, Clock("node")).n
      BY <1>9 DEF Sessions
    <3>2. Connections(acts[d], Clock("node")) \in {0, 1}
      BY <1>2, <1>4, OneEach DEF HistoryInv
    <3>3. QED
      BY <3>1, <3>2 DEF Own, Silent
  <2>3. EachOne'
    BY <1>3, <2>1, <2>2 DEF EachOne
  <2>4. QED
    BY <1>3, <2>1, <2>3, StaysWhileHeldStays
<1>10. CASE SetRemote
  <2>1. /\ now <= now' /\ held' = held /\ holdCalls' = holdCalls /\ answer'.at = Never
        /\ excused' = excused /\ crossed' = crossed /\ answer.at # Never
    BY <1>4, <1>10 DEF SetRemote, serverVars, elseUnchanged
  <2>2. ASSUME NEW d \in OnNode PROVE report'.of[d].n <= 1
    <3>1. report'.of[d].n \in {0, answer.of[d].n}
      BY <1>10 DEF SetRemote, Silent
    <3>2. QED
      BY <1>3, <2>1, <3>1 DEF EachOne
  <2>3. EachOne'
    BY <2>1, <2>2 DEF EachOne, Never
  <2>4. QED
    BY <1>3, <2>1, <2>3, StaysWhileHeldStays
<1>11. CASE AnswerLost
  <2>1. /\ now <= now' /\ held' = held /\ holdCalls' = holdCalls /\ report' = report
        /\ excused' = excused /\ crossed' = crossed /\ answer'.at = Never
    BY <1>4, <1>11 DEF AnswerLost, serverVars, elseUnchanged
  <2>2. QED
    BY <1>3, <1>5, <2>1, StaysWhileHeldStays
<1>12. ASSUME NEW c \in holdCalls, HoldArrives(c)
       PROVE  EachOne' /\ Enough(Free("panel")') /\ Calls' /\ NodeLeaves'
  <2>1. report' = report /\ answer' = answer
    BY <1>12 DEF HoldArrives
  <2>2. QED
    BY <1>3, <1>5, <1>12, <2>1, StaysWhileHoldArrives
<1>13. ASSUME NEW c \in holdCalls, HoldLost(c)
       PROVE  EachOne' /\ Enough(Free("panel")') /\ Calls' /\ NodeLeaves'
  <2>1. /\ now <= now' /\ held' = held /\ holdCalls' \subseteq holdCalls /\ report' = report
        /\ answer' = answer /\ excused' = excused /\ crossed' = crossed
    BY <1>4, <1>13 DEF HoldLost, serverVars, elseUnchanged
  <2>2. QED
    BY <1>3, <1>5, <2>1, StaysWhileHeldStays
<1>14. CASE Push
  <2>1. report' = report /\ answer' = answer
    BY <1>14 DEF Push
  <2>2. QED
    BY <1>3, <1>5, <1>14, <2>1, StaysWhilePush
<1>15. CASE PushFails
  <2>1. /\ now <= now' /\ held' = held /\ holdCalls' = holdCalls /\ report' = report /\ answer' = answer
        /\ excused' = excused /\ crossed' = crossed
    BY <1>4, <1>15 DEF PushFails, serverVars, elseUnchanged
  <2>2. QED
    BY <1>3, <1>5, <2>1, StaysWhileHeldStays
<1>16. ASSUME NEW l \in {"up", "down", "deaf"}, LinkChanges(l)
       PROVE  EachOne' /\ Enough(Free("panel")') /\ Calls' /\ NodeLeaves'
  <2>1. /\ now <= now' /\ held' = held /\ holdCalls' = holdCalls /\ report' = report /\ answer' = answer
        /\ crossed' = crossed /\ ("panel" \in excused => "panel" \in excused')
    BY <1>4, <1>16 DEF LinkChanges, serverVars
  <2>2. QED
    BY <1>3, <1>5, <2>1, StaysWhileHeldStays
<1>17. CASE PanelRestarts
  <2>1. report' = NoReport /\ answer'.at = Never
    BY <1>17 DEF PanelRestarts
  <2>2. EachOne'
    BY <2>1 DEF EachOne, NoReport, Silent, Never
  <2>3. QED
    BY <1>3, <1>17, <2>2, StaysWhileRestart
<1>18. CASE NodeRestarts
  <2>1. report' = report /\ answer'.at = Never
    BY <1>18 DEF NodeRestarts
  <2>2. QED
    BY <1>3, <1>5, <1>18, <2>1, StaysWhileRestart
<1>19. CASE UNCHANGED vars
  <2>1. /\ now <= now' /\ held' = held /\ holdCalls' = holdCalls /\ report' = report /\ answer' = answer
        /\ excused' = excused /\ crossed' = crossed
    BY <1>4, <1>19 DEF vars
  <2>2. QED
    BY <1>3, <1>5, <2>1, StaysWhileHeldStays
<1>20. QED
  BY <1>6, <1>7, <1>8, <1>9, <1>10, <1>11, <1>12, <1>13, <1>14, <1>15, <1>16, <1>17, <1>18, <1>19
     DEF Next

\* A hold of the node's that is not its own is the panel's too, where the node's
\* clock is not behind: so what both hold off is what one of them does, and leaves
\* enough.
LEMMA StaysEnough == HistoryInv /\ StaysInv => SomebodyStays
<1> SUFFICES ASSUME HistoryInv, StaysInv, "panel" \notin excused, ~crossed, Ahead >= 0,
                    \A d \in Devices : starts[d] <= 2
             PROVE  Enough({d \in Devices : d \in served \/ ~InForce(Home[d], d)})
  BY DEF SomebodyStays, Enough
<1>1. /\ "panel" \in Servers /\ "node" \in Servers /\ OnNode \subseteq Devices /\ now \in Nat /\ Ahead \in Int
      /\ \A d \in Devices : Home[d] = IF d \in OnNode THEN "node" ELSE "panel"
      /\ \A r \in Servers, d \in Devices : held[r][d] \in Int
  BY ConcurrencyAssumption DEF Servers, Home, HistoryInv, Shape, Ends
<1>2. Enough(Free("panel")) /\ (OwnHolds # {} => Enough(Free("node")))
  BY DEF StaysInv
<1>3. PICK T : T = {d \in Devices : d \in served \/ ~InForce(Home[d], d)}
  OBVIOUS
<1>4. T \subseteq Devices
  BY <1>3
<1>5. CASE OwnHolds # {}
  <2>1. Free("node") \subseteq T
    BY <1>1, <1>3 DEF Free, Accounts
  <2>2. Enough(T)
    BY <1>2, <1>4, <1>5, <2>1, EnoughGrows
  <2>3. QED
    BY <1>3, <2>2
<1>6. CASE OwnHolds = {}
  <2>1. ASSUME NEW d \in Free("panel") PROVE ~InForce(Home[d], d)
    <3>1. d \in Devices /\ ~(now < held["panel"][d])
      BY <2>1 DEF Free, Accounts, InForce, Clock
    <3>2. CASE d \notin OnNode
      BY <1>1, <3>1, <3>2 DEF InForce, Clock
    <3>3. CASE d \in OnNode
      <4>1. ~InForce("node", d) \/ ~(held["node"][d] > held["panel"][d])
        BY <1>6, <3>3 DEF OwnHolds
      <4>2. ~InForce("node", d)
        BY <1>1, <3>1, <4>1 DEF InForce, Clock
      <4>3. QED
        BY <1>1, <3>1, <3>3, <4>2
    <3>4. QED
      BY <3>2, <3>3
  <2>2. Free("panel") \subseteq T
    BY <1>3, <2>1 DEF Free, Accounts
  <2>3. Enough(T)
    BY <1>2, <1>4, <2>2, EnoughGrows
  <2>4. QED
    BY <1>3, <2>3
<1>7. QED
  BY <1>5, <1>6

\* Whatever the plan and the windows are, the servers of a customer whose devices are
\* each used from one place never hold off so many together that fewer are let in
\* than the plan allows: not when the link between them goes down, not when calls are
\* lost or late, nor when the node decides alone, restarts, or cannot be heard; until
\* the panel forgets its holds or they cross with the node's own, and as long as the
\* node's clock is not behind (concurrency.go: enforce, lookup, hold).
THEOREM EnoughAreLetIn == Spec => []SomebodyStays
<1>1. Init => HistoryInv /\ StaysInv
  BY HistoryInitial, StaysInitial
<1>2. HistoryInv /\ StaysInv /\ [Next]_vars => (HistoryInv /\ StaysInv)'
  BY HistoryStep, StaysStep
<1>3. HistoryInv /\ StaysInv => SomebodyStays
  BY StaysEnough
<1>4. QED
  BY <1>1, <1>2, <1>3, PTL DEF Spec

=============================================================================
