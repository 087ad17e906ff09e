---------------------------- MODULE AddressesProofs ----------------------------
(***************************************************************************)
(* The allocator and the rows agree, for any devices, customers, requests  *)
(* and subnet, as long as requests for one device or one customer do not   *)
(* overlap and the tunnel moves while no other request is under way.       *)
(***************************************************************************)
EXTENDS Addresses, FiniteSetTheorems, WellFoundedInduction, TLAPS

-----------------------------------------------------------------------------
(* The allocator.                                                          *)

\* An allocator for subnet S, wherever its cursor is.
PoolOK(S, p) ==
    /\ p \in [subnet : {S}, used : SUBSET (0..(S.size - 1)),
              cursor : {p.cursor}]
    /\ Kept(S) \subseteq p.used

\* A set of naturals has a least element.
LEMMA MinIn ==
  ASSUME NEW S \in SUBSET Nat, S # {}
  PROVE  Min(S) \in S
<1> DEFINE R == OpToRel(<, Nat)
<1>1. IsWellFoundedOn(R, Nat)
  BY NatLessThanWellFounded
<1>2. \A x, y \in Nat : y < x => <<y, x>> \in R
  BY DEF OpToRel
<1> HIDE DEF R
<1>3. PICK x \in S : \A y \in S : ~(<<y, x>> \in R)
  BY <1>1, WFMin
<1>4. \A y \in S : y \in Nat /\ x \in Nat /\ ~(y < x)
  BY <1>2, <1>3
<1>5. \A y \in S : x <= y
  BY <1>4
<1>6. QED
  BY <1>5 DEF Min

\* What Allocate hands out was free.
LEMMA NextFreeIsFree ==
  ASSUME NEW S \in Subnets, NEW p, PoolOK(S, p), Free(p) # {}
  PROVE  NextFree(p) \in Free(p)
<1>1. Free(p) \subseteq Nat
  BY AddressesAssumption DEF Free, PoolOK
<1>2. QED
  BY <1>1, MinIn DEF NextFree

-----------------------------------------------------------------------------
(* The invariant.                                                          *)

Base(S) == S.base
Usable(S, a) == a \in Nat /\ Fits(S, a) /\ a - Base(S) \notin Kept(S)

Jobs ==
    [at : {"idle"}]
    \cup [at : {"insert"}, device : Devices, ip : Nat, from : Nat]
    \cup [at : {"remove"}, device : Devices, ips : SUBSET Nat]
    \cup [at : {"delete"}, client : Clients, ips : SUBSET Nat]
    \cup [at : {"release"}, ips : SUBSET Nat]

\* The tunnel is on S, and nothing moves it.
Shape(S) ==
    /\ subnet = S /\ replaced \in Nat
    /\ ip \in [Devices -> Nat \cup {NoRow}]
    /\ Rows \subseteq made /\ up \in BOOLEAN
    /\ up => PoolOK(S, pool)
    /\ job \in [Workers -> Jobs]
    /\ ~up => job = [w \in Workers |-> Idle]

\* Rows hold addresses of the tunnel, each its own, and none of them is free.
RowsOK(S) ==
    /\ \A d \in Rows : Usable(S, ip[d]) /\ (up => ip[d] - Base(S) \in pool.used)
    /\ \A d, e \in Rows : ip[d] = ip[e] => d = e

\* An address on its way to a row is in use and nobody else's.
InsertsOK(S) ==
    \A w \in Workers : job[w].at = "insert" =>
        /\ Usable(S, job[w].ip) /\ job[w].ip - Base(S) \in pool.used
        /\ job[w].from = replaced /\ job[w].device \in made \ Rows
        /\ \A d \in Rows : ip[d] # job[w].ip
        /\ \A v \in Workers :
              /\ job[v].at = "insert" /\ v # w =>
                    job[v].ip # job[w].ip /\ job[v].device # job[w].device
              /\ job[w].ip \notin GivesBack(v)
              /\ job[v].at = "delete" => ClientOf[job[w].device] # job[v].client

\* An address on its way back is in use, is held by no row but those the
\* request is to delete, and is given back by one request.
LeavingOK(S) ==
    \A w \in Workers :
        /\ job[w].at = "remove" =>
              job[w].device \in Rows /\ job[w].ips = {ip[job[w].device]}
        /\ job[w].at = "delete" =>
              job[w].ips = {ip[d] : d \in RowsOf(job[w].client)}
        /\ job[w].at = "release" => \A a \in job[w].ips :
              /\ Usable(S, a) /\ a - Base(S) \in pool.used
              /\ \A d \in Rows : ip[d] # a
        /\ \A v \in Workers : GivesBack(v) \cap GivesBack(w) # {} => v = w

\* An offset in use is one the subnet keeps, a row's, or a request's.
UseOK(S) ==
    up => \A off \in pool.used \ Kept(S) :
            \/ \E d \in Rows : ip[d] = Base(S) + off
            \/ \E w \in Workers : job[w].at = "insert" /\ job[w].ip = Base(S) + off
            \/ \E w \in Workers : Base(S) + off \in GivesBack(w)

QuietInv(S) == Shape(S) /\ RowsOK(S) /\ InsertsOK(S) /\ LeavingOK(S) /\ UseOK(S)

LEMMA JobParts ==
  ASSUME NEW j \in Jobs
  PROVE  /\ j.at \in {"idle", "insert", "remove", "delete", "release"}
         /\ j.at = "insert" => j.device \in Devices /\ j.ip \in Nat
         /\ j.at = "remove" => j.device \in Devices
         /\ j.at = "delete" => j.client \in Clients
         /\ j.at \in {"remove", "delete", "release"} => j.ips \in SUBSET Nat
         /\ j.at = "release" => \A a : [j EXCEPT !.ips = @ \ {a}] \in Jobs
         /\ j.at = "release" => \A a : [j EXCEPT !.ips = @ \ {a}].ips = j.ips \ {a}
                                    /\ [j EXCEPT !.ips = @ \ {a}].at = "release"
BY DEF Jobs

\* What giving a usable address back does.
LEMMA ReleaseDoes ==
  ASSUME NEW S \in Subnets, NEW p, PoolOK(S, p), NEW a, Usable(S, a)
  PROVE  /\ PoolOK(S, Release(p, a))
         /\ Release(p, a).used = p.used \ {a - Base(S)}
BY AddressesAssumption DEF Release, PoolOK, Usable, Base

\* What taking one does.
LEMMA AllocateDoes ==
  ASSUME NEW S \in Subnets, NEW p, PoolOK(S, p), Free(p) # {}
  PROVE  /\ PoolOK(S, Allocate(p)) /\ Usable(S, Allocated(p))
         /\ Allocated(p) - Base(S) \notin p.used
         /\ Allocate(p).used = p.used \cup {Allocated(p) - Base(S)}
<1>1. /\ NextFree(p) \in Free(p) /\ p.subnet = S
      /\ S.size \in Nat /\ Base(S) \in Nat
      /\ p.used \subseteq 0..(S.size - 1) /\ Kept(S) \subseteq p.used
  BY NextFreeIsFree, AddressesAssumption DEF PoolOK, Base
<1>2. NextFree(p) \in 0..(S.size - 1) /\ NextFree(p) \notin p.used
  BY <1>1 DEF Free
<1>3. Allocated(p) = Base(S) + NextFree(p) /\ Allocated(p) - Base(S) = NextFree(p)
  BY <1>1, <1>2 DEF Allocated, Base
<1>4. Usable(S, Allocated(p))
  BY <1>1, <1>2, <1>3 DEF Usable, Fits, Base
<1>5. QED
  BY <1>1, <1>2, <1>3, <1>4 DEF Allocate, PoolOK

\* What putting in one that is free does.
LEMMA ReserveDoes ==
  ASSUME NEW S \in Subnets, NEW p, PoolOK(S, p), NEW a, Usable(S, a), a - Base(S) \notin p.used
  PROVE  /\ PoolOK(S, Reserve(p, a))
         /\ Reserve(p, a).used = p.used \cup {a - Base(S)}
<1>1. /\ p.subnet = S /\ Fits(S, a) /\ a - S.base \notin p.used
      /\ a - S.base \in 0..(S.size - 1)
  BY AddressesAssumption DEF PoolOK, Usable, Fits, Base
<1>2. Reserve(p, a).used = p.used \cup {a - S.base} /\ Reserve(p, a).subnet = S
  BY <1>1 DEF Reserve, PoolOK
<1>3. Reserve(p, a) = [subnet |-> S, used |-> Reserve(p, a).used, cursor |-> Reserve(p, a).cursor]
  BY <1>1 DEF Reserve, PoolOK
<1>4. QED
  BY <1>1, <1>2, <1>3 DEF PoolOK, Base

LEMMA QuietInit == Init => QuietInv(FirstSubnet)
<1> DEFINE S == FirstSubnet
<1> SUFFICES ASSUME Init PROVE QuietInv(S)
  OBVIOUS
<1> USE AddressesAssumption DEF Init
<1>1. Rows = {} /\ \A w \in Workers : job[w].at = "idle"
  BY DEF Rows, Idle
<1>2. Shape(S)
  BY <1>1 DEF Shape, PoolOK, New, Kept, Idle, Jobs, NoRow
<1>3. QED
  BY <1>1, <1>2 DEF QuietInv, RowsOK, InsertsOK, LeavingOK, UseOK, GivesBack, New

-----------------------------------------------------------------------------
(* The steps.                                                              *)

\* What every step starts from, in the forms the provers need.
LEMMA Known ==
  ASSUME NEW S \in Subnets, Shape(S)
  PROVE  /\ \A w \in Workers :
               job[w].at \in {"idle", "insert", "remove", "delete", "release"}
         /\ Rows \subseteq Devices
BY JobParts DEF Shape, Rows

LEMMA ReserveKeeps ==
  ASSUME Allowed \subseteq {"move"}, NEW S \in Subnets, QuietInv(S),
         NEW w \in Workers, NEW d \in Devices,
         ReserveAddress(w, d)
  PROVE  QuietInv(S)'
<1> DEFINE a == Allocated(pool)
<1> DEFINE j == [at |-> "insert", device |-> d, ip |-> a, from |-> replaced]
<1> USE DEF QuietInv, ReserveAddress, MayBegin
<1>1. /\ PoolOK(S, pool') /\ Usable(S, a) /\ a - Base(S) \notin pool.used
      /\ pool'.used = pool.used \cup {a - Base(S)}
  BY AllocateDoes DEF Shape
<1>2. /\ ip' = ip /\ subnet' = subnet /\ up /\ up' /\ replaced' = replaced /\ replaced \in Nat
      /\ Rows' = Rows /\ d \notin Rows /\ made' = made \cup {d}
      /\ \A v \in Workers : ~(job[v].at = "delete" /\ job[v].client = ClientOf[d])
  BY DEF Shape, Rows, Deleting
<1>3. /\ j \in Jobs /\ job \in [Workers -> Jobs] /\ job' = [job EXCEPT ![w] = j]
  BY <1>1, <1>2 DEF Jobs, Usable, Shape
<1>4. /\ job'[w] = j /\ \A v \in Workers \ {w} : job'[v] = job[v]
      /\ job[w].at = "idle"
  BY <1>3 DEF Idle
<1> HIDE DEF a
<1>5. Shape(S)'
  BY <1>1, <1>2, <1>3 DEF Shape
<1>6. GivesBack(w) = {} /\ GivesBack(w)' = {} /\ \A v \in Workers \ {w} : GivesBack(v)' = GivesBack(v)
  BY <1>4 DEF GivesBack
<1>7. /\ \A e \in Rows : ip[e] # a
      /\ \A v \in Workers : job[v].at = "insert" => job[v].ip # a /\ job[v].device # d
      /\ \A v \in Workers : a \notin GivesBack(v)
  <2>1. \A e \in Rows : ip[e] # a
    BY <1>1, <1>2 DEF RowsOK
  <2>2. \A v \in Workers : job[v].at = "insert" => job[v].ip # a /\ job[v].device # d
    BY <1>1, <1>2 DEF InsertsOK
  <2>3. \A v \in Workers : a \notin GivesBack(v)
    BY <1>1, <2>1 DEF LeavingOK, GivesBack, RowsOf
  <2>4. QED
    BY <2>1, <2>2, <2>3
<1>8. RowsOK(S)'
  BY <1>1, <1>2 DEF RowsOK
<1>9. InsertsOK(S)'
  BY <1>1, <1>2, <1>4, <1>6, <1>7 DEF InsertsOK
<1>10. LeavingOK(S)'
  BY <1>1, <1>2, <1>4, <1>6 DEF LeavingOK, RowsOf
<1>11. UseOK(S)'
  <2> SUFFICES ASSUME NEW off \in pool'.used \ Kept(S)
               PROVE  \/ \E e \in Rows : ip[e] = Base(S) + off
                      \/ \E v \in Workers : job'[v].at = "insert" /\ job'[v].ip = Base(S) + off
                      \/ \E v \in Workers : Base(S) + off \in GivesBack(v)'
    BY <1>2 DEF UseOK
  <2>1. CASE off = a - Base(S)
    BY <2>1, <1>1, <1>4, AddressesAssumption DEF Usable, Base
  <2>2. CASE off \in pool.used
    BY <2>2, <1>2, <1>4, <1>6 DEF UseOK
  <2>3. QED
    BY <2>1, <2>2, <1>1
<1>12. QED
  BY <1>5, <1>8, <1>9, <1>10, <1>11
LEMMA InsertKeeps ==
  ASSUME NEW S \in Subnets, QuietInv(S), NEW w \in Workers, InsertRow(w)
  PROVE  QuietInv(S)'
<1> DEFINE d == job[w].device
<1> DEFINE a == job[w].ip
<1> USE DEF QuietInv, InsertRow
<1>1. /\ job[w].at = "insert" /\ Usable(S, a) /\ a \in Nat /\ a - Base(S) \in pool.used
      /\ d \in Devices /\ d \in made \ Rows /\ \A e \in Rows : ip[e] # a
      /\ up
  BY JobParts DEF InsertsOK, Shape, Usable, Idle
<1>2. /\ Idle \in Jobs /\ job \in [Workers -> Jobs] /\ job' = [job EXCEPT ![w] = Idle]
      /\ ip \in [Devices -> Nat \cup {NoRow}] /\ ip' = [ip EXCEPT ![d] = a]
      /\ pool' = pool /\ made' = made /\ up' = up /\ subnet' = subnet /\ replaced' = replaced
  BY DEF Shape, Ends, Idle, Jobs, poolVars
<1>3. /\ job'[w].at = "idle" /\ \A v \in Workers \ {w} : job'[v] = job[v]
      /\ ip'[d] = a /\ \A e \in Devices \ {d} : ip'[e] = ip[e]
  BY <1>1, <1>2 DEF Idle
<1> HIDE DEF a, d
<1>4. Rows' = Rows \cup {d} /\ Rows \subseteq Devices /\ \A e \in Rows : ip'[e] = ip[e]
  BY <1>1, <1>2, <1>3 DEF Rows, NoRow
<1>5. Shape(S)'
  <2>1. up' /\ PoolOK(S, pool')
    BY <1>1, <1>2 DEF Shape
  <2>2. QED
    BY <2>1, <1>1, <1>2, <1>3, <1>4 DEF Shape
<1>6. GivesBack(w)' = {} /\ \A v \in Workers \ {w} : GivesBack(v)' = GivesBack(v)
  BY <1>3 DEF GivesBack
<1>7. RowsOK(S)'
  BY <1>1, <1>2, <1>3, <1>4 DEF RowsOK
<1>8. \A v \in Workers \ {w} : job[v].at = "insert" => job[v].ip # a /\ job[v].device # d
  BY <1>1 DEF InsertsOK, a, d
<1>9. \A v \in Workers :
        a \notin GivesBack(v) /\ (job[v].at = "delete" => ClientOf[d] # job[v].client)
  BY <1>1 DEF InsertsOK, a, d
<1>10. InsertsOK(S)'
  BY <1>1, <1>2, <1>3, <1>4, <1>6, <1>8 DEF InsertsOK
<1>11. LeavingOK(S)'
  <2>1. \A v \in Workers : job'[v].at = "remove" =>
          job'[v].device \in Rows' /\ job'[v].ips = {ip'[job'[v].device]}
    BY <1>3, <1>4 DEF LeavingOK
  <2>2. \A v \in Workers : job'[v].at = "delete" =>
          job'[v].ips = {ip'[e] : e \in {f \in Rows' : ClientOf[f] = job'[v].client}}
    <3> SUFFICES ASSUME NEW v \in Workers, job'[v].at = "delete"
                 PROVE  job'[v].ips = {ip'[e] : e \in {f \in Rows' : ClientOf[f] = job'[v].client}}
      OBVIOUS
    <3>1. job'[v] = job[v] /\ job[v].ips = {ip[e] : e \in RowsOf(job[v].client)}
      BY <1>3 DEF LeavingOK
    <3>2. {f \in Rows' : ClientOf[f] = job[v].client} = RowsOf(job[v].client)
      BY <1>4, <1>9, <3>1 DEF RowsOf
    <3>3. \A e \in RowsOf(job[v].client) : ip'[e] = ip[e]
      BY <1>4 DEF RowsOf
    <3>4. QED
      BY <3>1, <3>2, <3>3
  <2>3. \A v \in Workers : job'[v].at = "release" => \A b \in job'[v].ips :
          Usable(S, b) /\ b - Base(S) \in pool'.used /\ \A e \in Rows' : ip'[e] # b
    <3>1. \A v \in Workers : job'[v].at = "release" =>
            job'[v] = job[v] /\ \A b \in job[v].ips : b # a
      BY <1>3, <1>9 DEF GivesBack
    <3>2. QED
      BY <3>1, <1>2, <1>3, <1>4 DEF LeavingOK
  <2>4. \A u, v \in Workers : GivesBack(u)' \cap GivesBack(v)' # {} => u = v
    BY <1>6 DEF LeavingOK
  <2>5. QED
    BY <2>1, <2>2, <2>3, <2>4 DEF LeavingOK, RowsOf
<1>12. UseOK(S)'
  <2> SUFFICES ASSUME up, NEW off \in pool.used \ Kept(S)
               PROVE  \/ \E e \in Rows' : ip'[e] = Base(S) + off
                      \/ \E v \in Workers : job'[v].at = "insert" /\ job'[v].ip = Base(S) + off
                      \/ \E v \in Workers : Base(S) + off \in GivesBack(v)'
    BY <1>2 DEF UseOK
  <2>1. CASE Base(S) + off = a
    BY <2>1, <1>3, <1>4
  <2>2. CASE Base(S) + off # a
    <3>1. GivesBack(w) = {}
      BY <1>1 DEF GivesBack
    <3>2. QED
      BY <2>2, <3>1, <1>3, <1>4, <1>6 DEF UseOK, a
  <2>3. QED
    BY <2>1, <2>2
<1>13. QED
  BY <1>5, <1>7, <1>10, <1>11, <1>12

LEMMA InsertFailsKeeps ==
  ASSUME NEW S \in Subnets, QuietInv(S), NEW w \in Workers, InsertFails(w)
  PROVE  QuietInv(S)'
<1> DEFINE a == job[w].ip
<1> USE DEF QuietInv, InsertFails
<1>1. /\ job[w].at = "insert" /\ Usable(S, a) /\ a \in Nat /\ a - Base(S) \in pool.used
      /\ up /\ \A e \in Rows : ip[e] # a
      /\ \A v \in Workers : a \notin GivesBack(v)
      /\ \A v \in Workers \ {w} : job[v].at = "insert" => job[v].ip # a
  BY DEF InsertsOK, Usable, Shape, Idle
<1>2. /\ Idle \in Jobs /\ job \in [Workers -> Jobs] /\ job' = [job EXCEPT ![w] = Idle]
      /\ ip' = ip /\ made' = made /\ up' = up /\ subnet' = subnet /\ replaced' = replaced
      /\ Rows' = Rows /\ ip' \in [Devices -> Nat \cup {NoRow}]
  BY DEF Shape, Ends, Idle, Jobs, dbVars, Rows
<1>3. PoolOK(S, pool') /\ pool'.used = pool.used \ {a - Base(S)}
  <2>1. pool' = Release(pool, a)
    BY <1>1 DEF InsertsOK
  <2>2. QED
    BY <2>1, <1>1, ReleaseDoes DEF Shape
<1>4. job'[w].at = "idle" /\ \A v \in Workers \ {w} : job'[v] = job[v]
  BY <1>2 DEF Idle
<1> HIDE DEF a
<1>5. Shape(S)'
  <2>1. up'
    BY <1>1, <1>2
  <2>2. QED
    BY <2>1, <1>2, <1>3 DEF Shape
<1>6. GivesBack(w)' = {} /\ GivesBack(w) = {}
      /\ \A v \in Workers \ {w} : GivesBack(v)' = GivesBack(v)
  BY <1>1, <1>4 DEF GivesBack
<1>7. \A b \in Nat : b # a /\ b - Base(S) \in pool.used => b - Base(S) \in pool'.used
  BY <1>1, <1>3, AddressesAssumption DEF Base
<1>8. RowsOK(S)'
  BY <1>1, <1>2, <1>7 DEF RowsOK, Usable
<1>9. InsertsOK(S)'
  BY <1>1, <1>2, <1>4, <1>6, <1>7 DEF InsertsOK, Usable
<1>10. LeavingOK(S)'
  <2>1. \A v \in Workers : job'[v].at = "release" => \A b \in job[v].ips : b # a
    BY <1>1, <1>4 DEF GivesBack
  <2>2. \A c : RowsOf(c)' = RowsOf(c)
    BY <1>2 DEF RowsOf
  <2>3. QED
    BY <2>1, <2>2, <1>2, <1>4, <1>6, <1>7 DEF LeavingOK, Usable
<1>11. UseOK(S)'
  <2>1. \A off \in pool'.used : off \in pool.used /\ Base(S) + off # a
    BY <1>1, <1>3, AddressesAssumption DEF Base, PoolOK, Shape
  <2>2. QED
    BY <2>1, <1>2, <1>4, <1>6 DEF UseOK, a
<1>12. QED
  BY <1>5, <1>8, <1>9, <1>10, <1>11
\* A step that only moves a request on: to nothing, or to addresses rows hold
\* and no other request gives back, from nothing but such addresses.
LEMMA JobKeeps ==
  ASSUME NEW S \in Subnets, QuietInv(S), NEW w \in Workers, NEW j \in Jobs,
         up, up', UNCHANGED <<dbVars, poolVars>>, job' = [job EXCEPT ![w] = j],
         job[w].at # "insert", \A a \in GivesBack(w) : \E d \in Rows : ip[d] = a,
         j.at \in {"idle", "remove", "delete"},
         j.at = "remove" => j.device \in Rows /\ j.ips = {ip[j.device]},
         j.at = "delete" =>
            /\ j.ips = {ip[d] : d \in RowsOf(j.client)}
            /\ \A v \in Workers : job[v].at = "insert" => ClientOf[job[v].device] # j.client,
         j.at # "idle" => \A v \in Workers : GivesBack(v) \cap j.ips = {}
  PROVE  QuietInv(S)'
<1> USE DEF QuietInv
<1>1. /\ ip' = ip /\ made' = made /\ subnet' = subnet /\ replaced' = replaced /\ pool' = pool
      /\ Rows' = Rows
  BY DEF dbVars, poolVars, Rows
<1>2. job'[w] = j /\ \A v \in Workers \ {w} : job'[v] = job[v]
  BY DEF Shape
<1>3. /\ GivesBack(w)' = IF j.at = "idle" THEN {} ELSE j.ips
      /\ \A v \in Workers \ {w} : GivesBack(v)' = GivesBack(v)
  BY <1>2 DEF GivesBack
<1>4. \A a \in GivesBack(w)' : \E d \in Rows : ip[d] = a
  BY <1>3 DEF RowsOf
<1>5. Shape(S)'
  BY <1>1 DEF Shape
<1>6. RowsOK(S)'
  BY <1>1 DEF RowsOK
<1>7. InsertsOK(S)'
  <2>1. \A v \in Workers : job'[v].at = "insert" => v # w /\ job'[v] = job[v]
    BY <1>2
  <2>2. \A v \in Workers : job[v].at = "insert" => job[v].ip \notin GivesBack(w)'
    BY <1>4 DEF InsertsOK
  <2>3. \A v \in Workers : job[v].at = "insert" =>
          (job'[w].at = "delete" => ClientOf[job[v].device] # job'[w].client)
    BY <1>2
  <2>4. QED
    BY <1>1, <1>2, <1>3, <2>1, <2>2, <2>3 DEF InsertsOK
<1>8. LeavingOK(S)'
  <2>1. \A u, v \in Workers : GivesBack(u)' \cap GivesBack(v)' # {} => u = v
    BY <1>3 DEF LeavingOK
  <2>2. \A c : RowsOf(c)' = RowsOf(c)
    BY <1>1 DEF RowsOf
  <2>3. QED
    BY <1>1, <1>2, <2>1, <2>2 DEF LeavingOK
<1>9. UseOK(S)'
  BY <1>1, <1>2, <1>3 DEF UseOK
<1>10. QED
  BY <1>5, <1>6, <1>7, <1>8, <1>9

LEMMA IdleIsAJob == Idle \in Jobs /\ Idle.at = "idle"
BY DEF Idle, Jobs

LEMMA LoadDeviceKeeps ==
  ASSUME Allowed \subseteq {"move"}, NEW S \in Subnets, QuietInv(S),
         NEW w \in Workers, NEW d \in Devices, LoadDevice(w, d)
  PROVE  QuietInv(S)'
<1> DEFINE j == [at |-> "remove", device |-> d, ips |-> {ip[d]}]
<1>1. /\ d \in Rows /\ ip[d] \in Nat /\ j \in Jobs /\ up /\ up'
      /\ \A v \in Workers : GivesBack(v) \cap j.ips = {}
  BY DEF LoadDevice, MayBegin, QuietInv, RowsOK, Usable, Jobs
<1>2. job[w].at = "idle" /\ GivesBack(w) = {} /\ job' = [job EXCEPT ![w] = j]
      /\ UNCHANGED <<dbVars, poolVars>>
  BY DEF LoadDevice, MayBegin, Idle, GivesBack
<1>3. QED
  BY <1>1, <1>2, JobKeeps

LEMMA LoadClientKeeps ==
  ASSUME Allowed \subseteq {"move"}, NEW S \in Subnets, QuietInv(S),
         NEW w \in Workers, NEW c \in Clients, LoadClient(w, c)
  PROVE  QuietInv(S)'
<1> DEFINE j == [at |-> "delete", client |-> c, ips |-> {ip[d] : d \in RowsOf(c)}]
<1>1. /\ j.ips \in SUBSET Nat /\ j \in Jobs /\ up /\ up'
      /\ \A v \in Workers : GivesBack(v) \cap j.ips = {}
      /\ \A v \in Workers : job[v].at = "insert" => ClientOf[job[v].device] # c
  BY DEF LoadClient, MayBegin, QuietInv, RowsOK, RowsOf, Usable, Jobs, Adding
<1>2. job[w].at = "idle" /\ GivesBack(w) = {} /\ job' = [job EXCEPT ![w] = j]
      /\ UNCHANGED <<dbVars, poolVars>>
  BY DEF LoadClient, MayBegin, Idle, GivesBack
<1>3. QED
  BY <1>1, <1>2, JobKeeps

LEMMA DeleteFailsKeeps ==
  ASSUME NEW S \in Subnets, QuietInv(S), NEW w \in Workers, DeleteFails(w)
  PROVE  QuietInv(S)'
<1>1. /\ job[w].at \in {"remove", "delete"} /\ job' = [job EXCEPT ![w] = Idle]
      /\ UNCHANGED <<dbVars, poolVars>> /\ up' = up
  BY DEF DeleteFails, Ends
<1>2. up
  BY <1>1 DEF QuietInv, Shape, Idle
<1>3. up'
  BY <1>1, <1>2
<1>4. \A a \in GivesBack(w) : \E d \in Rows : ip[d] = a
  BY <1>1 DEF QuietInv, LeavingOK, GivesBack, RowsOf
<1>5. QED
  BY <1>1, <1>2, <1>3, <1>4, JobKeeps, IdleIsAJob

LEMMA ReleasedKeeps ==
  ASSUME NEW S \in Subnets, QuietInv(S), NEW w \in Workers, Released(w)
  PROVE  QuietInv(S)'
<1>1. /\ job[w].at = "release" /\ GivesBack(w) = {} /\ job' = [job EXCEPT ![w] = Idle]
      /\ UNCHANGED <<dbVars, poolVars>> /\ up' = up
  BY DEF Released, Ends, GivesBack
<1>2. up
  BY <1>1 DEF QuietInv, Shape, Idle
<1>3. up'
  BY <1>1, <1>2
<1>4. QED
  BY <1>1, <1>2, <1>3, JobKeeps, IdleIsAJob
\* A step that deletes some rows, all of whose addresses, and no others, the
\* request goes on to give back.
LEMMA RowsGoKeeps ==
  ASSUME NEW S \in Subnets, QuietInv(S), NEW w \in Workers, NEW gone \in SUBSET Rows,
         job[w].at \in {"remove", "delete"},
         job[w].ips = {ip[d] : d \in gone},
         ip' = [d \in Devices |-> IF d \in gone THEN NoRow ELSE ip[d]],
         job' = [job EXCEPT ![w] = [at |-> "release", ips |-> job[w].ips]],
         UNCHANGED <<subnet, made, up, poolVars>>
  PROVE  QuietInv(S)'
<1> DEFINE j == [at |-> "release", ips |-> job[w].ips]
<1> USE DEF QuietInv
<1>1. /\ job \in [Workers -> Jobs] /\ job[w].ips \in SUBSET Nat /\ j \in Jobs /\ up
      /\ made' = made /\ subnet' = subnet /\ replaced' = replaced /\ pool' = pool /\ up' = up
  BY JobParts DEF Shape, Jobs, Idle, poolVars
<1>2. /\ job'[w] = j /\ job'[w].at = "release" /\ job'[w].ips = job[w].ips
      /\ \A v \in Workers \ {w} : job'[v] = job[v]
  BY <1>1
<1>3. /\ Rows' = Rows \ gone /\ Rows \subseteq Devices
      /\ \A d \in Rows' : ip'[d] = ip[d]
  BY DEF Rows, NoRow
<1>4. \A v \in Workers : GivesBack(v)' = GivesBack(v)
  BY <1>2 DEF GivesBack
<1>5. \A d \in Rows' : ip[d] \notin job[w].ips
  BY <1>3 DEF RowsOK
<1>6. Shape(S)'
  <2>1. up'
    BY <1>1
  <2>2. ip' \in [Devices -> Nat \cup {NoRow}]
    BY DEF Shape
  <2>3. job' \in [Workers -> Jobs]
    BY <1>1
  <2>4. QED
    BY <2>1, <2>2, <2>3, <1>1, <1>3 DEF Shape
<1>7. RowsOK(S)'
  BY <1>1, <1>3 DEF RowsOK
<1>8. InsertsOK(S)'
  BY <1>1, <1>2, <1>3, <1>4 DEF InsertsOK
<1>9. LeavingOK(S)'
  <2>1. \A v \in Workers \ {w} : job[v].at \in {"remove", "delete"} =>
          \A d \in Rows : ip[d] \in job[v].ips => d \notin gone
    BY DEF LeavingOK, GivesBack
  <2>2. \A v \in Workers : job'[v].at = "remove" =>
          job'[v].device \in Rows' /\ job'[v].ips = {ip'[job'[v].device]}
    BY <1>2, <1>3, <2>1 DEF LeavingOK
  <2>3. \A v \in Workers : job'[v].at = "delete" =>
          job'[v].ips = {ip'[e] : e \in {f \in Rows' : ClientOf[f] = job'[v].client}}
    <3> SUFFICES ASSUME NEW v \in Workers, job'[v].at = "delete"
                 PROVE  job'[v].ips = {ip'[e] : e \in {f \in Rows' : ClientOf[f] = job'[v].client}}
      OBVIOUS
    <3>1. v # w /\ job'[v] = job[v] /\ job[v].ips = {ip[e] : e \in RowsOf(job[v].client)}
      BY <1>2 DEF LeavingOK
    <3>2. \A e \in RowsOf(job[v].client) : e \in Rows /\ ip[e] \in job[v].ips
      BY <3>1 DEF RowsOf
    <3>3. {f \in Rows' : ClientOf[f] = job[v].client} = RowsOf(job[v].client)
      BY <1>2, <1>3, <2>1, <3>1, <3>2 DEF RowsOf
    <3>4. \A e \in RowsOf(job[v].client) : ip'[e] = ip[e]
      BY <1>3, <3>3
    <3>5. {ip'[e] : e \in RowsOf(job[v].client)} = {ip[e] : e \in RowsOf(job[v].client)}
      BY <3>4
    <3>6. QED
      BY <3>1, <3>3, <3>5
  <2>4. \A v \in Workers : job'[v].at = "release" => \A b \in job'[v].ips :
          Usable(S, b) /\ b - Base(S) \in pool'.used /\ \A e \in Rows' : ip'[e] # b
    <3>1. \A b \in job[w].ips :
            Usable(S, b) /\ b - Base(S) \in pool'.used /\ \A e \in Rows' : ip'[e] # b
      BY <1>1, <1>3, <1>5 DEF RowsOK
    <3>2. \A v \in Workers \ {w} : job'[v].at = "release" => \A b \in job'[v].ips :
            Usable(S, b) /\ b - Base(S) \in pool'.used /\ \A e \in Rows' : ip'[e] # b
      BY <1>1, <1>2, <1>3 DEF LeavingOK
    <3>3. QED
      BY <3>1, <3>2, <1>2
  <2>5. \A u, v \in Workers : GivesBack(u)' \cap GivesBack(v)' # {} => u = v
    BY <1>4 DEF LeavingOK
  <2>6. QED
    BY <2>2, <2>3, <2>4, <2>5 DEF LeavingOK, RowsOf
<1>10. UseOK(S)'
  <2> SUFFICES ASSUME NEW off \in pool.used \ Kept(S)
               PROVE  \/ \E e \in Rows' : ip'[e] = Base(S) + off
                      \/ \E v \in Workers : job'[v].at = "insert" /\ job'[v].ip = Base(S) + off
                      \/ \E v \in Workers : Base(S) + off \in GivesBack(v)'
    BY <1>1 DEF UseOK
  <2>1. CASE \E e \in gone : ip[e] = Base(S) + off
    BY <2>1, <1>4 DEF GivesBack
  <2>2. CASE ~\E e \in gone : ip[e] = Base(S) + off
    <3>1. CASE \E e \in Rows : ip[e] = Base(S) + off
      BY <3>1, <2>2, <1>3
    <3>2. CASE \E v \in Workers : job[v].at = "insert" /\ job[v].ip = Base(S) + off
      <4>1. \A v \in Workers : job[v].at = "insert" => job'[v] = job[v]
        BY <1>2
      <4>2. QED
        BY <3>2, <4>1
    <3>3. CASE \E v \in Workers : Base(S) + off \in GivesBack(v)
      BY <3>3, <1>4
    <3>4. QED
      BY <3>1, <3>2, <3>3, <1>1 DEF UseOK
  <2>3. QED
    BY <2>1, <2>2
<1>11. QED
  BY <1>6, <1>7, <1>8, <1>9, <1>10

LEMMA DeleteRowKeeps ==
  ASSUME NEW S \in Subnets, QuietInv(S), NEW w \in Workers, DeleteRow(w)
  PROVE  QuietInv(S)'
<1> DEFINE d == job[w].device
<1>1. d \in Rows /\ job[w].ips = {ip[d]} /\ job[w].at = "remove"
  BY DEF DeleteRow, QuietInv, LeavingOK
<1>2. ip' = [e \in Devices |-> IF e \in {d} THEN NoRow ELSE ip[e]]
  BY DEF DeleteRow, QuietInv, Shape
<1>3. /\ job' = [job EXCEPT ![w] = [at |-> "release", ips |-> job[w].ips]]
      /\ UNCHANGED <<subnet, made, up, poolVars>>
  BY DEF DeleteRow
<1> HIDE DEF d
<1>4. {d} \in SUBSET Rows /\ job[w].ips = {ip[e] : e \in {d}}
  BY <1>1
<1>5. QED
  BY <1>1, <1>2, <1>3, <1>4, RowsGoKeeps

LEMMA DeleteRowsKeeps ==
  ASSUME NEW S \in Subnets, QuietInv(S), NEW w \in Workers, DeleteRows(w)
  PROVE  QuietInv(S)'
<1> DEFINE gone == RowsOf(job[w].client)
<1>1. job[w].at = "delete" /\ job[w].ips = {ip[e] : e \in gone} /\ gone \in SUBSET Rows
  BY DEF DeleteRows, QuietInv, LeavingOK, RowsOf
<1>2. ip' = [e \in Devices |-> IF e \in gone THEN NoRow ELSE ip[e]]
  BY DEF DeleteRows, RowsOf, Rows
<1>3. /\ job' = [job EXCEPT ![w] = [at |-> "release", ips |-> job[w].ips]]
      /\ UNCHANGED <<subnet, made, up, poolVars>>
  BY DEF DeleteRows
<1> HIDE DEF gone
<1>4. QED
  BY <1>1, <1>2, <1>3, RowsGoKeeps

LEMMA ReleaseKeeps ==
  ASSUME NEW S \in Subnets, QuietInv(S), NEW w \in Workers, NEW a \in GivesBack(w), ReleaseAddress(w, a)
  PROVE  QuietInv(S)'
<1> DEFINE j == [job[w] EXCEPT !.ips = @ \ {a}]
<1> USE DEF QuietInv, ReleaseAddress
<1>1. /\ job[w].at = "release" /\ a \in job[w].ips /\ Usable(S, a) /\ a - Base(S) \in pool.used
      /\ a \in Nat /\ up
  BY DEF LeavingOK, Usable, Shape, Idle
<1>2. /\ job \in [Workers -> Jobs] /\ j \in Jobs /\ job' = [job EXCEPT ![w] = j]
      /\ j.at = "release" /\ j.ips = job[w].ips \ {a}
      /\ ip' = ip /\ made' = made /\ up' = up /\ subnet' = subnet /\ replaced' = replaced
      /\ Rows' = Rows
  BY <1>1, JobParts DEF Shape, dbVars, Rows
<1>3. PoolOK(S, pool') /\ pool'.used = pool.used \ {a - Base(S)}
  BY <1>1, ReleaseDoes DEF Shape
<1> HIDE DEF j
<1>4. job'[w] = j /\ \A v \in Workers \ {w} : job'[v] = job[v]
  BY <1>2
<1>5. Shape(S)'
  <2>1. up'
    BY <1>1, <1>2
  <2>2. QED
    BY <2>1, <1>2, <1>3 DEF Shape
<1>6. GivesBack(w)' = GivesBack(w) \ {a} /\ \A v \in Workers \ {w} : GivesBack(v)' = GivesBack(v)
  BY <1>1, <1>2, <1>4 DEF GivesBack
<1>7. \A b \in Nat : b # a /\ b - Base(S) \in pool.used => b - Base(S) \in pool'.used
  BY <1>1, <1>3, AddressesAssumption DEF Base
<1>8. \A d \in Rows : ip[d] # a
  BY <1>1 DEF LeavingOK
<1>9. \A v \in Workers : job[v].at = "insert" => job[v].ip # a
  BY DEF InsertsOK
<1>10. RowsOK(S)'
  BY <1>2, <1>7, <1>8 DEF RowsOK, Usable
<1>11. InsertsOK(S)'
  BY <1>2, <1>4, <1>6, <1>7, <1>9 DEF InsertsOK, Usable
<1>12. LeavingOK(S)'
  <2>1. \A v \in Workers : job'[v].at = "release" =>
          \A b \in job'[v].ips : b # a /\ job[v].at = "release" /\ b \in job[v].ips
    BY <1>1, <1>2, <1>4 DEF LeavingOK, GivesBack
  <2>2. \A c : RowsOf(c)' = RowsOf(c)
    BY <1>2 DEF RowsOf
  <2>3. \A u, v \in Workers : GivesBack(u)' \cap GivesBack(v)' # {} => u = v
    BY <1>6 DEF LeavingOK
  <2>4. QED
    BY <2>1, <2>2, <2>3, <1>2, <1>4, <1>7 DEF LeavingOK, Usable
<1>13. UseOK(S)'
  <2>1. \A off \in pool'.used : off \in pool.used /\ Base(S) + off # a
    BY <1>1, <1>3, AddressesAssumption DEF Base, PoolOK, Shape
  <2>2. QED
    BY <2>1, <1>1, <1>2, <1>4, <1>6 DEF UseOK
<1>14. QED
  BY <1>5, <1>10, <1>11, <1>12, <1>13
LEMMA CrashKeeps ==
  ASSUME NEW S \in Subnets, QuietInv(S), Crash
  PROVE  QuietInv(S)'
<1> USE DEF QuietInv, Crash
<1>1. /\ ip' = ip /\ made' = made /\ subnet' = subnet /\ replaced' = replaced /\ pool' = pool
      /\ Rows' = Rows /\ up' = FALSE /\ job' = [w \in Workers |-> Idle]
  BY DEF dbVars, poolVars, Rows
<1>2. \A w \in Workers : job'[w].at = "idle" /\ GivesBack(w)' = {}
  BY <1>1 DEF Idle, GivesBack
<1>3. Shape(S)'
  BY <1>1, IdleIsAJob DEF Shape
<1>4. RowsOK(S)' /\ UseOK(S)'
  BY <1>1 DEF RowsOK, UseOK
<1>5. InsertsOK(S)' /\ LeavingOK(S)'
  BY <1>2 DEF InsertsOK, LeavingOK
<1>6. QED
  BY <1>3, <1>4, <1>5

\* The allocator the panel builds has every row's address in use, and no other.
LEMMA StartKeeps ==
  ASSUME NEW S \in Subnets, QuietInv(S), Start
  PROVE  QuietInv(S)'
<1> DEFINE held == {ip[d] : d \in Rows}
<1> USE DEF QuietInv, Start
<1>1. /\ ip' = ip /\ made' = made /\ subnet' = subnet /\ replaced' = 0 /\ Rows' = Rows
      /\ up' = TRUE /\ job' = job /\ job = [w \in Workers |-> Idle]
      /\ pool' = LoadPools(S, held)
  BY DEF dbVars, Rows, Shape
<1>2. \A w \in Workers : job'[w].at = "idle" /\ GivesBack(w)' = {}
  BY <1>1 DEF Idle, GivesBack
<1>3. pool'.used = Kept(S) \cup {a - Base(S) : a \in held}
  BY <1>1 DEF LoadPools, Base
<1>4. {a - Base(S) : a \in held} \subseteq 0..(S.size - 1)
  BY AddressesAssumption DEF RowsOK, Usable, Fits, Base
<1>5. Kept(S) \subseteq 0..(S.size - 1)
  BY AddressesAssumption DEF Kept
<1>6. PoolOK(S, pool')
  BY <1>1, <1>3, <1>4, <1>5 DEF PoolOK, LoadPools, Base
<1> HIDE DEF held
<1>7. Shape(S)'
  BY <1>1, <1>6 DEF Shape
<1>8. RowsOK(S)'
  BY <1>1, <1>3 DEF RowsOK, held
<1>9. InsertsOK(S)' /\ LeavingOK(S)'
  BY <1>2 DEF InsertsOK, LeavingOK
<1>10. UseOK(S)'
  <2> SUFFICES ASSUME NEW off \in pool'.used \ Kept(S)
               PROVE  \E d \in Rows : ip[d] = Base(S) + off
    BY <1>1 DEF UseOK
  <2>1. PICK d \in Rows : off = ip[d] - Base(S)
    BY <1>3 DEF held
  <2>2. ip[d] \in Nat /\ Base(S) \in Nat
    BY AddressesAssumption DEF RowsOK, Usable, Base
  <2>3. QED
    BY <2>1, <2>2
<1>11. QED
  BY <1>7, <1>8, <1>9, <1>10

-----------------------------------------------------------------------------
(* The tunnel moves. Nothing else is under way, so what the allocator has  *)
(* in use is known exactly: while it follows, all but what is left to be   *)
(* put in.                                                                 *)

\* Addresses a for the rows are ones S has to give, each row's its own.
RowsFit(S, a) ==
    /\ \A d \in Rows : Usable(S, a[d])
    /\ \A d, e \in Rows : a[d] = a[e] => d = e

\* The rows' addresses, but for those left, are in use, and no others.
InStep(S, left) ==
    pool.used = Kept(S) \cup {ip[d] - Base(S) : d \in {e \in Rows : ip[e] \notin left}}

Draws == [at : {"move"}, to : Subnets, moved : [Rows -> Nat]]
Follows(S) == [at : {"pool"}, to : {S}, moved : {[d \in Rows |-> ip[d]]}]
Replays == [at : {"replay"}, ips : SUBSET {ip[d] : d \in Rows}]

MoveInv(S, w) ==
    /\ up /\ subnet = S /\ replaced \in Nat
    /\ ip \in [Devices -> Nat \cup {NoRow}] /\ Rows \subseteq made
    /\ RowsFit(S, ip)
    /\ job = [v \in Workers |-> IF v = w THEN job[w] ELSE Idle]
    /\ \/ /\ job[w] \in Draws /\ RowsFit(job[w].to, job[w].moved)
          /\ PoolOK(S, pool) /\ InStep(S, {})
       \/ job[w] \in Follows(S)
       \/ /\ job[w] \in Replays
          /\ PoolOK(S, pool) /\ InStep(S, job[w].ips)

AddressesInv ==
    \E S \in Subnets : QuietInv(S) \/ \E w \in Workers : MoveInv(S, w)

\* What the nth row is drawn fits, and no two rows are drawn the same.
LEMMA Drawn ==
  ASSUME NEW S \in Subnets, Rows \subseteq Devices, Cardinality(Rows) <= S.size - 3
  PROVE  /\ \A d \in Rows : Usable(S, NthFree(S, d))
         /\ \A d, e \in Rows : NthFree(S, d) = NthFree(S, e) => d = e
<1> DEFINE Below(d) == {e \in Rows : e < d}
<1>1. IsFiniteSet(Rows) /\ Rows \subseteq Nat /\ S.base \in Nat /\ S.size \in Nat
  BY AddressesAssumption, FS_Subset
<1>2. \A d \in Rows : IsFiniteSet(Below(d)) /\ Cardinality(Below(d)) \in Nat
  BY <1>1, FS_Subset, FS_CardinalityType
<1>3. \A d, e \in Rows : e \in Below(d) <=> e < d
  OBVIOUS
<1>4. \A d \in Rows : Below(d) \in SUBSET Rows
  OBVIOUS
<1>5. \A d \in Rows : NthFree(S, d) = S.base + 2 + Cardinality(Below(d))
  BY DEF NthFree
<1> HIDE DEF Below
<1>6. ASSUME NEW T \in SUBSET Rows, NEW d \in Rows, Below(d) \subseteq T, d \in T
      PROVE  Cardinality(Below(d)) < Cardinality(T)
  <2>1. d \in Nat /\ ~(d < d)
    BY <1>1
  <2>2. IsFiniteSet(T) /\ d \notin Below(d)
    BY <2>1, <1>1, <1>3, FS_Subset
  <2>3. Cardinality(Below(d) \cup {d}) = Cardinality(Below(d)) + 1
    BY <2>2, <1>2, FS_AddElement
  <2>4. Below(d) \cup {d} \subseteq T
    BY <1>6
  <2>5. Cardinality(Below(d) \cup {d}) <= Cardinality(T) /\ Cardinality(T) \in Nat
    BY <2>2, <2>4, FS_Subset, FS_CardinalityType
  <2>6. QED
    BY <2>3, <2>5, <1>2
<1>7. \A d \in Rows : Cardinality(Below(d)) < Cardinality(Rows)
  BY <1>4, <1>6
<1>8. \A d, e \in Rows : d < e => Cardinality(Below(d)) < Cardinality(Below(e))
  <2> SUFFICES ASSUME NEW d \in Rows, NEW e \in Rows, d < e
               PROVE  Cardinality(Below(d)) < Cardinality(Below(e))
    OBVIOUS
  <2>1. \A f \in Rows : f < d => f < e
    BY <1>1
  <2>2. Below(d) \subseteq Below(e) /\ d \in Below(e) /\ Below(e) \in SUBSET Rows
    BY <2>1, <1>3, <1>4
  <2>3. QED
    BY <2>2, <1>6
<1>9. Cardinality(Rows) \in Nat
  BY <1>1, FS_CardinalityType
<1>10. ASSUME NEW d \in Rows PROVE Usable(S, NthFree(S, d))
  BY <1>1, <1>2, <1>5, <1>7, <1>9 DEF Usable, Fits, Kept, Base
<1>11. ASSUME NEW d \in Rows, NEW e \in Rows, NthFree(S, d) = NthFree(S, e) PROVE d = e
  <2>1. Cardinality(Below(d)) = Cardinality(Below(e))
    BY <1>1, <1>2, <1>5, <1>11
  <2>2. d \in Nat /\ e \in Nat
    BY <1>1
  <2>3. QED
    BY <2>1, <2>2, <1>2, <1>8
<1>12. QED
  BY <1>10, <1>11

\* While the tunnel moves, no other request begins or goes on.
LEMMA NothingBegins ==
  ASSUME Allowed \subseteq {"move"}, NEW S \in Subnets, NEW w \in Workers, MoveInv(S, w)
  PROVE  /\ job[w].at \in {"move", "pool", "replay"}
         /\ \A v \in Workers : v # w => job[v] = Idle /\ job[v].at = "idle"
         /\ \A v \in Workers : ~MayBegin(v) /\ ~Add(v) /\ ~Remove(v)
         /\ \A v \in Workers, s \in Subnets : ~LoadMove(v, s)
<1>1. job[w].at \in {"move", "pool", "replay"}
  BY DEF MoveInv, Draws, Follows, Replays
<1>2. \A v \in Workers : v # w => job[v] = Idle /\ job[v].at = "idle"
  BY DEF MoveInv, Idle
<1>3. \A v \in Workers : ~MayBegin(v)
  BY <1>1 DEF MayBegin, Moving
<1>4. \A v \in Workers :
        job[v].at \notin {"insert", "remove", "delete", "release"} /\ GivesBack(v) = {}
  BY <1>1, <1>2 DEF GivesBack
<1>5. \A v \in Workers : ~Add(v)
  BY <1>3, <1>4 DEF Add, InsertRow, InsertFails, ReserveAddress
<1>6. \A v \in Workers : ~Remove(v)
  BY <1>3, <1>4 DEF Remove, LoadDevice, LoadClient, DeleteRow, DeleteRows, DeleteFails, Released
<1>7. \A v \in Workers, s \in Subnets : ~LoadMove(v, s)
  BY <1>3 DEF LoadMove
<1>8. QED
  BY <1>1, <1>2, <1>3, <1>5, <1>6, <1>7

\* A move begins: with every other request idle, the allocator is in step.
LEMMA LoadMoveKeeps ==
  ASSUME Allowed \subseteq {"move"}, NEW S \in Subnets, QuietInv(S), NEW w \in Workers,
         NEW s \in Subnets, LoadMove(w, s)
  PROVE  MoveInv(S, w)'
<1> DEFINE j == [at |-> "move", to |-> s, moved |-> [d \in Rows |-> NthFree(s, d)]]
<1> USE DEF LoadMove
<1>1. /\ ip' = ip /\ made' = made /\ subnet' = subnet /\ replaced' = replaced /\ pool' = pool
      /\ Rows' = Rows /\ up /\ up' = up
  BY DEF dbVars, poolVars, Rows, MayBegin
<1>2. \A v \in Workers : job[v] = Idle /\ job[v].at = "idle" /\ GivesBack(v) = {}
  BY DEF Idle, GivesBack
<1>3. Shape(S) /\ RowsOK(S) /\ UseOK(S) /\ PoolOK(S, pool) /\ Rows \subseteq Devices
  BY <1>1, Known DEF QuietInv, Shape
<1>4. RowsFit(S, ip)
  BY <1>3 DEF RowsOK, RowsFit
<1>5. InStep(S, {})
  <2> DEFINE offs == {ip[d] - Base(S) : d \in Rows}
  <2>1. \A d \in Rows : ip[d] - Base(S) \in pool.used
    BY <1>1, <1>3 DEF RowsOK
  <2>2. Kept(S) \subseteq pool.used /\ pool.used \subseteq Int /\ Base(S) \in Nat
    BY <1>3, AddressesAssumption DEF PoolOK, Base
  <2>3. \A off \in pool.used \ Kept(S) : \E d \in Rows : ip[d] = Base(S) + off
    BY <1>1, <1>2, <1>3 DEF UseOK
  <2>4. \A off \in pool.used \ Kept(S) : off \in offs
    BY <2>2, <2>3
  <2>5. pool.used = Kept(S) \cup offs
    BY <2>1, <2>2, <2>4
  <2>6. {e \in Rows : ip[e] \notin {}} = Rows
    OBVIOUS
  <2>7. QED
    BY <2>5, <2>6 DEF InStep
<1>6. /\ \A d \in Rows : Usable(s, NthFree(s, d))
      /\ \A d, e \in Rows : NthFree(s, d) = NthFree(s, e) => d = e
  BY <1>3, Drawn
<1>7. j \in Draws /\ RowsFit(j.to, j.moved)
  BY <1>6 DEF Draws, RowsFit, Usable
<1>8. /\ job \in [Workers -> Jobs] /\ job' = [job EXCEPT ![w] = j]
  BY <1>3 DEF Shape
<1> HIDE DEF j
<1>9. job'[w] = j /\ job' = [v \in Workers |-> IF v = w THEN job'[w] ELSE Idle]
  BY <1>2, <1>8
<1>10. RowsFit(S, ip)'
  BY <1>1, <1>4 DEF RowsFit
<1>11. InStep(S, {})'
  BY <1>1, <1>5 DEF InStep
<1>12. (job[w] \in Draws /\ RowsFit(job[w].to, job[w].moved))'
  BY <1>1, <1>7, <1>9 DEF RowsFit, Draws
<1>13. PoolOK(S, pool)' /\ (ip \in [Devices -> Nat \cup {NoRow}])' /\ (Rows \subseteq made)'
  BY <1>1, <1>3 DEF Shape
<1>14. up' /\ subnet' = S /\ replaced' \in Nat
  BY <1>1, <1>3 DEF Shape
<1>15. QED
  BY <1>9, <1>10, <1>11, <1>12, <1>13, <1>14 DEF MoveInv

\* The rows move: what was drawn for them is what they hold.
LEMMA MoveRowsKeeps ==
  ASSUME Allowed \subseteq {"move"}, NEW S \in Subnets, NEW w \in Workers, MoveInv(S, w),
         MoveRows(w)
  PROVE  \E T \in Subnets : MoveInv(T, w)'
<1> DEFINE moved == job[w].moved
<1> DEFINE j == [job[w] EXCEPT !.at = "pool"]
<1>1. job[w].at = "move" /\ job[w] \in Draws /\ RowsFit(job[w].to, moved)
  BY DEF MoveRows, MoveInv, Follows, Replays
<1>2. PICK to \in Subnets : to = job[w].to
  BY <1>1 DEF Draws
<1>3. moved \in [Rows -> Nat] /\ DOMAIN moved = Rows
  BY <1>1 DEF Draws
<1>4. /\ ip' = [d \in Devices |-> IF d \in Rows THEN moved[d] ELSE ip[d]]
      /\ subnet' = to /\ up' = up /\ made' = made /\ replaced' = replaced
  BY <1>2, <1>3 DEF MoveRows, poolVars
<1>5. /\ ip \in [Devices -> Nat \cup {NoRow}] /\ Rows \subseteq made /\ up /\ replaced \in Nat
  BY DEF MoveInv
<1>6. /\ job' = [job EXCEPT ![w].at = "pool"]
      /\ job = [v \in Workers |-> IF v = w THEN job[w] ELSE Idle]
  BY DEF MoveRows, MoveInv
<1>7. j = [at |-> "pool", to |-> to, moved |-> moved]
  BY <1>1, <1>2 DEF Draws
<1>8. job'[w] = j /\ job' = [v \in Workers |-> IF v = w THEN job'[w] ELSE Idle]
  BY <1>6
<1> HIDE DEF moved, j
<1>9. Rows \subseteq Devices /\ \A d \in Rows : moved[d] \in Nat /\ ip'[d] = moved[d]
  BY <1>3, <1>4 DEF Rows
<1>10. Rows' = Rows
  BY <1>4, <1>9 DEF Rows, NoRow
<1>11. ip' \in [Devices -> Nat \cup {NoRow}]
  BY <1>4, <1>5, <1>9
<1>12. RowsFit(to, ip)'
  BY <1>1, <1>2, <1>9, <1>10 DEF RowsFit
<1>13. moved = [d \in Rows |-> ip'[d]]
  BY <1>3, <1>9
<1>14. (job[w] \in Follows(to))'
  BY <1>7, <1>8, <1>10, <1>13 DEF Follows
<1>15. MoveInv(to, w)'
  BY <1>4, <1>5, <1>8, <1>10, <1>11, <1>12, <1>14 DEF MoveInv
<1>16. QED
  BY <1>15

\* The fresh allocator has nothing in use: all the rows' addresses are left.
LEMMA ReplacePoolKeeps ==
  ASSUME Allowed \subseteq {"move"}, NEW S \in Subnets, NEW w \in Workers, MoveInv(S, w),
         ReplacePool(w)
  PROVE  MoveInv(S, w)'
<1> DEFINE held == {ip[d] : d \in Rows}
<1>1. job[w].at = "pool" /\ job[w] \in Follows(S)
  BY DEF ReplacePool, MoveInv, Draws, Replays
<1>2. job[w].to = S /\ job[w].moved = [d \in Rows |-> ip[d]]
  BY <1>1 DEF Follows
<1>3. {job[w].moved[d] : d \in DOMAIN job[w].moved} = held
  BY <1>2
<1>4. /\ pool' = New(S) /\ replaced' = replaced + 1
      /\ job' = [job EXCEPT ![w] = [at |-> "replay", ips |-> held]]
      /\ ip' = ip /\ made' = made /\ subnet' = subnet /\ up' = up /\ Rows' = Rows
  BY <1>2, <1>3 DEF ReplacePool, dbVars, Rows
<1>5. /\ job = [v \in Workers |-> IF v = w THEN job[w] ELSE Idle]
      /\ replaced \in Nat /\ up /\ subnet = S /\ RowsFit(S, ip)
      /\ ip \in [Devices -> Nat \cup {NoRow}] /\ Rows \subseteq made
  BY DEF MoveInv
<1>6. /\ job'[w] = [at |-> "replay", ips |-> held]
      /\ job' = [v \in Workers |-> IF v = w THEN job'[w] ELSE Idle]
  BY <1>4, <1>5
<1>7. (job[w] \in Replays)'
  BY <1>4, <1>6 DEF Replays
<1>8. PoolOK(S, pool)'
  BY <1>4, AddressesAssumption DEF PoolOK, New, Kept
<1>9. InStep(S, job[w].ips)'
  <2>1. job'[w].ips = held
    BY <1>6
  <2>2. {e \in Rows : ip[e] \notin held} = {}
    OBVIOUS
  <2>3. pool'.used = Kept(S)
    BY <1>4 DEF New
  <2> HIDE DEF held
  <2>4. QED
    BY <2>1, <2>2, <2>3, <1>4 DEF InStep
<1>10. RowsFit(S, ip)'
  BY <1>4, <1>5 DEF RowsFit
<1>11. up' /\ subnet' = S /\ replaced' \in Nat /\ (ip \in [Devices -> Nat \cup {NoRow}])'
       /\ (Rows \subseteq made)'
  BY <1>4, <1>5
<1>12. QED
  BY <1>6, <1>7, <1>8, <1>9, <1>10, <1>11 DEF MoveInv

\* One row's address is put in: it was free, so the allocator takes it.
LEMMA ReplayKeeps ==
  ASSUME Allowed \subseteq {"move"}, NEW S \in Subnets, NEW w \in Workers, MoveInv(S, w),
         job[w].at = "replay", NEW a \in job[w].ips, ReplayAddress(w, a)
  PROVE  MoveInv(S, w)'
<1> DEFINE left == job[w].ips
<1>1. job[w] \in Replays /\ PoolOK(S, pool) /\ InStep(S, left)
  BY DEF MoveInv, Draws, Follows
<1>2. /\ job = [v \in Workers |-> IF v = w THEN job[w] ELSE Idle]
      /\ replaced \in Nat /\ up /\ subnet = S /\ RowsFit(S, ip)
      /\ ip \in [Devices -> Nat \cup {NoRow}] /\ Rows \subseteq made
  BY DEF MoveInv
<1>3. /\ pool' = Reserve(pool, a) /\ replaced' = replaced
      /\ job' = [job EXCEPT ![w].ips = @ \ {a}]
      /\ ip' = ip /\ made' = made /\ subnet' = subnet /\ up' = up /\ Rows' = Rows
  BY DEF ReplayAddress, dbVars, Rows
<1>4. job[w] = [at |-> "replay", ips |-> left] /\ left \subseteq {ip[d] : d \in Rows}
  BY <1>1 DEF Replays
<1>5. /\ job'[w] = [at |-> "replay", ips |-> left \ {a}]
      /\ job' = [v \in Workers |-> IF v = w THEN job'[w] ELSE Idle]
  BY <1>2, <1>3, <1>4
<1>6. PICK d \in Rows : ip[d] = a
  BY <1>4
<1> HIDE DEF left
<1>7. Usable(S, a) /\ a - Base(S) \in Int /\ Base(S) \in Nat /\ a \in Nat
  BY <1>2, <1>6, AddressesAssumption DEF RowsFit, Usable, Base
<1>8. \A e \in Rows : ip[e] \in Nat /\ (ip[e] - Base(S) = a - Base(S) => e = d)
  BY <1>2, <1>6, <1>7 DEF RowsFit, Usable
<1>9. a - Base(S) \notin pool.used
  <2>1. a - Base(S) \notin Kept(S)
    BY <1>7 DEF Usable
  <2>2. d \notin {e \in Rows : ip[e] \notin left}
    BY <1>6 DEF left
  <2>3. QED
    BY <2>1, <2>2, <1>1, <1>8 DEF InStep
<1>10. PoolOK(S, pool)' /\ pool'.used = pool.used \cup {a - Base(S)}
  BY <1>1, <1>3, <1>7, <1>9, ReserveDoes
<1>11. InStep(S, job[w].ips)'
  <2>1. {e \in Rows : ip[e] \notin left \ {a}} = {e \in Rows : ip[e] \notin left} \cup {d}
    BY <1>2, <1>6 DEF RowsFit
  <2>2. job'[w].ips = left \ {a}
    BY <1>5
  <2>3. pool'.used = Kept(S) \cup {ip[e] - Base(S) : e \in {f \in Rows : ip[f] \notin left \ {a}}}
    BY <2>1, <1>1, <1>6, <1>10 DEF InStep
  <2>4. QED
    BY <2>2, <2>3, <1>3 DEF InStep
<1>12. (job[w] \in Replays)'
  BY <1>3, <1>4, <1>5 DEF Replays
<1>13. RowsFit(S, ip)'
  BY <1>2, <1>3 DEF RowsFit
<1>14. up' /\ subnet' = S /\ replaced' \in Nat /\ (ip \in [Devices -> Nat \cup {NoRow}])'
       /\ (Rows \subseteq made)'
  BY <1>2, <1>3
<1>15. QED
  BY <1>5, <1>10, <1>11, <1>12, <1>13, <1>14 DEF MoveInv

\* A move ends, whether it came to anything or not, with the allocator in step.
LEMMA MoveEnds ==
  ASSUME Allowed \subseteq {"move"}, NEW S \in Subnets, NEW w \in Workers, MoveInv(S, w),
         PoolOK(S, pool), InStep(S, {}), UNCHANGED <<dbVars, up, poolVars>>, Ends(w)
  PROVE  QuietInv(S)'
<1>1. /\ ip' = ip /\ made' = made /\ subnet' = subnet /\ up' = up /\ pool' = pool
      /\ replaced' = replaced /\ Rows' = Rows /\ job' = [job EXCEPT ![w] = Idle]
  BY DEF dbVars, poolVars, Rows, Ends
<1>2. /\ job = [v \in Workers |-> IF v = w THEN job[w] ELSE Idle]
      /\ replaced \in Nat /\ up /\ subnet = S /\ RowsFit(S, ip)
      /\ ip \in [Devices -> Nat \cup {NoRow}] /\ Rows \subseteq made
  BY DEF MoveInv
<1>3. job' = [v \in Workers |-> Idle]
  BY <1>1, <1>2
<1>4. \A v \in Workers : job'[v].at = "idle" /\ GivesBack(v)' = {}
  BY <1>3 DEF Idle, GivesBack
<1>5. Shape(S)'
  BY <1>1, <1>2, <1>3, IdleIsAJob DEF Shape
<1>6. {e \in Rows : ip[e] \notin {}} = Rows
  OBVIOUS
<1>7. pool.used = Kept(S) \cup {ip[d] - Base(S) : d \in Rows}
  BY <1>6 DEF InStep
<1>8. RowsOK(S)'
  BY <1>1, <1>2, <1>7 DEF RowsOK, RowsFit
<1>9. InsertsOK(S)' /\ LeavingOK(S)'
  BY <1>4 DEF InsertsOK, LeavingOK
<1>10. UseOK(S)'
  <2> SUFFICES ASSUME NEW off \in pool.used \ Kept(S)
               PROVE  \E d \in Rows : ip[d] = Base(S) + off
    BY <1>1 DEF UseOK
  <2>1. PICK d \in Rows : off = ip[d] - Base(S)
    BY <1>7
  <2>2. ip[d] \in Nat /\ Base(S) \in Nat
    BY <1>2, AddressesAssumption DEF RowsFit, Usable, Base
  <2>3. QED
    BY <2>1, <2>2
<1>11. QED
  BY <1>5, <1>8, <1>9, <1>10 DEF QuietInv

\* The panel dies while the tunnel moves: the rows are of one subnet or of the
\* other, and it is the row of the tunnel that says which.
LEMMA CrashInMove ==
  ASSUME NEW S \in Subnets, NEW w \in Workers, MoveInv(S, w), Crash
  PROVE  QuietInv(S)'
<1>1. /\ ip' = ip /\ made' = made /\ subnet' = subnet /\ replaced' = replaced
      /\ Rows' = Rows /\ up' = FALSE /\ job' = [v \in Workers |-> Idle]
  BY DEF Crash, dbVars, poolVars, Rows
<1>2. \A v \in Workers : job'[v].at = "idle" /\ GivesBack(v)' = {}
  BY <1>1 DEF Idle, GivesBack
<1>3. Shape(S)'
  BY <1>1, IdleIsAJob DEF Shape, MoveInv
<1>4. RowsOK(S)' /\ UseOK(S)'
  BY <1>1 DEF RowsOK, UseOK, MoveInv, RowsFit
<1>5. InsertsOK(S)' /\ LeavingOK(S)'
  BY <1>2 DEF InsertsOK, LeavingOK
<1>6. QED
  BY <1>3, <1>4, <1>5 DEF QuietInv

-----------------------------------------------------------------------------
(* All steps together.                                                     *)

LEMMA AddressesInit == Init => AddressesInv
BY QuietInit, AddressesAssumption DEF AddressesInv

LEMMA QuietStep ==
  ASSUME Allowed \subseteq {"move"}, NEW S \in Subnets, QuietInv(S), Next
  PROVE  AddressesInv'
<1>1. CASE Crash
  BY <1>1, CrashKeeps DEF AddressesInv
<1>2. CASE Start
  BY <1>2, StartKeeps DEF AddressesInv
<1>3. ASSUME NEW w \in Workers, Add(w) PROVE QuietInv(S)'
  BY <1>3, ReserveKeeps, InsertKeeps, InsertFailsKeeps DEF Add
<1>4. ASSUME NEW w \in Workers, Remove(w) PROVE QuietInv(S)'
  BY <1>4, LoadDeviceKeeps, LoadClientKeeps, DeleteRowKeeps, DeleteRowsKeeps,
     DeleteFailsKeeps, ReleaseKeeps, ReleasedKeeps DEF Remove
<1>5. ASSUME NEW w \in Workers, Move(w) PROVE MoveInv(S, w)'
  <2>1. job[w].at \in {"idle", "insert", "remove", "delete", "release"}
    BY Known DEF QuietInv
  <2>2. PICK s \in Subnets : LoadMove(w, s)
    BY <1>5, <2>1 DEF Move, MoveRows, MoveFails, ReplacePool, Replayed
  <2>3. QED
    BY <2>2, LoadMoveKeeps
<1>6. QED
  BY <1>1, <1>2, <1>3, <1>4, <1>5 DEF Next, AddressesInv

LEMMA MoveStep ==
  ASSUME Allowed \subseteq {"move"}, NEW S \in Subnets, NEW w \in Workers, MoveInv(S, w), Next
  PROVE  AddressesInv'
<1>1. CASE Crash
  BY <1>1, CrashInMove DEF AddressesInv
<1>2. ~Start
  BY DEF Start, MoveInv
<1>3. ASSUME NEW v \in Workers, Move(v) PROVE AddressesInv'
  <2>1. v = w
    BY <1>3, NothingBegins DEF Move, MoveRows, MoveFails, ReplacePool, Replayed
  <2>2. CASE MoveRows(w)
    BY <2>2, MoveRowsKeeps DEF AddressesInv
  <2>3. CASE MoveFails(w)
    <3>1. /\ job[w].at = "move" /\ UNCHANGED <<dbVars, up, poolVars>> /\ Ends(w)
      BY <2>3 DEF MoveFails
    <3>2. PoolOK(S, pool) /\ InStep(S, {})
      BY <3>1 DEF MoveInv, Follows, Replays
    <3>3. QED
      BY <3>1, <3>2, MoveEnds DEF AddressesInv
  <2>4. CASE ReplacePool(w)
    BY <2>4, ReplacePoolKeeps DEF AddressesInv
  <2>5. CASE Replayed(w)
    <3>1. /\ job[w].at = "replay" /\ job[w].ips = {} /\ UNCHANGED <<dbVars, up, poolVars>>
          /\ Ends(w)
      BY <2>5 DEF Replayed
    <3>2. PoolOK(S, pool) /\ InStep(S, {})
      BY <3>1 DEF MoveInv, Follows, Draws
    <3>3. QED
      BY <3>1, <3>2, MoveEnds DEF AddressesInv
  <2>6. CASE job[w].at = "replay" /\ \E a \in job[w].ips : ReplayAddress(w, a)
    BY <2>6, ReplayKeeps DEF AddressesInv
  <2>7. ~\E s \in Subnets : LoadMove(w, s)
    BY NothingBegins
  <2>8. QED
    BY <1>3, <2>1, <2>2, <2>3, <2>4, <2>5, <2>6, <2>7 DEF Move
<1>4. QED
  BY <1>1, <1>2, <1>3, NothingBegins DEF Next

LEMMA AddressesStep ==
  ASSUME Allowed \subseteq {"move"}, AddressesInv, [Next]_vars
  PROVE  AddressesInv'
<1>1. CASE Next
  BY <1>1, QuietStep, MoveStep DEF AddressesInv
<1>2. CASE UNCHANGED vars
  <2>1. UNCHANGED <<subnet, ip, made, up, pool, replaced, job>>
    BY <1>2 DEF vars, dbVars, poolVars
  <2>2. /\ Rows' = Rows /\ (\A w : GivesBack(w)' = GivesBack(w)) /\ \A c : RowsOf(c)' = RowsOf(c)
    BY <2>1 DEF Rows, GivesBack, RowsOf
  <2>3. ASSUME NEW S \in Subnets, QuietInv(S) PROVE QuietInv(S)'
    BY <2>1, <2>2, <2>3 DEF QuietInv, Shape, RowsOK, InsertsOK, LeavingOK, UseOK
  <2>4. ASSUME NEW S \in Subnets, NEW w \in Workers, MoveInv(S, w) PROVE MoveInv(S, w)'
    BY <2>1, <2>2, <2>4 DEF MoveInv, RowsFit, InStep, Draws, Follows, Replays
  <2>5. QED
    BY <2>3, <2>4 DEF AddressesInv
<1>3. QED
  BY <1>1, <1>2

-----------------------------------------------------------------------------
(* The theorems.                                                           *)

LEMMA AlwaysAddressesInv == ASSUME Allowed \subseteq {"move"} PROVE Spec => []AddressesInv
BY AddressesInit, AddressesStep, PTL DEF Spec

LEMMA OffsetOfBase ==
  ASSUME NEW S \in Subnets, PoolOK(S, pool)
  PROVE  pool.subnet = S /\ \A a : Offset(a) = a - Base(S)
BY DEF PoolOK, Offset, Base

\* What a request under way leaves to be said of a tunnel that moves: the
\* allocator follows, or is in step, and no address is between the two.
LEMMA WhileMoving ==
  ASSUME NEW S \in Subnets, NEW w \in Workers, MoveInv(S, w)
  PROVE  /\ \A v \in Workers : job[v].at # "insert" /\ GivesBack(v) = {}
         /\ ~Following => PoolOK(S, pool) /\ InStep(S, {})
<1>1. job[w].at \in {"move", "pool", "replay"}
  BY DEF MoveInv, Draws, Follows, Replays
<1>2. \A v \in Workers : v # w => job[v].at = "idle"
  BY DEF MoveInv, Idle
<1>3. ~Following => job[w].at = "move"
  BY <1>1 DEF Following
<1>4. QED
  BY <1>1, <1>2, <1>3 DEF GivesBack, MoveInv, Follows, Replays

\* Whatever devices are added and removed at a time, whichever transactions
\* fail, wherever the panel's process stops and the tunnel moves, an address a
\* device holds is never free in the allocator (service/clients.go, AddDevice
\* and RemoveDevice; service/interfaces.go, readdress; cmd/wui, loadPools).
THEOREM HeldAddressesAreUsed == ASSUME Allowed \subseteq {"move"} PROVE Spec => []HeldIsUsed
<1>1. ASSUME NEW S \in Subnets, QuietInv(S) PROVE HeldIsUsed
  BY <1>1, OffsetOfBase DEF QuietInv, Shape, RowsOK, HeldIsUsed
<1>2. ASSUME NEW S \in Subnets, NEW w \in Workers, MoveInv(S, w) PROVE HeldIsUsed
  <2> SUFFICES ASSUME ~Following, NEW d \in Rows PROVE Offset(ip[d]) \in pool.used
    BY DEF HeldIsUsed
  <2>1. PoolOK(S, pool) /\ InStep(S, {})
    BY <1>2, WhileMoving
  <2>2. Offset(ip[d]) = ip[d] - Base(S)
    BY <2>1, OffsetOfBase
  <2>3. QED
    BY <2>1, <2>2 DEF InStep
<1>3. AddressesInv => HeldIsUsed
  BY <1>1, <1>2 DEF AddressesInv
<1>4. QED
  BY <1>3, AlwaysAddressesInv, PTL

\* No address is lost to the pool: a request that fails, or a customer who is
\* deleted, gives back what they had (service/clients.go, the releases after a
\* failed transaction and after a delete), and what a move puts into the new
\* allocator is what the rows hold (service/interfaces.go, readdress).
THEOREM NoAddressIsLost == ASSUME Allowed \subseteq {"move"} PROVE Spec => []UsedIsHeld
<1>1. ASSUME NEW S \in Subnets, QuietInv(S) PROVE UsedIsHeld
  <2> SUFFICES ASSUME up, NEW off \in pool.used \ Kept(pool.subnet)
               PROVE  \/ \E d \in Rows : Offset(ip[d]) = off
                      \/ \E w \in Workers : job[w].at = "insert" /\ Offset(job[w].ip) = off
                      \/ \E w \in Workers : \E a \in GivesBack(w) : Offset(a) = off
    BY DEF UsedIsHeld
  <2>1. PoolOK(S, pool) /\ pool.subnet = S /\ \A a : Offset(a) = a - Base(S)
    BY <1>1, OffsetOfBase DEF QuietInv, Shape
  <2>2. off \in Int /\ Base(S) \in Nat /\ (Base(S) + off) - Base(S) = off
    BY <2>1, AddressesAssumption DEF PoolOK, Base
  <2>3. QED
    BY <1>1, <2>1, <2>2 DEF QuietInv, UseOK
<1>2. ASSUME NEW S \in Subnets, NEW w \in Workers, MoveInv(S, w) PROVE UsedIsHeld
  <2> SUFFICES ASSUME ~Following, NEW off \in pool.used \ Kept(pool.subnet)
               PROVE  \E d \in Rows : Offset(ip[d]) = off
    BY DEF UsedIsHeld
  <2>1. PoolOK(S, pool) /\ InStep(S, {})
    BY <1>2, WhileMoving
  <2>2. pool.subnet = S /\ \A a : Offset(a) = a - Base(S)
    BY <2>1, OffsetOfBase
  <2>3. QED
    BY <2>1, <2>2 DEF InStep
<1>3. AddressesInv => UsedIsHeld
  BY <1>1, <1>2 DEF AddressesInv
<1>4. QED
  BY <1>3, AlwaysAddressesInv, PTL

\* An address that is on its way to a row or back to the pool has one owner,
\* so neither the unique key nor the allocator decides between two
\* (service/clients.go, reserve before the transaction and release after it).
THEOREM AddressesHaveOneOwner == ASSUME Allowed \subseteq {"move"} PROVE Spec => []OneOwner
<1>1. ASSUME NEW S \in Subnets, QuietInv(S) PROVE OneOwner
  BY <1>1 DEF QuietInv, InsertsOK, LeavingOK, OneOwner
<1>2. ASSUME NEW S \in Subnets, NEW w \in Workers, MoveInv(S, w) PROVE OneOwner
  BY <1>2, WhileMoving DEF OneOwner
<1>3. AddressesInv => OneOwner
  BY <1>1, <1>2 DEF AddressesInv
<1>4. QED
  BY <1>3, AlwaysAddressesInv, PTL

\* The panel can always start again, also when it was stopped half way through a
\* move: every stored address is one its tunnel's allocator takes (cmd/wui/main.go,
\* loadPools; service/interfaces.go, readdress).
THEOREM PanelStartsAgain == ASSUME Allowed \subseteq {"move"} PROVE Spec => []StartsAgain
<1>1. ASSUME NEW S \in Subnets, QuietInv(S) PROVE StartsAgain
  BY <1>1 DEF QuietInv, Shape, RowsOK, Usable, Base, StartsAgain, StoredFits
<1>2. ASSUME NEW S \in Subnets, NEW w \in Workers, MoveInv(S, w) PROVE StartsAgain
  BY <1>2 DEF MoveInv, RowsFit, Usable, Base, StartsAgain, StoredFits
<1>3. AddressesInv => StartsAgain
  BY <1>1, <1>2 DEF AddressesInv
<1>4. QED
  BY <1>3, AlwaysAddressesInv, PTL
=============================================================================
