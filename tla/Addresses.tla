------------------------------- MODULE Addresses -------------------------------
(***************************************************************************)
(* The addresses of one tunnel: the allocator that knows in memory which   *)
(* are free (src/internal/ipam), the accounts that hold them in the        *)
(* database, and the requests that take and give them back, several at a   *)
(* time (src/internal/service).                                            *)
(*                                                                         *)
(* The database is the truth and the allocator a copy of it, built when    *)
(* the panel starts. No request holds both: an address is taken before the *)
(* row that holds it is written, and given back after the row is deleted.  *)
(*                                                                         *)
(* An operator whose name ends in _Wrong is not part of the specification: *)
(* it is the definition after it with a mistake made, for seeing that the  *)
(* properties tell the two apart.                                          *)
(***************************************************************************)
EXTENDS Integers, FiniteSets, FiniteSetsExt

CONSTANTS
    Devices,        \* the ids accounts can have, in the order they are given
    Clients,        \* the customers
    ClientOf,       \* whose device each is
    Workers,        \* requests that can run at a time
    Subnets,        \* the ranges the tunnel can be on: base address and size
    FirstSubnet,
    Allowed,        \* what else happens: a set of Happenings
    MaxMoves,       \* bound: moves of the tunnel in one run of the panel
    MaxFaults       \* bound: crashes and failed transactions

\* "move": the tunnel moves to another subnet; "astride": while other requests
\* are under way. "twice": a device is removed by two requests at a time.
\* "late": a device is added to a customer who is being deleted.
Happenings == {"move", "astride", "twice", "late"}

ASSUME AddressesAssumption ==
    /\ Devices \subseteq Nat /\ IsFiniteSet(Devices)
    /\ ClientOf \in [Devices -> Clients]
    /\ Subnets \subseteq [base : Nat, size : Nat \ (0..3)]
    /\ FirstSubnet \in Subnets
    /\ Allowed \subseteq Happenings
    /\ MaxMoves \in Nat /\ MaxFaults \in Nat

VARIABLES
    subnet,         \* the tunnel's range, in the database
    ip,             \* each device's address in the database, or NoRow
    made,           \* device ids that have been given out
    deleted,        \* customers whose row is gone
    up,             \* whether the panel runs
    pool,           \* its allocator for the tunnel
    replaced,       \* how many times the allocator was replaced in this run
    job,            \* each request: where it is and what it carries
    faults

dbVars == <<subnet, ip, made, deleted>>
poolVars == <<pool, replaced>>
vars == <<dbVars, up, poolVars, job, faults>>

NoRow == -1
Idle == [at |-> "idle"]

-----------------------------------------------------------------------------
(* The allocator. Addresses are offsets from the subnet's base.            *)

Kept(s) == {0, 1, s.size - 1}

\* New: network address, gateway and broadcast are never handed out.
New(s) == [subnet |-> s, used |-> Kept(s), cursor |-> 2]

Fits(s, a) == a >= s.base /\ a < s.base + s.size

Free(p) == (0..(p.subnet.size - 1)) \ p.used

\* The first free offset from the cursor on, or from the start of the range.
NextFree(p) ==
    LET ahead == {off \in Free(p) : off >= p.cursor}
    IN  Min(IF ahead # {} THEN ahead ELSE Free(p))

Past(p, off) == IF off + 1 >= p.subnet.size THEN 2 ELSE off + 1

Allocate(p) ==
    [p EXCEPT !.used = @ \cup {NextFree(p)}, !.cursor = Past(p, NextFree(p))]

Allocated(p) == p.subnet.base + NextFree(p)

\* An address outside the pool, or in use, changes nothing.
Reserve(p, a) ==
    LET off == a - p.subnet.base
    IN  IF Fits(p.subnet, a) /\ off \notin p.used
        THEN [p EXCEPT !.used = @ \cup {off},
                       !.cursor = IF off >= @ THEN Past(p, off) ELSE @]
        ELSE p

Release(p, a) ==
    LET off == a - p.subnet.base
    IN  IF Fits(p.subnet, a) /\ off \notin Kept(p.subnet)
        THEN [p EXCEPT !.used = @ \ {off}] ELSE p

-----------------------------------------------------------------------------
Init ==
    /\ subnet = FirstSubnet
    /\ ip = [d \in Devices |-> NoRow]
    /\ made = {} /\ deleted = {}
    /\ up = TRUE
    /\ pool = New(FirstSubnet) /\ replaced = 0
    /\ job = [w \in Workers |-> Idle]
    /\ faults = 0

Fault == faults < MaxFaults /\ faults' = faults + 1

Ends(w) == job' = [job EXCEPT ![w] = Idle]

Rows == {d \in Devices : ip[d] # NoRow}
RowsOf(c) == {d \in Rows : ClientOf[d] = c}

Adding(c) == \E w \in Workers : job[w].at = "insert" /\ ClientOf[job[w].device] = c
Deleting(c) == \E w \in Workers : job[w].at = "delete" /\ job[w].client = c

Moving == \E w \in Workers : job[w].at \in {"move", "pool", "replay"}

\* A request that is not kept apart from a move.
MayBegin(w) == up /\ job[w] = Idle /\ ("astride" \in Allowed \/ ~Moving)

\* The addresses a request will give back.
GivesBack(w) == IF job[w].at \in {"remove", "delete", "release"} THEN job[w].ips ELSE {}

-----------------------------------------------------------------------------
(* Adding a device: AddDevice, and the same steps in Create and            *)
(* setInterfaces.                                                          *)

\* reserve takes an address before the transaction opens. A full pool ends
\* the request with nothing done.
ReserveAddress(w, d) ==
    /\ MayBegin(w)
    /\ d \notin made /\ \A e \in Devices \ made : d <= e
    /\ ClientOf[d] \notin deleted
    /\ "late" \in Allowed \/ ~Deleting(ClientOf[d])
    /\ Free(pool) # {}
    /\ pool' = Allocate(pool)
    /\ made' = made \cup {d}
    /\ job' = [job EXCEPT ![w] = [at |-> "insert", device |-> d,
                                  ip |-> Allocated(pool), from |-> replaced]]
    /\ UNCHANGED <<subnet, ip, deleted, up, replaced, faults>>

\* The row's keys: one account to an address, and a customer who exists.
CanInsert(w) ==
    /\ \A d \in Rows : ip[d] # job[w].ip
    /\ ClientOf[job[w].device] \notin deleted

InsertRow(w) ==
    /\ job[w].at = "insert" /\ CanInsert(w)
    /\ ip' = [ip EXCEPT ![job[w].device] = job[w].ip]
    /\ Ends(w)
    /\ UNCHANGED <<subnet, made, deleted, up, poolVars, faults>>

\* The address goes back to the allocator it was taken from, which may have
\* been replaced since.
InsertFails(w) ==
    /\ job[w].at = "insert"
    /\ IF CanInsert(w) THEN Fault ELSE UNCHANGED faults
    /\ pool' = IF job[w].from = replaced THEN Release(pool, job[w].ip) ELSE pool
    /\ Ends(w)
    /\ UNCHANGED <<dbVars, up, replaced>>

-----------------------------------------------------------------------------
(* Removing one: RemoveDevice and Delete.                                  *)

\* RemoveDevice reads the account.
LoadDevice(w, d) ==
    /\ MayBegin(w)
    /\ d \in Rows
    /\ "twice" \in Allowed \/ \A v \in Workers : ip[d] \notin GivesBack(v)
    /\ job' = [job EXCEPT ![w] = [at |-> "remove", device |-> d, ips |-> {ip[d]}]]
    /\ UNCHANGED <<dbVars, up, poolVars, faults>>

\* Delete reads the customer and their accounts.
LoadClient(w, c) ==
    /\ MayBegin(w)
    /\ c \notin deleted
    /\ "twice" \in Allowed \/
          \A v \in Workers : GivesBack(v) \cap {ip[d] : d \in RowsOf(c)} = {} /\ ~Deleting(c)
    /\ "late" \in Allowed \/ ~Adding(c)
    /\ job' = [job EXCEPT ![w] = [at |-> "delete", client |-> c,
                                  ips |-> {ip[d] : d \in RowsOf(c)}]]
    /\ UNCHANGED <<dbVars, up, poolVars, faults>>

\* A row that is gone already is no error.
DeleteRow(w) ==
    /\ job[w].at = "remove"
    /\ ip' = [ip EXCEPT ![job[w].device] = NoRow]
    /\ job' = [job EXCEPT ![w] = [at |-> "release", ips |-> job[w].ips]]
    /\ UNCHANGED <<subnet, made, deleted, up, poolVars, faults>>

\* The accounts that go are those the customer has now.
DeleteRows(w) ==
    /\ job[w].at = "delete"
    /\ LET c == job[w].client
       IN  /\ ip' = [d \in Devices |-> IF ClientOf[d] = c THEN NoRow ELSE ip[d]]
           /\ deleted' = deleted \cup {c}
    /\ job' = [job EXCEPT ![w] = [at |-> "release", ips |-> job[w].ips]]
    /\ UNCHANGED <<subnet, made, up, poolVars, faults>>

DeleteFails(w) ==
    /\ job[w].at \in {"remove", "delete"}
    /\ Fault
    /\ Ends(w)
    /\ UNCHANGED <<dbVars, up, poolVars>>

ReleaseAddress_Wrong(w, a) ==
    /\ job[w].at = "release" /\ a \in job[w].ips
    /\ job' = [job EXCEPT ![w].ips = @ \ {a}]
    /\ UNCHANGED <<dbVars, up, poolVars, faults>>

\* The addresses that were read go back one at a time, to the allocator the
\* tunnel has now.
ReleaseAddress(w, a) ==
    /\ job[w].at = "release" /\ a \in job[w].ips
    /\ pool' = Release(pool, a)
    /\ job' = [job EXCEPT ![w].ips = @ \ {a}]
    /\ UNCHANGED <<dbVars, up, replaced, faults>>

Released(w) ==
    /\ job[w].at = "release" /\ job[w].ips = {}
    /\ Ends(w)
    /\ UNCHANGED <<dbVars, up, poolVars, faults>>

-----------------------------------------------------------------------------
(* Moving the tunnel: readdress.                                           *)

\* The nth account gets the nth address a fresh allocator hands out.
NthFree(s, d) == s.base + 2 + Cardinality({e \in Rows : e < d})

\* It reads the accounts and draws them addresses of the new range. One too
\* small for them ends the request.
LoadMove(w, s) ==
    /\ MayBegin(w)
    /\ "astride" \in Allowed \/ \A v \in Workers : job[v] = Idle
    /\ "move" \in Allowed /\ replaced < MaxMoves
    /\ s # subnet
    /\ Cardinality(Rows) <= s.size - 3
    /\ job' = [job EXCEPT ![w] = [at |-> "move", to |-> s,
                                  moved |-> [d \in Rows |-> NthFree(s, d)]]]
    /\ UNCHANGED <<dbVars, up, poolVars, faults>>

\* An account written since may hold an address one of them is to have.
CanMove(moved) ==
    \A d \in Rows \ DOMAIN moved : \A e \in Rows \cap DOMAIN moved : ip[d] # moved[e]

MoveRows_Wrong(w) ==
    /\ job[w].at = "move" /\ CanMove(job[w].moved)
    /\ subnet' = job[w].to
    /\ job' = [job EXCEPT ![w].at = "pool"]
    /\ UNCHANGED <<ip, made, deleted, up, poolVars, faults>>

MoveRows(w) ==
    /\ job[w].at = "move" /\ CanMove(job[w].moved)
    /\ LET moved == job[w].moved
       IN  ip' = [d \in Devices |-> IF d \in Rows \cap DOMAIN moved THEN moved[d] ELSE ip[d]]
    /\ subnet' = job[w].to
    /\ job' = [job EXCEPT ![w].at = "pool"]
    /\ UNCHANGED <<made, deleted, up, poolVars, faults>>

MoveFails(w) ==
    /\ job[w].at = "move"
    /\ IF CanMove(job[w].moved) THEN Fault ELSE UNCHANGED faults
    /\ Ends(w)
    /\ UNCHANGED <<dbVars, up, poolVars>>

ReplacePool_Wrong(w) ==
    /\ job[w].at = "pool"
    /\ pool' = New(job[w].to)
    /\ replaced' = replaced + 1
    /\ job' = [job EXCEPT ![w] = Idle]
    /\ UNCHANGED <<dbVars, up, faults>>

\* The pool follows once that has committed: a fresh one, and the drawn
\* addresses replayed into it one at a time.
ReplacePool(w) ==
    /\ job[w].at = "pool"
    /\ pool' = New(job[w].to)
    /\ replaced' = replaced + 1
    /\ job' = [job EXCEPT ![w] = [at |-> "replay",
                                  ips |-> {job[w].moved[d] : d \in DOMAIN job[w].moved}]]
    /\ UNCHANGED <<dbVars, up, faults>>

ReplayAddress(w, a) ==
    /\ job[w].at = "replay" /\ a \in job[w].ips
    /\ pool' = Reserve(pool, a)
    /\ job' = [job EXCEPT ![w].ips = @ \ {a}]
    /\ UNCHANGED <<dbVars, up, replaced, faults>>

Replayed(w) ==
    /\ job[w].at = "replay" /\ job[w].ips = {}
    /\ Ends(w)
    /\ UNCHANGED <<dbVars, up, poolVars, faults>>

-----------------------------------------------------------------------------
(* The panel's process.                                                    *)

Crash ==
    /\ up
    /\ Fault
    /\ up' = FALSE
    /\ job' = [w \in Workers |-> Idle]
    /\ UNCHANGED <<dbVars, poolVars>>

\* Every stored address is inside its tunnel's range, none that the tunnel keeps
\* for itself, and nobody else's.
StoredFits ==
    \A d \in Rows :
        /\ Fits(subnet, ip[d]) /\ ip[d] - subnet.base \notin Kept(subnet)
        /\ \A e \in Rows : ip[e] = ip[d] => e = d

LoadPools_Wrong(s, held) == New(s)

\* What New and a Reserve of every held address, in any order, come to.
LoadPools(s, held) ==
    LET offs == {a - s.base : a \in held}
    IN  [subnet |-> s, used |-> Kept(s) \cup offs,
         cursor |-> Max({2} \cup {off + 1 : off \in offs})]

\* loadPools: an address that Reserve refuses is an error, and the panel does not
\* start.
Start ==
    /\ ~up
    /\ StoredFits
    /\ up' = TRUE
    /\ replaced' = 0
    /\ pool' = LoadPools(subnet, {ip[d] : d \in Rows})
    /\ UNCHANGED <<dbVars, job, faults>>

Add(w) == InsertRow(w) \/ InsertFails(w) \/ \E d \in Devices : ReserveAddress(w, d)

Remove(w) ==
    \/ \E d \in Devices : LoadDevice(w, d)
    \/ \E c \in Clients : LoadClient(w, c)
    \/ DeleteRow(w) \/ DeleteRows(w) \/ DeleteFails(w) \/ Released(w)
    \/ \E a \in GivesBack(w) : ReleaseAddress(w, a)

Move(w) ==
    \/ \E s \in Subnets : LoadMove(w, s)
    \/ MoveRows(w) \/ MoveFails(w) \/ ReplacePool(w) \/ Replayed(w)
    \/ job[w].at = "replay" /\ \E a \in job[w].ips : ReplayAddress(w, a)

Next == Crash \/ Start \/ \E w \in Workers : Add(w) \/ Remove(w) \/ Move(w)

Spec == Init /\ [][Next]_vars

-----------------------------------------------------------------------------
\* Every variable has its type: the offsets in use are the subnet's own, the
\* three it keeps for itself among them, and the cursor is where an address
\* could be.
TypeOK ==
    /\ subnet \in Subnets /\ ip \in [Devices -> Nat \cup {NoRow}]
    /\ made \subseteq Devices /\ Rows \subseteq made /\ deleted \subseteq Clients
    /\ up \in BOOLEAN /\ replaced \in Nat /\ faults \in 0..MaxFaults
    /\ pool.subnet \in Subnets
    /\ pool.used \subseteq 0..(pool.subnet.size - 1)
    /\ Kept(pool.subnet) \subseteq pool.used
    /\ pool.cursor \in 2..(pool.subnet.size - 1)
    /\ \A w \in Workers :
          /\ job[w].at \in {"idle", "insert", "remove", "delete", "release",
                            "move", "pool", "replay"}
          /\ job[w].at = "insert" => job[w].device \in made /\ job[w].ip \in Nat
          /\ GivesBack(w) \subseteq Nat

\* The offset of an address in the allocator's range.
Offset(a) == a - pool.subnet.base

\* The tunnel's rows have moved and its allocator is still to follow.
Following == \E w \in Workers : job[w].at \in {"pool", "replay"}

\* An address a device holds is never free for another: the allocator is the
\* authority on which addresses are free (ipam/allocator.go, Allocator). It is
\* behind the rows only while it follows a move.
HeldIsUsed == up /\ ~Following => \A d \in Rows : Offset(ip[d]) \in pool.used

\* No address is lost to the pool: one that is in use is a device's, or a
\* request under way is to write it or to give it back (clients.go: a
\* rolled-back create cannot leak addresses; Delete returns its addresses).
UsedIsHeld ==
    up /\ ~Following => \A off \in pool.used \ Kept(pool.subnet) :
            \/ \E d \in Rows : Offset(ip[d]) = off
            \/ \E w \in Workers : job[w].at = "insert" /\ Offset(job[w].ip) = off
            \/ \E w \in Workers : \E a \in GivesBack(w) : Offset(a) = off

\* An address on its way to a row, or just taken from one, is no other
\* device's: neither the unique key nor the pool has to sort two owners out.
OneOwner ==
    \A v, w \in Workers :
        /\ job[v].at = "insert" =>
              /\ \A d \in Rows : ip[d] # job[v].ip
              /\ job[w].at = "insert" /\ job[v].ip = job[w].ip => v = w
              /\ job[v].ip \notin GivesBack(w)
        /\ GivesBack(v) \cap GivesBack(w) # {} => v = w

\* Whatever is interrupted, the panel can start again: every stored address is one
\* that an allocator of its tunnel can be given back (cmd/wui, loadPools: one that
\* is refused is an error).
StartsAgain == StoredFits
=============================================================================
