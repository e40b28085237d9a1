------------------------- MODULE WorkstreamsProofs -------------------------
(***************************************************************************)
(* The invariants of Workstreams, for any sessions, clients, ids and lease *)
(* lengths.  They are stated of a coordinator k, shown to be kept by the   *)
(* operators the actions are built from, and then by the actions.          *)
(***************************************************************************)
EXTENDS Workstreams, TLAPS

Coordinators ==
  [ws : [Ids -> Workstream], si : [Sessions -> Ids \cup {None}], ci : [Clients -> SUBSET Ids]]

IsActive(k, w) == k.ws[w].status = "active"

Sound(k) ==
  \A s \in Sessions : k.si[s] # None => IsActive(k, k.si[s]) /\ k.ws[k.si[s]].session = s

Complete(k) == \A w \in Ids : IsActive(k, w) => w \in k.ci[k.ws[w].client]

One(k) ==
  /\ \A w \in Ids : IsActive(k, w) => k.si[k.ws[w].session] = w
  /\ \A c \in Clients : \A w \in k.ci[c] : IsActive(k, w) /\ k.ws[w].client = c

\* The invariants of a coordinator, when nobody was late and otherwise.
Good(k, l) == k \in Coordinators /\ Sound(k) /\ Complete(k) /\ (~l => One(k))

Inv == late \in BOOLEAN /\ Good(Coordinator, late)

-----------------------------------------------------------------------------
\* What the operators do.

LEMMA DropFields ==
  ASSUME NEW k, NEW W
  PROVE  /\ Drop(k, W).ws = k.ws
         /\ Drop(k, W).si = [s \in Sessions |-> IF \E w \in W : k.ws[w].session = s THEN None ELSE k.si[s]]
         /\ Drop(k, W).ci = [c \in Clients |-> k.ci[c] \ {w \in W : k.ws[w].client = c}]
  BY DEF Drop

LEMMA RetiredRecord ==
  ASSUME NEW x \in Workstream, NEW st \in {"released", "expired"}
  PROVE  /\ [x EXCEPT !.status = st] \in Workstream
         /\ [x EXCEPT !.status = st].session = x.session
         /\ [x EXCEPT !.status = st].client = x.client
         /\ [x EXCEPT !.status = st].status = st
  BY DEF Workstream, Statuses

\* A session whose workstream is retired has no entry.
LEMMA RetireFrees ==
  ASSUME NEW k, NEW w, NEW st, NEW s \in Sessions, k.ws[w].session = s
  PROVE  Retire(k, {w}, st).si[s] = None
<1>1. Retire(k, {w}, st).si = Drop(k, {w}).si
  BY DEF Retire
<1> QED BY <1>1 DEF Drop

\* Retiring active workstreams keeps all invariants, and retiring any set of ids
\* those that do not depend on who was late.
LEMMA RetireIsGood ==
  ASSUME NEW k, NEW l \in BOOLEAN, Good(k, l), NEW W \in SUBSET Ids, NEW st \in {"released", "expired"},
         NEW m \in BOOLEAN, ~m => ~l /\ \A w \in W : IsActive(k, w)
  PROVE  Good(Retire(k, W, st), m)
<1> DEFINE r == Retire(k, W, st)
<1>0. /\ k \in Coordinators /\ k.ws \in [Ids -> Workstream]
      /\ k.si \in [Sessions -> Ids \cup {None}] /\ k.ci \in [Clients -> SUBSET Ids]
  BY DEF Good, Coordinators
<1>1. /\ r.ws = [w \in Ids |-> IF w \in W THEN [k.ws[w] EXCEPT !.status = st] ELSE k.ws[w]]
      /\ r.si = [s \in Sessions |-> IF \E w \in W : k.ws[w].session = s THEN None ELSE k.si[s]]
      /\ r.ci = [c \in Clients |-> k.ci[c] \ {w \in W : k.ws[w].client = c}]
      /\ r = [ws |-> r.ws, si |-> r.si, ci |-> r.ci]
  BY DropFields DEF Retire
<1>2. \A w \in Ids : /\ r.ws[w] \in Workstream
                     /\ r.ws[w].session = k.ws[w].session
                     /\ r.ws[w].client = k.ws[w].client
                     /\ r.ws[w].status = IF w \in W THEN st ELSE k.ws[w].status
  <2> SUFFICES ASSUME NEW w \in Ids
               PROVE  /\ r.ws[w] \in Workstream
                      /\ r.ws[w].session = k.ws[w].session
                      /\ r.ws[w].client = k.ws[w].client
                      /\ r.ws[w].status = IF w \in W THEN st ELSE k.ws[w].status
    OBVIOUS
  <2>1. k.ws[w] \in Workstream
    BY <1>0
  <2>2. CASE w \in W
    <3>1. r.ws[w] = [k.ws[w] EXCEPT !.status = st]
      BY <2>2, <1>1
    <3> HIDE DEF r
    <3>2. /\ [k.ws[w] EXCEPT !.status = st] \in Workstream
          /\ [k.ws[w] EXCEPT !.status = st].session = k.ws[w].session
          /\ [k.ws[w] EXCEPT !.status = st].client = k.ws[w].client
          /\ [k.ws[w] EXCEPT !.status = st].status = st
      BY <2>1, RetiredRecord
    <3> QED BY <2>2, <3>1, <3>2, Zenon
  <2>3. CASE w \notin W
    <3>1. r.ws[w] = k.ws[w]
      BY <2>3, <1>1
    <3> HIDE DEF r
    <3> QED BY <2>1, <2>3, <3>1
  <2> QED BY <2>2, <2>3
<1>3. r \in Coordinators
  <2>1. r.ws \in [Ids -> Workstream]
    BY <1>1, <1>2
  <2>2. r.si \in [Sessions -> Ids \cup {None}] /\ r.ci \in [Clients -> SUBSET Ids]
    BY <1>0, <1>1
  <2>3. [ws |-> r.ws, si |-> r.si, ci |-> r.ci] \in Coordinators
    BY <2>1, <2>2 DEF Coordinators
  <2> QED BY <2>3, <1>1
<1> HIDE DEF r
<1>4. Sound(r)
  <2> SUFFICES ASSUME NEW s \in Sessions, r.si[s] # None
               PROVE  IsActive(r, r.si[s]) /\ r.ws[r.si[s]].session = s
    BY DEF Sound
  <2>1. /\ r.si[s] = k.si[s] /\ k.si[s] \in Ids
        /\ \A w \in W : k.ws[w].session # s
    BY <1>0, <1>1
  <2>2. IsActive(k, k.si[s]) /\ k.ws[k.si[s]].session = s
    BY <2>1 DEF Good, Sound
  <2>3. k.si[s] \notin W
    BY <2>1, <2>2
  <2> QED BY <2>1, <2>2, <2>3, <1>2 DEF IsActive
<1>5. Complete(r)
  <2> SUFFICES ASSUME NEW w \in Ids, IsActive(r, w) PROVE w \in r.ci[r.ws[w].client]
    BY DEF Complete
  <2>1. w \notin W /\ IsActive(k, w) /\ k.ws[w].client \in Clients
    BY <1>0, <1>2 DEF IsActive, Workstream
  <2>2. w \in k.ci[k.ws[w].client]
    BY <2>1 DEF Good, Complete
  <2> QED BY <2>1, <2>2, <1>1, <1>2
<1>6. ASSUME ~m PROVE One(r)
  <2>1. One(k) /\ \A w \in W : IsActive(k, w)
    BY <1>6 DEF Good
  <2>2. ASSUME NEW w \in Ids, IsActive(r, w) PROVE r.si[r.ws[w].session] = w
    <3>1. w \notin W /\ IsActive(k, w) /\ k.ws[w].session \in Sessions
      BY <2>2, <1>0, <1>2 DEF IsActive, Workstream
    <3>2. k.si[k.ws[w].session] = w
      BY <2>1, <3>1 DEF One
    <3>3. \A v \in W : k.ws[v].session # k.ws[w].session
      BY <2>1, <3>1, <3>2 DEF One
    <3> QED BY <3>1, <3>2, <3>3, <1>1, <1>2
  <2>3. ASSUME NEW c \in Clients, NEW w \in r.ci[c] PROVE IsActive(r, w) /\ r.ws[w].client = c
    <3>1. w \in k.ci[c] /\ w \in Ids
      BY <2>3, <1>0, <1>1
    <3>2. IsActive(k, w) /\ k.ws[w].client = c
      BY <3>1, <2>1 DEF One
    <3>3. w \notin W
      BY <3>2, <2>3, <1>1
    <3> QED BY <3>1, <3>2, <3>3, <1>2 DEF IsActive
  <2> QED BY <2>2, <2>3 DEF One
<1> QED BY <1>3, <1>4, <1>5, <1>6 DEF Good, r

\* Storing workstream w for session s keeps the invariants when w is not active in
\* another session and, if nobody was late, when s has no other workstream.
LEMMA StoreIsGood ==
  ASSUME NEW k, NEW l \in BOOLEAN, Good(k, l), NEW w \in Ids, NEW s \in Sessions, NEW c \in Clients,
         NEW lease \in 1 .. MaxLease, NEW m \in BOOLEAN,
         IsActive(k, w) => k.ws[w].session = s,
         ~m => ~l /\ k.si[s] \in {None, w} /\ (IsActive(k, w) => k.ws[w].client = c)
  PROVE  Good(Store(k, w, s, c, lease), m)
<1> DEFINE r == Store(k, w, s, c, lease)
<1>0. /\ k \in Coordinators /\ k.ws \in [Ids -> Workstream]
      /\ k.si \in [Sessions -> Ids \cup {None}] /\ k.ci \in [Clients -> SUBSET Ids]
  BY DEF Good, Coordinators
<1>1. /\ r.ws = [k.ws EXCEPT ![w] = [session |-> s, client |-> c, status |-> "active", left |-> lease]]
      /\ r.si = [k.si EXCEPT ![s] = w]
      /\ r.ci = [k.ci EXCEPT ![c] = @ \cup {w}]
      /\ r = [ws |-> r.ws, si |-> r.si, ci |-> r.ci]
  BY DEF Store
<1>2. [session |-> s, client |-> c, status |-> "active", left |-> lease] \in Workstream
  BY MaxLeaseIsPositive DEF Workstream, Statuses
<1>3. r \in Coordinators
  <2>1. r.ws \in [Ids -> Workstream] /\ r.si \in [Sessions -> Ids \cup {None}] /\ r.ci \in [Clients -> SUBSET Ids]
    BY <1>0, <1>1, <1>2
  <2>3. [ws |-> r.ws, si |-> r.si, ci |-> r.ci] \in Coordinators
    BY <2>1 DEF Coordinators
  <2> QED BY <2>3, <1>1
<1>4. /\ r.ws[w].session = s /\ r.ws[w].client = c /\ r.ws[w].status = "active"
      /\ \A v \in Ids \ {w} : r.ws[v] = k.ws[v]
      /\ r.si[s] = w /\ \A t \in Sessions \ {s} : r.si[t] = k.si[t]
      /\ r.ci[c] = k.ci[c] \cup {w} /\ \A d \in Clients \ {c} : r.ci[d] = k.ci[d]
  BY <1>0, <1>1
<1> HIDE DEF r
<1>5. Sound(r)
  <2> SUFFICES ASSUME NEW t \in Sessions, r.si[t] # None
               PROVE  IsActive(r, r.si[t]) /\ r.ws[r.si[t]].session = t
    BY DEF Sound
  <2>1. CASE t = s
    BY <2>1, <1>4 DEF IsActive
  <2>2. CASE t # s
    <3>1. r.si[t] = k.si[t] /\ k.si[t] \in Ids
      BY <2>2, <1>0, <1>4
    <3>2. IsActive(k, k.si[t]) /\ k.ws[k.si[t]].session = t
      BY <3>1 DEF Good, Sound
    <3>3. k.si[t] # w
      BY <3>2, <2>2
    <3> QED BY <3>1, <3>2, <3>3, <1>4 DEF IsActive
  <2> QED BY <2>1, <2>2
<1>6. Complete(r)
  <2> SUFFICES ASSUME NEW v \in Ids, IsActive(r, v) PROVE v \in r.ci[r.ws[v].client]
    BY DEF Complete
  <2>1. CASE v = w
    BY <2>1, <1>4
  <2>2. CASE v # w
    <3>1. IsActive(k, v) /\ r.ws[v] = k.ws[v] /\ k.ws[v].client \in Clients
      BY <2>2, <1>0, <1>4 DEF IsActive, Workstream
    <3>2. v \in k.ci[k.ws[v].client]
      BY <3>1 DEF Good, Complete
    <3> QED BY <3>1, <3>2, <1>4
  <2> QED BY <2>1, <2>2
<1>7. ASSUME ~m PROVE One(r)
  <2>1. One(k) /\ k.si[s] \in {None, w} /\ (IsActive(k, w) => k.ws[w].client = c)
    BY <1>7 DEF Good
  <2>2. ASSUME NEW v \in Ids, IsActive(r, v) PROVE r.si[r.ws[v].session] = v
    <3>1. CASE v = w
      BY <3>1, <1>4
    <3>2. CASE v # w
      <4>1. IsActive(k, v) /\ r.ws[v] = k.ws[v] /\ k.ws[v].session \in Sessions
        BY <3>2, <2>2, <1>0, <1>4 DEF IsActive, Workstream
      <4>2. k.si[k.ws[v].session] = v
        BY <4>1, <2>1 DEF One
      <4>3. k.ws[v].session # s
        BY <4>2, <2>1, <3>2, NoneIsNoId
      <4> QED BY <4>1, <4>2, <4>3, <1>4
    <3> QED BY <3>1, <3>2
  <2>3. ASSUME NEW d \in Clients, NEW v \in r.ci[d] PROVE IsActive(r, v) /\ r.ws[v].client = d
    <3>1. v \in k.ci[d] => IsActive(k, v) /\ k.ws[v].client = d /\ v \in Ids
      BY <2>1, <1>0 DEF One
    <3>2. CASE v = w
      <4>1. CASE d = c
        BY <4>1, <3>2, <1>4 DEF IsActive
      <4>2. CASE d # c
        BY <4>2, <3>1, <3>2, <2>1, <2>3, <1>4
      <4> QED BY <4>1, <4>2
    <3>3. CASE v # w
      <4>1. v \in k.ci[d]
        BY <3>3, <2>3, <1>4
      <4> QED BY <4>1, <3>1, <3>3, <1>4 DEF IsActive
    <3> QED BY <3>2, <3>3
  <2> QED BY <2>2, <2>3 DEF One
<1> QED BY <1>3, <1>5, <1>6, <1>7 DEF Good, r

LEMMA CoordinatorFields ==
  Coordinator.ws = workstreams /\ Coordinator.si = sessionIndex /\ Coordinator.ci = clientIndex
  BY DEF Coordinator

\* Become makes the coordinator of the next state the one it is given.
LEMMA Becomes ==
  ASSUME NEW k, NEW l, Become(k), Good(k, l), late' = l, l \in BOOLEAN
  PROVE  Inv'
<1>1. k = [ws |-> k.ws, si |-> k.si, ci |-> k.ci]
  BY DEF Good, Coordinators
<1>2. Coordinator' = k
  BY <1>1 DEF Become, Coordinator
<1>3. Good(Coordinator', l)
  BY <1>2
<1>4. Good(Coordinator', late')
  BY <1>3
<1> QED BY <1>4 DEF Inv, Good, Sound, Complete, One, IsActive, Coordinators

\* Looking a session up keeps the invariants; what it returns is an active
\* workstream of that session, untouched.
LEMMA SettledIsGood ==
  ASSUME Inv, NEW s \in Sessions
  PROVE  /\ Good(Settled(s), late)
         /\ Settled(s).si[s] \in Ids \cup {None}
         /\ Settled(s).si[s] # None =>
              /\ Settled(s) = Coordinator /\ Settled(s).si[s] = sessionIndex[s]
              /\ IsActive(Settled(s), Settled(s).si[s])
              /\ Settled(s).ws[Settled(s).si[s]].session = s
<1> DEFINE w == sessionIndex[s]
<1>1. Good(Coordinator, late) /\ late \in BOOLEAN
  BY DEF Inv
<1>2. w \in Ids \cup {None}
  BY <1>1, CoordinatorFields DEF Good, Coordinators
<1>3. w # None => IsActive(Coordinator, w) /\ workstreams[w].session = s
  BY <1>1, CoordinatorFields DEF Good, Sound
<1>4. CASE w # None /\ LeaseExpired(w)
  <2>1. Settled(s) = Retire(Coordinator, {w}, "expired")
    BY <1>4 DEF Settled, LeaseExpired
  <2>2. Good(Retire(Coordinator, {w}, "expired"), late)
    BY <1>1, <1>2, <1>3, <1>4, RetireIsGood
  <2>3. Retire(Coordinator, {w}, "expired").si[s] = None
    BY <1>3, <1>4, RetireFrees, CoordinatorFields
  <2> QED BY <2>1, <2>2, <2>3
<1>5. CASE ~(w # None /\ LeaseExpired(w))
  <2>1. w # None => workstreams[w].status = "active"
    BY <1>3, CoordinatorFields DEF IsActive
  <2>2. Settled(s) = Coordinator
    BY <1>5, <2>1 DEF Settled
  <2> QED BY <2>2, <1>1, <1>2, <1>3, CoordinatorFields
<1> QED BY <1>4, <1>5

LEMMA GoodTypes ==
  ASSUME NEW k, NEW l, Good(k, l), NEW w \in Ids
  PROVE  k.ws[w].session \in Sessions /\ k.ws[w].client \in Clients
  BY DEF Good, Coordinators, Workstream

-----------------------------------------------------------------------------
\* The actions.

LEMMA ExtendKeeps ==
  ASSUME Inv, NEW s \in Sessions, NEW c \in Clients, NEW token, NEW admin, NEW lease \in 1 .. MaxLease,
         Extend(s, c, token, admin, lease), UNCHANGED late
  PROVE  Inv'
<1> DEFINE k == Settled(s)
           w == k.si[s]
<1>1. /\ Good(k, late) /\ w \in Ids /\ k = Coordinator
      /\ IsActive(k, w) /\ k.ws[w].session = s
  BY SettledIsGood DEF Extend
<1>2. workstreams[w].client \in Clients /\ k.ws[w].client = workstreams[w].client
  BY <1>1, GoodTypes, CoordinatorFields
<1>3. late \in BOOLEAN /\ Become(Store(k, w, s, workstreams[w].client, lease))
  BY DEF Inv, Extend
<1> HIDE DEF k
<1>4. Good(Store(k, w, s, workstreams[w].client, lease), late)
  BY <1>1, <1>2, <1>3, StoreIsGood
<1> QED BY <1>3, <1>4, Becomes

LEMMA CreateKeeps ==
  ASSUME NEW k, late \in BOOLEAN, Good(k, late), NEW s \in Sessions, k.si[s] = None, NEW c \in Clients,
         NEW asked \in Ids \cup {None}, NEW lease \in 1 .. MaxLease,
         Create(k, s, c, asked, lease), UNCHANGED late
  PROVE  Inv'
<1>1. CASE Bound(k, s, asked)
  BY <1>1, Becomes DEF Create
<1>2. CASE ~Bound(k, s, asked)
  <2>1. PICK w \in Ids : /\ IF asked = None THEN k.ws[w].status = "absent" ELSE w = asked
                         /\ Become(Store(k, w, s, c, lease))
    BY <1>2 DEF Create
  <2>2. IsActive(k, w) => k.ws[w].session = s
    BY <1>2, <2>1 DEF Bound, IsActive
  <2>3. ~late => ~IsActive(k, w)
    BY <2>2, NoneIsNoId DEF Good, One
  <2>4. Good(Store(k, w, s, c, lease), late)
    BY <2>2, <2>3, StoreIsGood
  <2> QED BY <2>1, <2>4, Becomes
<1> QED BY <1>1, <1>2

LEMMA ClaimFreeKeeps ==
  ASSUME Inv, NEW s \in Sessions, NEW c \in Clients, NEW asked \in Ids \cup {None},
         NEW lease \in 1 .. MaxLease, ClaimFree(s, c, asked, lease), UNCHANGED late
  PROVE  Inv'
<1> DEFINE k == Settled(s)
<1>1. Good(k, late) /\ k.si[s] = None /\ late \in BOOLEAN
  BY SettledIsGood DEF ClaimFree, Inv
<1>2. Create(k, s, c, asked, lease)
  BY DEF ClaimFree
<1> HIDE DEF k
<1> QED BY <1>1, <1>2, CreateKeeps

LEMMA ClaimRefusedKeeps ==
  ASSUME Inv, NEW s \in Sessions, NEW c, NEW asked, NEW token,
         ClaimRefused(s, c, asked, token), UNCHANGED late
  PROVE  Inv'
<1>1. Good(Settled(s), late) /\ Become(Settled(s)) /\ late \in BOOLEAN
  BY SettledIsGood DEF ClaimRefused, Inv
<1> QED BY <1>1, Becomes

LEMMA TakeOverKeeps ==
  ASSUME Inv, NEW s \in Sessions, NEW c \in Clients, NEW asked \in Ids \cup {None},
         NEW lease \in 1 .. MaxLease, TakeOver(s, c, asked, lease), UNCHANGED late
  PROVE  Inv'
<1> DEFINE k == Settled(s)
           r == Retire(k, {k.si[s]}, "released")
<1>1. Good(k, late) /\ k.si[s] \in Ids /\ IsActive(k, k.si[s]) /\ k.ws[k.si[s]].session = s /\ late \in BOOLEAN
  BY SettledIsGood DEF TakeOver, Inv
<1>2. Create(r, s, c, asked, lease)
  BY DEF TakeOver
<1> HIDE DEF k
<1>3. Good(r, late)
  BY <1>1, RetireIsGood
<1>4. r.si[s] = None
  BY <1>1, RetireFrees
<1> HIDE DEF r
<1> QED BY <1>1, <1>2, <1>3, <1>4, CreateKeeps

\* Retiring workstreams of the coordinator, all active unless somebody is late.
LEMMA RetireKeeps ==
  ASSUME Inv, NEW W \in SUBSET Ids, NEW st \in {"released", "expired"},
         Become(Retire(Coordinator, W, st)), late' \in BOOLEAN,
         ~late' => ~late /\ \A w \in W : workstreams[w].status = "active"
  PROVE  Inv'
<1>1. ~late' => ~late /\ \A w \in W : IsActive(Coordinator, w)
  BY CoordinatorFields DEF IsActive
<1>2. Good(Coordinator, late) /\ late \in BOOLEAN
  BY DEF Inv
<1>3. ASSUME NEW m \in BOOLEAN, m = late' PROVE Good(Retire(Coordinator, W, st), m)
  BY <1>1, <1>2, <1>3, RetireIsGood
<1>4. PICK m \in BOOLEAN : m = late'
  OBVIOUS
<1> QED BY <1>3, <1>4, Becomes

LEMMA RenewKeeps ==
  ASSUME Inv, NEW w \in Ids, NEW c \in Clients, NEW token, NEW admin, NEW lease \in 1 .. MaxLease,
         Renew(w, c, token, admin, lease)
  PROVE  Inv'
<1> DEFINE s == workstreams[w].session
           d == workstreams[w].client
<1>1. Good(Coordinator, late) /\ late \in BOOLEAN
  BY DEF Inv
<1>2. CASE LeaseExpired(w)
  BY <1>1, <1>2, RetireKeeps DEF Renew, LeaseExpired
<1>3. CASE ~LeaseExpired(w)
  <2>1. s \in Sessions /\ d \in Clients
    BY <1>1, GoodTypes, CoordinatorFields
  <2>2. Become(Store(Coordinator, w, s, d, lease)) /\ late' = (late \/ workstreams[w].status # "active")
    BY <1>3 DEF Renew
  <2>3. PICK m \in BOOLEAN : m = late'
    BY <2>2
  <2>4. ~m => ~late /\ IsActive(Coordinator, w)
    BY <2>2, <2>3, CoordinatorFields DEF IsActive
  <2>5. ~m => Coordinator.si[s] = w
    BY <1>1, <2>4, CoordinatorFields DEF Good, One
  <2>6. Coordinator.ws[w].session = s /\ Coordinator.ws[w].client = d
    BY CoordinatorFields
  <2>7. Good(Store(Coordinator, w, s, d, lease), m)
    BY <1>1, <2>1, <2>4, <2>5, <2>6, StoreIsGood
  <2> QED BY <2>2, <2>3, <2>7, Becomes
<1> QED BY <1>2, <1>3

LEMMA ReleaseSessionKeeps ==
  ASSUME Inv, NEW s \in Sessions, ReleaseSession(s)
  PROVE  Inv'
<1> DEFINE k == Settled(s)
<1>1. /\ Good(k, late) /\ late \in BOOLEAN /\ late' = late
      /\ k.si[s] = None \/ (k.si[s] \in Ids /\ IsActive(k, k.si[s]))
  BY SettledIsGood DEF ReleaseSession, Inv
<1>2. Become(IF k.si[s] = None THEN k ELSE Retire(k, {k.si[s]}, "released"))
  BY DEF ReleaseSession
<1> HIDE DEF k
<1>3. CASE k.si[s] = None
  BY <1>1, <1>2, <1>3, Becomes
<1>4. CASE k.si[s] # None
  <2>1. Good(Retire(k, {k.si[s]}, "released"), late)
    BY <1>1, <1>4, RetireIsGood
  <2> QED BY <1>1, <1>2, <1>4, <2>1, Becomes
<1> QED BY <1>3, <1>4

LEMMA TickKeeps ==
  ASSUME Inv, Tick
  PROVE  Inv'
<1>1. /\ workstreams \in [Ids -> Workstream] /\ late' = late /\ late \in BOOLEAN
      /\ sessionIndex' = sessionIndex /\ clientIndex' = clientIndex
      /\ sessionIndex \in [Sessions -> Ids \cup {None}] /\ clientIndex \in [Clients -> SUBSET Ids]
  BY CoordinatorFields DEF Inv, Good, Coordinators, Tick
<1>2. ASSUME NEW x \in Workstream
      PROVE  LET y == [x EXCEPT !.left = IF @ = 0 THEN 0 ELSE @ - 1]
             IN  y \in Workstream /\ y.session = x.session /\ y.client = x.client /\ y.status = x.status
  BY MaxLeaseIsPositive DEF Workstream
<1>3. \A w \in Ids : /\ workstreams'[w] \in Workstream
                     /\ workstreams'[w].session = workstreams[w].session
                     /\ workstreams'[w].client = workstreams[w].client
                     /\ workstreams'[w].status = workstreams[w].status
  <2> SUFFICES ASSUME NEW w \in Ids
               PROVE  /\ workstreams'[w] \in Workstream
                      /\ workstreams'[w].session = workstreams[w].session
                      /\ workstreams'[w].client = workstreams[w].client
                      /\ workstreams'[w].status = workstreams[w].status
    OBVIOUS
  <2>1. workstreams'[w] = [workstreams[w] EXCEPT !.left = IF @ = 0 THEN 0 ELSE @ - 1]
    BY DEF Tick
  <2>2. workstreams[w] \in Workstream
    BY <1>1
  <2> QED BY <2>1, <2>2, <1>2
<1>4. workstreams' \in [Ids -> Workstream]
  BY <1>3 DEF Tick
<1>5. Coordinator' \in Coordinators
  BY <1>1, <1>4 DEF Coordinator, Coordinators
<1>6. Coordinator'.ws = workstreams' /\ Coordinator'.si = sessionIndex /\ Coordinator'.ci = clientIndex
  BY <1>1 DEF Coordinator
<1>7. Sound(Coordinator')
  BY <1>1, <1>3, <1>6, CoordinatorFields DEF Inv, Good, Sound, IsActive
<1>8. Complete(Coordinator')
  BY <1>1, <1>3, <1>6, CoordinatorFields DEF Inv, Good, Complete, IsActive
<1>9. ~late => One(Coordinator')
  <2> SUFFICES ASSUME ~late PROVE One(Coordinator')
    OBVIOUS
  <2>1. One(Coordinator)
    BY DEF Inv, Good
  <2> QED BY <2>1, <1>1, <1>3, <1>6, CoordinatorFields DEF One, IsActive
<1>10. Good(Coordinator', late')
  BY <1>1, <1>5, <1>7, <1>8, <1>9 DEF Good
<1> QED BY <1>1, <1>10 DEF Inv, Good, Sound, Complete, One, IsActive, Coordinators

-----------------------------------------------------------------------------

LEMMA InitHolds == Init => Inv
<1> SUFFICES ASSUME Init PROVE Inv
  OBVIOUS
<1>1. PICK s \in Sessions, c \in Clients :
        workstreams = [w \in Ids |-> [session |-> s, client |-> c, status |-> "absent", left |-> 0]]
  BY DEF Init
<1>2. [session |-> s, client |-> c, status |-> "absent", left |-> 0] \in Workstream
  BY MaxLeaseIsPositive DEF Workstream, Statuses
<1>3. Coordinator \in Coordinators
  BY <1>1, <1>2 DEF Init, Coordinator, Coordinators
<1>4. Sound(Coordinator) /\ Complete(Coordinator) /\ One(Coordinator)
  BY <1>1, CoordinatorFields DEF Init, Sound, Complete, One, IsActive
<1> QED BY <1>3, <1>4 DEF Inv, Good, Init

LEMMA StepKeeps == Inv /\ [Next]_vars => Inv'
<1> SUFFICES ASSUME Inv, [Next]_vars PROVE Inv'
  OBVIOUS
<1>1. ASSUME NEW s \in Sessions, NEW c \in Clients, NEW token \in Tokens, NEW admin \in BOOLEAN,
             NEW lease \in 1 .. MaxLease, NEW asked \in Ids \cup {None},
             Claim(s, c, asked, token, admin, lease)
      PROVE  Inv'
  BY <1>1, ExtendKeeps, ClaimRefusedKeeps, TakeOverKeeps, ClaimFreeKeeps DEF Claim
<1>2. ASSUME NEW s \in Sessions, NEW c \in Clients, NEW token \in Tokens, NEW flag \in BOOLEAN,
             NEW admin \in BOOLEAN, NEW lease \in 1 .. MaxLease, Ensure(s, c, token, flag, admin, lease)
      PROVE  Inv'
  <2>1. late' = late /\ late \in BOOLEAN /\ Good(Settled(s), late) /\ None \in Ids \cup {None}
    BY <1>2, SettledIsGood DEF Ensure, Inv
  <2>2. CASE Become(Settled(s))
    BY <2>1, <2>2, Becomes
  <2> QED BY <1>2, <2>1, <2>2, ExtendKeeps, ClaimRefusedKeeps, ClaimFreeKeeps DEF Ensure
<1>3. ASSUME NEW w \in Ids, NEW c \in Clients, NEW token \in Tokens, NEW admin \in BOOLEAN,
             Release(w, c, token, admin)
      PROVE  Inv'
  BY <1>3, RetireKeeps DEF Release, Inv
<1>4. ASSUME NEW c \in Clients, ReleaseClient(c) PROVE Inv'
  <2>1. clientIndex[c] \in SUBSET Ids /\ late \in BOOLEAN
    BY CoordinatorFields DEF Inv, Good, Coordinators
  <2> QED BY <1>4, <2>1, RetireKeeps DEF ReleaseClient
<1>5. CASE SweepExpired
  BY <1>5, RetireKeeps DEF SweepExpired, LeaseExpired, Inv
<1>6. ASSUME NEW w \in Ids, Get(w) PROVE Inv'
  BY <1>6, RetireKeeps DEF Get, LeaseExpired, Inv
<1>7. ASSUME NEW s \in Sessions, OwnerForSession(s) PROVE Inv'
  BY <1>7, SettledIsGood, Becomes DEF OwnerForSession, Inv
<1>8. CASE UNCHANGED vars
  BY <1>8 DEF vars, Inv, Good, Sound, Complete, One, IsActive, Coordinators, Coordinator
<1> QED BY <1>1, <1>2, <1>3, <1>4, <1>5, <1>6, <1>7, <1>8, RenewKeeps, ReleaseSessionKeeps, TickKeeps DEF Next

LEMMA InvImplies == Inv => TypeOK /\ IndexIsSound /\ ClientIndexIsComplete /\ OneOwner
<1> SUFFICES ASSUME Inv PROVE TypeOK /\ IndexIsSound /\ ClientIndexIsComplete /\ OneOwner
  OBVIOUS
<1>1. TypeOK
  BY CoordinatorFields DEF Inv, Good, Coordinators, TypeOK
<1>2. IndexIsSound
  BY CoordinatorFields DEF Inv, Good, Sound, IsActive, IndexIsSound, Active
<1>3. ClientIndexIsComplete
  BY CoordinatorFields DEF Inv, Good, Complete, IsActive, ClientIndexIsComplete, Active
<1>4. OneOwner
  <2> SUFFICES ASSUME ~late
               PROVE  /\ \A w \in Ids : Active(w) => sessionIndex[workstreams[w].session] = w
                      /\ \A c \in Clients :
                           clientIndex[c] \subseteq {w \in Ids : Active(w) /\ workstreams[w].client = c}
    BY DEF OneOwner
  <2>1. One(Coordinator)
    BY DEF Inv, Good
  <2> QED BY <1>1, <2>1, CoordinatorFields DEF One, IsActive, Active, TypeOK
<1> QED BY <1>1, <1>2, <1>3, <1>4

LEMMA InvAlways == Spec => []Inv
  BY InitHolds, StepKeeps, PTL DEF Spec

\* The coordinator's dictionaries are well formed whatever clients ask for.
THEOREM TypeCorrect == Spec => []TypeOK
  BY InvAlways, InvImplies, PTL

\* A session's index entry names an active workstream of that session.
THEOREM IndexIsSoundAlways == Spec => []IndexIsSound
  BY InvAlways, InvImplies, PTL

\* release_client finds every active workstream of its client.
THEOREM ClientIndexIsCompleteAlways == Spec => []ClientIndexIsComplete
  BY InvAlways, InvImplies, PTL

\* As long as nobody renews or releases a retired workstream, a session has one
\* active workstream, the one in the index.
THEOREM OneOwnerAlways == Spec => []OneOwner
  BY InvAlways, InvImplies, PTL
=============================================================================
