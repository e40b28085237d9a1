---------------------------- MODULE Workstreams ----------------------------
(***************************************************************************)
(* The leases that say which client drives a session: WorkstreamCoordinator*)
(* of session/coordination.py with the workstream.* handlers,              *)
(* _claim_or_verify_workstream and session.abort.                          *)
(*                                                                         *)
(* Every operation runs under the coordinator's lock without an await, so  *)
(* it is one step.  A lease is the ticks it has left.  A lease token is    *)
(* known to the client it was minted for, so a request says whether the    *)
(* token it carries is the workstream's, another one, or missing.          *)
(***************************************************************************)
EXTENDS Naturals

CONSTANTS
  Sessions,
  Clients,
  Ids,       \* workstream ids, the client-chosen and the minted ones
  MaxLease,  \* the longest lease, in ticks
  None

ASSUME MaxLeaseIsPositive == MaxLease \in Nat \ {0}

ASSUME NoneIsNoId == None \notin Ids

VARIABLES
  workstreams,   \* _workstreams; status "absent" stands for a missing key
  sessionIndex,  \* _session_index
  clientIndex,   \* _client_index
  late           \* whether a retired workstream was ever renewed or released

vars == <<workstreams, sessionIndex, clientIndex, late>>

Statuses == {"absent", "active", "released", "expired"}

Workstream ==
  [session : Sessions, client : Clients, status : Statuses, left : 0 .. MaxLease]

\* What a request carries as lease_token.
Tokens == {"right", "wrong", "missing"}

TypeOK ==
  /\ workstreams \in [Ids -> Workstream]
  /\ sessionIndex \in [Sessions -> Ids \cup {None}]
  /\ clientIndex \in [Clients -> SUBSET Ids]
  /\ late \in BOOLEAN

Init ==
  /\ \E s \in Sessions, c \in Clients :
       workstreams = [w \in Ids |-> [session |-> s, client |-> c, status |-> "absent", left |-> 0]]
  /\ sessionIndex = [s \in Sessions |-> None]
  /\ clientIndex = [c \in Clients |-> {}]
  /\ late = FALSE

Coordinator == [ws |-> workstreams, si |-> sessionIndex, ci |-> clientIndex]

Become(k) ==
  /\ workstreams' = k.ws
  /\ sessionIndex' = k.si
  /\ clientIndex' = k.ci

\* _drop_indexes for each workstream in W: the session's entry goes whichever
\* workstream it names.
Drop(k, W) ==
  [ws |-> k.ws,
   si |-> [s \in Sessions |-> IF \E w \in W : k.ws[w].session = s THEN None ELSE k.si[s]],
   ci |-> [c \in Clients |-> k.ci[c] \ {w \in W : k.ws[w].client = c}]]

\* _retire of each workstream in W.
Retire(k, W, status) ==
  [ws |-> [w \in Ids |-> IF w \in W THEN [k.ws[w] EXCEPT !.status = status] ELSE k.ws[w]],
   si |-> Drop(k, W).si,
   ci |-> Drop(k, W).ci]

\* A mistake: the stored workstream is indexed under its session only.
StoresUnindexed(k, w, s, c, lease) ==
  [ws |-> [k.ws EXCEPT ![w] = [session |-> s, client |-> c, status |-> "active", left |-> lease]],
   si |-> [k.si EXCEPT ![s] = w],
   ci |-> k.ci]

\* _store: the session's entry names w from now on.
Store(k, w, s, c, lease) ==
  [ws |-> [k.ws EXCEPT ![w] = [session |-> s, client |-> c, status |-> "active", left |-> lease]],
   si |-> [k.si EXCEPT ![s] = w],
   ci |-> [k.ci EXCEPT ![c] = @ \cup {w}]]

LeaseExpired(w) == workstreams[w].status = "active" /\ workstreams[w].left = 0

\* _current_for_session: an expired lease is retired when it is looked at.
Settled(s) ==
  LET w == sessionIndex[s]
  IN  CASE w = None                         -> Coordinator
        [] w # None /\ LeaseExpired(w)      -> Retire(Coordinator, {w}, "expired")
        [] w # None /\ workstreams[w].status # "active" -> Drop(Coordinator, {w})
        [] OTHER                            -> Coordinator

CheckOwner(w, c, token, admin, requireToken) ==
  \/ admin
  \/ /\ workstreams[w].client = c
     /\ token = "right" \/ (token = "missing" /\ ~requireToken)

\* A mistake: a claim may take an id that is active in another session.
NeverBound(k, s, asked) == FALSE

\* The id asked for is active in another session.
Bound(k, s, asked) == asked # None /\ k.ws[asked].status = "active" /\ k.ws[asked].session # s

\* A new workstream, with the id asked for or a fresh one.
Create(k, s, c, asked, lease) ==
  IF Bound(k, s, asked)
  THEN Become(k)
  ELSE \E w \in Ids :
         /\ IF asked = None THEN k.ws[w].status = "absent" ELSE w = asked
         /\ Become(Store(k, w, s, c, lease))

\* claim and ensure by the owner of the session's workstream extend its lease, and
\* so does ensure with admin_override, without changing the owner.
Extend(s, c, token, admin, lease) ==
  LET k == Settled(s)
      w == k.si[s]
  IN  /\ w # None
      /\ CheckOwner(w, c, token, admin, FALSE)
      /\ Become(Store(k, w, s, workstreams[w].client, lease))

ClaimRefused(s, c, asked, token) ==
  LET k == Settled(s)
  IN  /\ k.si[s] # None
      /\ asked \notin {None, k.si[s]} \/ ~CheckOwner(k.si[s], c, token, FALSE, FALSE)
      /\ Become(k)

\* A mistake: a take-over leaves the workstream it replaces.
TakesOverBeside(s, c, asked, lease) ==
  LET k == Settled(s)
  IN  /\ k.si[s] # None
      /\ Create(k, s, c, asked, lease)

\* claim with admin_override: the owner's workstream is retired first, also when
\* the id asked for then turns out to be bound elsewhere.
TakeOver(s, c, asked, lease) ==
  LET k == Settled(s)
      r == Retire(k, {k.si[s]}, "released")
  IN  /\ k.si[s] # None
      /\ Create(r, s, c, asked, lease)

ClaimFree(s, c, asked, lease) ==
  LET k == Settled(s)
  IN  /\ k.si[s] = None
      /\ Create(k, s, c, asked, lease)

Claim(s, c, asked, token, admin, lease) ==
  /\ \/ ~admin /\ asked \in {None, Settled(s).si[s]} /\ Extend(s, c, token, FALSE, lease)
     \/ ~admin /\ ClaimRefused(s, c, asked, token)
     \/ admin /\ TakeOver(s, c, asked, lease)
     \/ ClaimFree(s, c, asked, lease)
  /\ UNCHANGED late

Ensure(s, c, token, autoClaim, admin, lease) ==
  /\ \/ Extend(s, c, token, admin, lease)
     \/ ~admin /\ ClaimRefused(s, c, None, token)
     \/ autoClaim /\ ClaimFree(s, c, None, lease)
     \/ ~autoClaim /\ Settled(s).si[s] = None /\ Become(Settled(s))
  /\ UNCHANGED late

\* renew looks at the lease of an active workstream, not at its status otherwise.
Renew(w, c, token, admin, lease) ==
  /\ workstreams[w].status # "absent"
  /\ IF LeaseExpired(w)
     THEN Become(Retire(Coordinator, {w}, "expired")) /\ UNCHANGED late
     ELSE /\ CheckOwner(w, c, token, admin, TRUE)
          /\ Become(Store(Coordinator, w, workstreams[w].session, workstreams[w].client, lease))
          /\ late' = (late \/ workstreams[w].status # "active")

Release(w, c, token, admin) ==
  /\ workstreams[w].status # "absent"
  /\ CheckOwner(w, c, token, admin, TRUE)
  /\ Become(Retire(Coordinator, {w}, "released"))
  /\ late' = (late \/ workstreams[w].status # "active")

ReleaseClient(c) ==
  /\ Become(Retire(Coordinator, {w \in clientIndex[c] : workstreams[w].status = "active"}, "released"))
  /\ UNCHANGED late

\* sweep_expired, and what list and snapshot do on the way; get does it for one.
SweepExpired ==
  /\ Become(Retire(Coordinator, {w \in Ids : LeaseExpired(w)}, "expired"))
  /\ UNCHANGED late

Get(w) ==
  /\ LeaseExpired(w)
  /\ Become(Retire(Coordinator, {w}, "expired"))
  /\ UNCHANGED late

ReleaseSession(s) ==
  LET k == Settled(s)
  IN  /\ Become(IF k.si[s] = None THEN k ELSE Retire(k, {k.si[s]}, "released"))
      /\ UNCHANGED late

OwnerForSession(s) == Become(Settled(s)) /\ UNCHANGED late

Tick ==
  /\ workstreams' = [w \in Ids |-> [workstreams[w] EXCEPT !.left = IF @ = 0 THEN 0 ELSE @ - 1]]
  /\ UNCHANGED <<sessionIndex, clientIndex, late>>

Next ==
  \/ \E s \in Sessions, c \in Clients, token \in Tokens, flag, admin \in BOOLEAN, lease \in 1 .. MaxLease :
       \/ \E asked \in Ids \cup {None} : Claim(s, c, asked, token, admin, lease)
       \/ Ensure(s, c, token, flag, admin, lease)
  \/ \E w \in Ids, c \in Clients, token \in Tokens, admin \in BOOLEAN :
       \/ \E lease \in 1 .. MaxLease : Renew(w, c, token, admin, lease)
       \/ Release(w, c, token, admin)
  \/ \E c \in Clients : ReleaseClient(c)
  \/ SweepExpired
  \/ \E w \in Ids : Get(w)
  \/ \E s \in Sessions : ReleaseSession(s) \/ OwnerForSession(s)
  \/ Tick

Spec == Init /\ [][Next]_vars

-----------------------------------------------------------------------------

Active(w) == workstreams[w].status = "active"

\* The index never leads session.send to a retired workstream or to one of another
\* session, though _drop_indexes pops entries by session and _store overwrites them.
IndexIsSound ==
  \A s \in Sessions :
    sessionIndex[s] # None =>
      Active(sessionIndex[s]) /\ workstreams[sessionIndex[s]].session = s

\* Every active workstream is in the index of its client, so that release_client
\* leaves a client that went away with none, also after revivals and takeovers of
\* its ids.
ClientIndexIsComplete == \A w \in Ids : Active(w) => w \in clientIndex[workstreams[w].client]

\* Unless somebody renewed or released a workstream that was already retired, the
\* active workstream of a session is the one its index names (so there is one), and
\* a client's index holds nothing but its own active workstreams.
OneOwner ==
  ~late =>
    /\ \A w \in Ids : Active(w) => sessionIndex[workstreams[w].session] = w
    /\ \A c \in Clients : clientIndex[c] \subseteq {w \in Ids : Active(w) /\ workstreams[w].client = c}

=============================================================================
