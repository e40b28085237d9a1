--------------------------- MODULE OverrideGrants ---------------------------
(***************************************************************************)
(* Override grants, policy/overrides.py, their RPC handlers,               *)
(* daemon/override_handlers.py, and their use by engine.decide().          *)
(*                                                                         *)
(* A grant lets a session cross a hard floor for one action, or for each   *)
(* action of a group once.  It is asked for by an authorized principal     *)
(* and, under dual control, attested by another.  The store changes a      *)
(* grant in memory and then in the database: the second write may raise    *)
(* out of the handler, or out of decide(), with the first one done.        *)
(* Handlers and decide() do not await in between.                          *)
(***************************************************************************)
EXTENDS Naturals, Sequences

CONSTANTS
  Ids,            \* identifiers of grants (uuid4: never used twice)
  Sessions,
  Actions,        \* pairs of an action kind and a target
  Principals,
  NoOne,          \* no principal
  Floors,         \* hard floors
  MaxExpiry,      \* OVERRIDE_EXPIRY_MAX_SECONDS
  DefaultExpiry,  \* OVERRIDE_EXPIRY_DEFAULT_SECONDS
  Catalogues,     \* the policy files that a daemon may be started with
  Horizon         \* bound: the last instant of the clock

OverridePolicy == {"disallowed", "single-authorized", "dual-control"}

\* __post_init__ refuses an expiry that is not positive or above the cap.
Entries == [policy : OverridePolicy, authorized : SUBSET Principals,
            attesters : SUBSET Principals, expiry : 1 .. MaxExpiry]

NoEntry == [policy |-> "none"]

ASSUME NoOneIsNoPrincipal == NoOne \notin Principals
ASSUME ExpiryIsBounded == MaxExpiry \in Nat /\ DefaultExpiry \in 1 .. MaxExpiry
ASSUME HorizonIsNat == Horizon \in Nat
ASSUME CataloguesAreTyped ==
  \A c \in Catalogues : /\ c.by_floor \in [Floors -> Entries \cup {NoEntry}]
                        /\ c.operator \in Principals \cup {NoOne}

VARIABLES
  now,        \* the clock
  policies,   \* the catalogue of this daemon; its operator is NoOne if managed
  memory,     \* _by_id
  disk,       \* the table override_grants
  dirty,      \* the grants whose last write to the table raised
  ceremony,   \* history: what was asked for, by whom, under which policy, when
  attested,   \* history: the principals who confirmed the grant
  refused,    \* history: the grants whose refusal was reported
  crossings   \* history: the calls that a grant allowed

stores == <<memory, disk, dirty>>
history == <<ceremony, attested, refused, crossings>>
vars == <<now, policies, stores, history>>

GrantState == {"pending_attestation", "active", "consumed", "expired", "refused"}

Grants == [session : Sessions, group : BOOLEAN, members : SUBSET Actions, entry : Entries,
           invoker : Principals, attester : Principals \cup {NoOne}, state : GrantState,
           expires_at : Nat, consumed_at : BOOLEAN, consumed_members : SUBSET Actions]

NoGrant == [state |-> "none"]

Ceremonies == [session : Sessions, members : SUBSET Actions, entry : Entries,
               invoker : Principals, at : 0 .. Horizon]

NoCeremony == [session |-> "none"]

Crossings == [grant : Ids, session : Sessions, action : Actions, at : 0 .. Horizon]

TypeOK ==
  /\ now \in 0 .. Horizon
  /\ policies \in Catalogues
  /\ memory \in [Ids -> Grants \cup {NoGrant}]
  /\ disk \in [Ids -> Grants \cup {NoGrant}]
  /\ dirty \subseteq Ids
  /\ ceremony \in [Ids -> Ceremonies \cup {NoCeremony}]
  /\ attested \in [Ids -> SUBSET Principals]
  /\ refused \subseteq Ids
  /\ crossings \in Seq(Crossings)

Init ==
  /\ now = 0
  /\ policies \in Catalogues
  /\ memory = [i \in Ids |-> NoGrant]
  /\ disk = [i \in Ids |-> NoGrant]
  /\ dirty = {}
  /\ ceremony = [i \in Ids |-> NoCeremony]
  /\ attested = [i \in Ids |-> {}]
  /\ refused = {}
  /\ crossings = <<>>

-----------------------------------------------------------------------------
(* The store *)

\* A mistake in the UPSERT: the attester of a row there is is not updated.
UpsertForgetsAttester(row, g) ==
  IF row = NoGrant THEN g ELSE [row EXCEPT !.consumed_at = g.consumed_at, !.state = g.state]

\* INSERT ... ON CONFLICT(id) DO UPDATE
Upsert(row, g) ==
  IF row = NoGrant
  THEN g
  ELSE [row EXCEPT !.attester = g.attester, !.consumed_at = g.consumed_at, !.state = g.state]

\* A mistake in _persist: a group grant is stored as well, without its
\* consumed members.
PersistsGroups(i, g, ok) == IF ok THEN [disk EXCEPT ![i] = Upsert(disk[i], g)] ELSE disk

\* _persist: a group grant stays in memory; the write of another may raise.
Persisted(i, g, ok) ==
  IF ok /\ ~g.group THEN [disk EXCEPT ![i] = Upsert(disk[i], g)] ELSE disk

\* add and update: memory first, then the table.
Put(i, g, ok) ==
  /\ g.group => ok
  /\ memory' = [memory EXCEPT ![i] = g]
  /\ disk' = Persisted(i, g, ok)
  /\ dirty' = IF ok THEN dirty \ {i} ELSE dirty \cup {i}

-----------------------------------------------------------------------------
(* Request, attestation, refusal *)

\* OverridePolicies.get: what the operator declared for the floor, or, in the
\* personal profile, the operator alone.
get(floor) ==
  IF policies.by_floor[floor] # NoEntry THEN policies.by_floor[floor]
  ELSE IF policies.operator # NoOne
  THEN [policy |-> "single-authorized", authorized |-> {policies.operator}, attesters |-> {},
        expiry |-> DefaultExpiry]
  ELSE NoEntry

\* _gate_request, for a request whose friction was confirmed: the others are
\* refused and leave no trace.
gate_request(floor, invoker) ==
  /\ get(floor) # NoEntry
  /\ get(floor).policy # "disallowed"
  /\ invoker \in get(floor).authorized

\* A mistake in _initial_state: a grant under dual control starts active.
StartsActive(entry) == "active"

initial_state(entry) == IF entry.policy = "dual-control" THEN "pending_attestation" ELSE "active"

NewGrant(session, members, group, entry, invoker) ==
  [session |-> session, group |-> group, members |-> members, entry |-> entry,
   invoker |-> invoker, attester |-> NoOne, state |-> initial_state(entry),
   expires_at |-> now + entry.expiry, consumed_at |-> FALSE, consumed_members |-> {}]

\* override.request, and the same with request_group_override, which no handler
\* calls yet: the grant is minted and added.
Request(i, session, members, group, floor, invoker, ok) ==
  /\ ceremony[i] = NoCeremony
  /\ gate_request(floor, invoker)
  /\ Put(i, NewGrant(session, members, group, get(floor), invoker), ok)
  /\ ceremony' = [ceremony EXCEPT ![i] = [session |-> session, members |-> members,
                                          entry |-> get(floor), invoker |-> invoker, at |-> now]]
  /\ UNCHANGED <<now, policies, attested, refused, crossings>>

request_override(i, session, action, floor, invoker, ok) ==
  Request(i, session, {action}, FALSE, floor, invoker, ok)

request_group_override(i, session, members, floor, invoker) ==
  /\ members # {}
  /\ Request(i, session, members, TRUE, floor, invoker, TRUE)

is_expired(g) == now >= g.expires_at

\* override.attest with confirmed: what attest_override refuses changes nothing.
attest_override(i, attester, ok) ==
  /\ memory[i] # NoGrant
  /\ ~is_expired(memory[i])
  /\ memory[i].state = "pending_attestation"
  /\ attester # memory[i].invoker
  /\ attester \in memory[i].entry.attesters
  /\ Put(i, [memory[i] EXCEPT !.state = "active", !.attester = attester], ok)
  /\ attested' = [attested EXCEPT ![i] = @ \cup {attester}]
  /\ UNCHANGED <<now, policies, ceremony, refused, crossings>>

\* A mistake in override.refuse: it answers even when the write raised.
RefusesRegardless(i, ok) ==
  /\ memory[i] # NoGrant
  /\ Put(i, [memory[i] EXCEPT !.state = "refused"], ok)
  /\ refused' = refused \cup {i}
  /\ UNCHANGED <<now, policies, ceremony, attested, crossings>>

\* override.refuse, whatever the state of the grant.
override_refuse(i, ok) ==
  /\ memory[i] # NoGrant
  /\ Put(i, [memory[i] EXCEPT !.state = "refused"], ok)
  /\ refused' = IF ok THEN refused \cup {i} ELSE refused
  /\ UNCHANGED <<now, policies, ceremony, attested, crossings>>

-----------------------------------------------------------------------------
(* Expiry and use *)

Sweepable == {i \in Ids : memory[i] # NoGrant /\ memory[i].state = "active" /\ is_expired(memory[i])}

Swept(S, copy) == [i \in Ids |-> IF i \in S THEN [copy[i] EXCEPT !.state = "expired"] ELSE copy[i]]

\* override.sweep: every active grant past its time is marked, one after the
\* other.  A write that raises ends the loop, with the grant marked in memory.
override_sweep(done, raising) ==
  /\ done \subseteq Sweepable
  /\ raising \subseteq {i \in Sweepable \ done : ~memory[i].group}
  /\ \/ done = Sweepable
     \/ \E i \in Ids : raising = {i}
  /\ done \cup raising # {}
  /\ memory' = Swept(done \cup raising, memory)
  /\ disk' = [i \in Ids |-> IF i \in done /\ ~memory[i].group
                            THEN Upsert(disk[i], memory'[i]) ELSE disk[i]]
  /\ dirty' = (dirty \ done) \cup raising
  /\ UNCHANGED <<now, policies, history>>

\* is_for
is_for(g, action) == action \in g.members /\ (g.group => action \notin g.consumed_members)

\* find_active: decide() takes the first by id, which is random.
find_active(g, session, action) ==
  /\ g # NoGrant
  /\ g.session = session
  /\ is_for(g, action)
  /\ g.state = "active"
  /\ ~is_expired(g)
  /\ ~g.consumed_at

\* consume_for: a group grant is consumed with its last member.
consume_for(g, action) ==
  LET used == g.consumed_members \cup {action} IN
    CASE ~g.group -> [g EXCEPT !.state = "consumed", !.consumed_at = TRUE]
      [] g.group /\ g.members \subseteq used ->
           [g EXCEPT !.consumed_members = used, !.state = "consumed", !.consumed_at = TRUE]
      [] OTHER -> [g EXCEPT !.consumed_members = used]

\* decide() spends the grant and allows the call; when the write raises, so
\* does decide(), and the call is not made.
Decide(i, session, action, ok) ==
  /\ find_active(memory[i], session, action)
  /\ Put(i, consume_for(memory[i], action), ok)
  /\ crossings' = IF ok
                  THEN Append(crossings, [grant |-> i, session |-> session, action |-> action,
                                          at |-> now])
                  ELSE crossings
  /\ UNCHANGED <<now, policies, ceremony, attested, refused>>

-----------------------------------------------------------------------------
(* Time and restart *)

Tick == /\ now < Horizon
        /\ now' = now + 1
        /\ UNCHANGED <<policies, stores, history>>

\* The store loads the table, and the policy file may have changed.
Restart == /\ memory' = disk
           /\ dirty' = {}
           /\ policies' \in Catalogues
           /\ UNCHANGED <<now, disk, history>>

GrantStep(i) ==
  \E ok \in BOOLEAN :
    \/ \E s \in Sessions, a \in Actions :
         \/ \E f \in Floors, p \in Principals : request_override(i, s, a, f, p, ok)
         \/ Decide(i, s, a, ok)
    \/ \E p \in Principals : attest_override(i, p, ok)
    \/ override_refuse(i, ok)

Next ==
  \/ \E i \in Ids : GrantStep(i)
  \/ \E i \in Ids, s \in Sessions, m \in SUBSET Actions, f \in Floors, p \in Principals :
       request_group_override(i, s, m, f, p)
  \/ \E done, raising \in SUBSET Ids : override_sweep(done, raising)
  \/ Tick
  \/ Restart

Spec == Init /\ [][Next]_vars

-----------------------------------------------------------------------------
(* Properties *)

\* A grant allows each of its actions once, whatever writes raise and however
\* often the store is loaded again (consume_for, "One-shot").
OneCrossing ==
  \A m, n \in DOMAIN crossings :
    crossings[m].grant = crossings[n].grant /\ crossings[m].action = crossings[n].action => m = n

\* Every call that a grant allowed was asked for: in that session, for that
\* action, in time, by a principal whom the policy of that moment authorizes and,
\* under dual control, with the word of another one whom it names as attester.
\* A later policy file, a failed write or a restart does not change that.
CrossingIsAuthorized ==
  \A n \in DOMAIN crossings :
    LET c == crossings[n]
        k == ceremony[c.grant] IN
      /\ k # NoCeremony
      /\ c.session = k.session
      /\ c.action \in k.members
      /\ c.at < k.at + k.entry.expiry
      /\ k.entry.policy # "disallowed"
      /\ k.invoker \in k.entry.authorized
      /\ k.entry.policy = "dual-control" =>
           \E p \in attested[c.grant] : p \in k.entry.attesters /\ p # k.invoker

\* Once override.refuse has answered, the grant allows nothing any more, in this
\* daemon or a later one.
RefusalHolds ==
  [][\A n \in DOMAIN crossings' \ DOMAIN crossings : crossings'[n].grant \notin refused]_vars

\* What the store answers for a single grant is what a restart would load, unless
\* the last write of that grant raised.
RestartKeepsGrants ==
  \A i \in Ids : memory[i] # NoGrant /\ ~memory[i].group /\ i \notin dirty => disk[i] = memory[i]

=============================================================================
