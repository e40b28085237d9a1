------------------------ MODULE OverrideGrantsProofs ------------------------
(***************************************************************************)
(* Override grants keep their promises for every set of grants, sessions,  *)
(* principals and policy files, whatever writes fail and however often     *)
(* the daemon is restarted.                                                *)
(***************************************************************************)
EXTENDS OverrideGrants, TLAPS

(* The inductive invariant.  Its parts speak of a copy of a grant, be it in    *)
(* memory or in the table: a restart makes the one of the other.               *)

\* A copy is of what was asked for and let through, and an active one under dual
\* control has the word of its attester (k is the ceremony, words are those of the
\* attesters).
Genuine(k, words, g) ==
  /\ k # NoCeremony
  /\ g.session = k.session
  /\ g.members = k.members
  /\ g.entry = k.entry
  /\ g.invoker = k.invoker
  /\ g.expires_at = k.at + k.entry.expiry
  /\ g.entry.policy # "disallowed"
  /\ g.invoker \in g.entry.authorized
  /\ ~g.group => g.consumed_members = {}
  /\ g.entry.policy = "dual-control" /\ g.state = "active" =>
       \E p \in words : p \in g.entry.attesters /\ p # g.invoker

Genuineness ==
  \A i \in Ids : /\ memory[i] # NoGrant => Genuine(ceremony[i], attested[i], memory[i])
                 /\ disk[i] # NoGrant => Genuine(ceremony[i], attested[i], disk[i])

\* The table holds single grants, and memory knows them as such.
TableHoldsSingles ==
  \A i \in Ids : disk[i] # NoGrant =>
    ~disk[i].group /\ (memory[i] # NoGrant => ~memory[i].group)

\* A grant that was never asked for is nowhere.
AskedFor ==
  \A i \in Ids : ceremony[i] = NoCeremony =>
    memory[i] = NoGrant /\ disk[i] = NoGrant /\ i \notin refused

\* A copy that allows the action no more, and cannot come to allow it: a pending
\* grant may still be attested.
Spent(g, action) ==
  \/ g.state \in {"none", "consumed", "expired", "refused"}
  \/ g.group /\ action \in g.consumed_members

CrossingsAreSpent ==
  \A n \in DOMAIN crossings :
    /\ Spent(memory[crossings[n].grant], crossings[n].action)
    /\ Spent(disk[crossings[n].grant], crossings[n].action)

Closed(g) == g.state \in {"none", "refused"}

RefusedStay == \A i \in refused : Closed(memory[i]) /\ Closed(disk[i])

Inv == /\ TypeOK
       /\ Genuineness
       /\ TableHoldsSingles
       /\ RestartKeepsGrants
       /\ AskedFor
       /\ CrossingsAreSpent
       /\ RefusedStay
       /\ CrossingIsAuthorized
       /\ OneCrossing

-----------------------------------------------------------------------------
(* Copies *)

\* A grant there is has a state; the absent one has none of them.
LEMMA GrantIsThere ==
  ASSUME NEW g \in Grants \cup {NoGrant}
  PROVE  /\ g # NoGrant => g \in Grants
         /\ g \in Grants => g # NoGrant /\ g.state \in GrantState
         /\ g = NoGrant => g.state = "none"
  BY DEF Grants, NoGrant, GrantState

\* The same grant, later.
SameGrant(g, h) ==
  /\ h.session = g.session /\ h.group = g.group /\ h.members = g.members /\ h.entry = g.entry
  /\ h.invoker = g.invoker /\ h.expires_at = g.expires_at
  /\ ~g.group => h.consumed_members = g.consumed_members

\* What is spent or refused is not undone.
Keeps(g, h) == /\ \A a \in Actions : Spent(g, a) => Spent(h, a)
               /\ Closed(g) => Closed(h)

\* The row of a single grant becomes the grant that is written: the columns that
\* the UPSERT leaves alone are those that never change.
LEMMA UpsertWrites ==
  ASSUME NEW row \in Grants \cup {NoGrant}, NEW g \in Grants,
         row # NoGrant => SameGrant(row, g) /\ ~row.group
  PROVE  Upsert(row, g) = g
<1>1. CASE row = NoGrant
  BY <1>1 DEF Upsert
<1>2. CASE row # NoGrant
  BY <1>2, GrantIsThere DEF Upsert, SameGrant, Grants
<1> QED BY <1>1, <1>2

-----------------------------------------------------------------------------
(* What add, update and the sweep do to one grant *)

\* Nothing.
Left(i) == /\ memory'[i] = memory[i]
           /\ disk'[i] = disk[i]
           /\ i \in dirty' <=> i \in dirty

\* A grant is replaced by a later one.
Updated(i, g, ok) ==
  /\ memory[i] # NoGrant
  /\ SameGrant(memory[i], g) /\ Keeps(memory[i], g)
  /\ g.state = "active" =>
       \/ memory[i].state = "active"
       \/ \E p \in attested'[i] : p \in g.entry.attesters /\ p # g.invoker
  /\ g.group => ok
  /\ memory'[i] = g
  /\ disk'[i] = IF ok /\ ~g.group THEN Upsert(disk[i], g) ELSE disk[i]
  /\ i \in dirty' <=> ~ok

Steady(i) == Left(i) \/ \E g \in Grants, ok \in BOOLEAN : Updated(i, g, ok)

\* The table gets what memory has, or stays.
LEMMA UpdatedCopies ==
  ASSUME Inv, NEW i \in Ids, NEW g \in Grants, NEW ok \in BOOLEAN, Updated(i, g, ok)
  PROVE  /\ memory[i] \in Grants
         /\ disk'[i] = disk[i] \/ (disk'[i] = g /\ ~g.group)
         /\ ok /\ ~g.group => disk'[i] = g
         /\ g.group => disk[i] = NoGrant
<1>1. memory[i] \in Grants /\ disk[i] \in Grants \cup {NoGrant}
  BY GrantIsThere DEF Inv, TypeOK, Updated
<1>2. disk[i] # NoGrant => ~disk[i].group /\ ~memory[i].group
  BY DEF Inv, TableHoldsSingles, Updated
<1>3. disk[i] # NoGrant => SameGrant(disk[i], g)
  BY <1>1, <1>2 DEF Inv, Genuineness, Genuine, Updated, SameGrant
<1>4. Upsert(disk[i], g) = g
  BY <1>1, <1>2, <1>3, UpsertWrites
<1> QED BY <1>1, <1>2, <1>4 DEF Updated, SameGrant

LEMMA UpdatedGenuine ==
  ASSUME Inv, NEW i \in Ids, NEW g \in Grants, NEW ok \in BOOLEAN, Updated(i, g, ok),
         ceremony' = ceremony, attested[i] \subseteq attested'[i]
  PROVE  Genuine(ceremony[i], attested'[i], g)
<1>1. Genuine(ceremony[i], attested[i], memory[i])
  BY DEF Inv, Genuineness, Updated
<1>2. g.entry.policy = "dual-control" /\ g.state = "active" =>
        \E p \in attested'[i] : p \in g.entry.attesters /\ p # g.invoker
  BY <1>1 DEF Genuine, Updated, SameGrant
<1> QED BY <1>1, <1>2 DEF Genuine, Updated, SameGrant

\* Steady steps preserve all that the invariant says of the stores.
LEMMA SteadyStores ==
  ASSUME Inv, \A i \in Ids : Steady(i),
         memory' \in [Ids -> Grants \cup {NoGrant}], DOMAIN disk' = Ids,
         disk' = [i \in Ids |-> disk'[i]],
         ceremony' = ceremony, \A i \in Ids : attested[i] \subseteq attested'[i]
  PROVE  /\ disk' \in [Ids -> Grants \cup {NoGrant}]
         /\ Genuineness'
         /\ TableHoldsSingles'
         /\ RestartKeepsGrants'
         /\ \A i \in Ids : ceremony[i] = NoCeremony => memory'[i] = NoGrant /\ disk'[i] = NoGrant
         /\ \A i \in Ids : \A a \in Actions :
              Spent(memory[i], a) /\ Spent(disk[i], a) => Spent(memory'[i], a) /\ Spent(disk'[i], a)
         /\ \A i \in Ids : Closed(memory[i]) /\ Closed(disk[i]) => Closed(memory'[i]) /\ Closed(disk'[i])
<1> DEFINE
      Fits(i) == /\ disk'[i] \in Grants \cup {NoGrant}
                 /\ memory'[i] # NoGrant => Genuine(ceremony[i], attested'[i], memory'[i])
                 /\ disk'[i] # NoGrant => Genuine(ceremony[i], attested'[i], disk'[i])
                 /\ disk'[i] # NoGrant =>
                      ~disk'[i].group /\ (memory'[i] # NoGrant => ~memory'[i].group)
                 /\ memory'[i] # NoGrant /\ ~memory'[i].group /\ i \notin dirty' =>
                      disk'[i] = memory'[i]
                 /\ ceremony[i] = NoCeremony => memory'[i] = NoGrant /\ disk'[i] = NoGrant
                 /\ \A a \in Actions : Spent(memory[i], a) /\ Spent(disk[i], a) =>
                                         Spent(memory'[i], a) /\ Spent(disk'[i], a)
                 /\ Closed(memory[i]) /\ Closed(disk[i]) => Closed(memory'[i]) /\ Closed(disk'[i])
<1>1. ASSUME NEW i \in Ids, Left(i) PROVE Fits(i)
  <2>1. memory[i] # NoGrant => Genuine(ceremony[i], attested'[i], memory[i])
    BY DEF Inv, Genuineness, Genuine
  <2>2. disk[i] # NoGrant => Genuine(ceremony[i], attested'[i], disk[i])
    BY DEF Inv, Genuineness, Genuine
  <2> QED BY <1>1, <2>1, <2>2 DEF Left, Inv, TypeOK, TableHoldsSingles, RestartKeepsGrants, AskedFor
<1>2. ASSUME NEW i \in Ids, NEW g \in Grants, NEW ok \in BOOLEAN, Updated(i, g, ok) PROVE Fits(i)
  <2>1. Genuine(ceremony[i], attested'[i], g)
    BY <1>2, UpdatedGenuine
  <2>2. disk[i] # NoGrant => Genuine(ceremony[i], attested'[i], disk[i])
    BY DEF Inv, Genuineness, Genuine
  <2>3. /\ memory[i] \in Grants /\ g # NoGrant /\ memory'[i] = g
        /\ disk'[i] = disk[i] \/ (disk'[i] = g /\ ~g.group)
        /\ ok /\ ~g.group => disk'[i] = g
        /\ g.group => disk[i] = NoGrant
        /\ i \in dirty' <=> ~ok
    BY <1>2, UpdatedCopies, GrantIsThere DEF Updated
  <2>4. Keeps(memory[i], g)
    BY <1>2 DEF Updated
  <2>5. ceremony[i] # NoCeremony
    BY <2>1 DEF Genuine
  <2>6. disk[i] \in Grants \cup {NoGrant} /\ (disk[i] # NoGrant => ~disk[i].group)
    BY DEF Inv, TypeOK, TableHoldsSingles
  <2>7. disk'[i] # NoGrant => Genuine(ceremony[i], attested'[i], disk'[i])
    BY <2>1, <2>2, <2>3
  <2> QED BY <2>1, <2>3, <2>4, <2>5, <2>6, <2>7 DEF Keeps
<1>3. \A i \in Ids : Fits(i)
  BY <1>1, <1>2 DEF Steady
<1> QED BY <1>3 DEF Genuineness, TableHoldsSingles, RestartKeepsGrants

\* add and update of one grant are steady, the ones of the others included.
LEMMA PutIsSteady ==
  ASSUME Inv, NEW i \in Ids, NEW g \in Grants, NEW ok \in BOOLEAN, Put(i, g, ok),
         memory[i] # NoGrant, SameGrant(memory[i], g), Keeps(memory[i], g),
         g.state = "active" =>
           \/ memory[i].state = "active"
           \/ \E p \in attested'[i] : p \in g.entry.attesters /\ p # g.invoker
  PROVE  /\ \A j \in Ids : Steady(j)
         /\ memory' \in [Ids -> Grants \cup {NoGrant}]
         /\ disk' = [j \in Ids |-> disk'[j]] /\ DOMAIN disk' = Ids
         /\ dirty' \subseteq Ids
<1>1. memory \in [Ids -> Grants \cup {NoGrant}] /\ disk \in [Ids -> Grants \cup {NoGrant}]
      /\ dirty \subseteq Ids
  BY DEF Inv, TypeOK
<1>2. \A j \in Ids \ {i} : Left(j)
  BY <1>1 DEF Put, Persisted, Left
<1>3. Updated(i, g, ok)
  BY <1>1 DEF Put, Persisted, Updated
<1>4. \A j \in Ids : Steady(j)
  BY <1>2, <1>3 DEF Steady
<1> QED BY <1>1, <1>4 DEF Put, Persisted

LEMMA CrossingIsTyped ==
  ASSUME Inv, NEW n \in DOMAIN crossings
  PROVE  /\ crossings[n] \in Crossings
         /\ crossings[n].grant \in Ids /\ crossings[n].action \in Actions
<1>1. crossings[n] \in Crossings
  BY DEF Inv, TypeOK
<1> QED BY <1>1 DEF Crossings

\* A step that changes the stores steadily, and no history but attestations,
\* preserves the invariant.
LEMMA SteadyStep ==
  ASSUME Inv, \A i \in Ids : Steady(i),
         memory' \in [Ids -> Grants \cup {NoGrant}],
         disk' = [i \in Ids |-> disk'[i]], DOMAIN disk' = Ids, dirty' \subseteq Ids,
         attested' \in [Ids -> SUBSET Principals], \A i \in Ids : attested[i] \subseteq attested'[i],
         UNCHANGED <<now, policies, ceremony, refused, crossings>>
  PROVE  Inv'
<1>1. /\ disk' \in [Ids -> Grants \cup {NoGrant}]
      /\ Genuineness' /\ TableHoldsSingles' /\ RestartKeepsGrants'
      /\ \A i \in Ids : ceremony[i] = NoCeremony => memory'[i] = NoGrant /\ disk'[i] = NoGrant
      /\ \A i \in Ids : \A a \in Actions :
           Spent(memory[i], a) /\ Spent(disk[i], a) => Spent(memory'[i], a) /\ Spent(disk'[i], a)
      /\ \A i \in Ids : Closed(memory[i]) /\ Closed(disk[i]) => Closed(memory'[i]) /\ Closed(disk'[i])
  BY SteadyStores
<1>2. \A n \in DOMAIN crossings : crossings[n].grant \in Ids /\ crossings[n].action \in Actions
  BY CrossingIsTyped
<1>3. TypeOK'
  BY <1>1 DEF Inv, TypeOK
<1>4. AskedFor'
  BY <1>1 DEF Inv, AskedFor
<1>5. CrossingsAreSpent'
  BY <1>1, <1>2 DEF Inv, CrossingsAreSpent
<1>6. RefusedStay'
  BY <1>1 DEF Inv, TypeOK, RefusedStay
<1>7. CrossingIsAuthorized'
  BY <1>2 DEF Inv, CrossingIsAuthorized
<1>8. OneCrossing'
  BY DEF Inv, OneCrossing
<1> QED BY <1>1, <1>3, <1>4, <1>5, <1>6, <1>7, <1>8 DEF Inv

-----------------------------------------------------------------------------
(* The actions *)

LEMMA AttestStep ==
  ASSUME Inv, NEW i \in Ids, NEW p \in Principals, NEW ok \in BOOLEAN, attest_override(i, p, ok)
  PROVE  Inv'
<1> DEFINE g == [memory[i] EXCEPT !.state = "active", !.attester = p]
<1>1. memory[i] \in Grants
  BY GrantIsThere DEF attest_override, Inv, TypeOK
<1>2. /\ g \in Grants /\ SameGrant(memory[i], g) /\ Keeps(memory[i], g)
      /\ g.entry = memory[i].entry /\ g.invoker = memory[i].invoker
  BY <1>1 DEF Grants, GrantState, SameGrant, Keeps, Spent, Closed, attest_override
<1>3. /\ Put(i, g, ok) /\ attested' = [attested EXCEPT ![i] = @ \cup {p}]
      /\ p \in memory[i].entry.attesters /\ p # memory[i].invoker /\ memory[i] # NoGrant
      /\ UNCHANGED <<now, policies, ceremony, refused, crossings>>
  BY DEF attest_override
<1> HIDE DEF g
<1>4. /\ attested' \in [Ids -> SUBSET Principals] /\ p \in attested'[i]
      /\ \A j \in Ids : attested[j] \subseteq attested'[j]
  BY <1>3 DEF Inv, TypeOK
<1> QED BY <1>2, <1>3, <1>4, PutIsSteady, SteadyStep

LEMMA SweepStep ==
  ASSUME Inv, NEW done \in SUBSET Ids, NEW raising \in SUBSET Ids, override_sweep(done, raising)
  PROVE  Inv'
<1> DEFINE g(i) == [memory[i] EXCEPT !.state = "expired"]
<1>1. ASSUME NEW i \in Ids PROVE Steady(i)
  <2>1. CASE i \in done \cup raising
    <3>1. memory[i] \in Grants /\ memory[i] # NoGrant /\ memory[i].state = "active"
      BY <2>1, GrantIsThere DEF override_sweep, Sweepable, Inv, TypeOK
    <3>2. /\ g(i) \in Grants /\ SameGrant(memory[i], g(i)) /\ Keeps(memory[i], g(i))
          /\ g(i).state = "expired"
      BY <3>1 DEF Grants, GrantState, SameGrant, Keeps, Spent, Closed
    <3>3. memory'[i] = g(i)
      BY <2>1 DEF override_sweep, Swept
    <3>4. g(i).group = memory[i].group
      BY <3>2 DEF SameGrant
    <3> HIDE DEF g
    <3>5. /\ disk'[i] = IF i \in done /\ ~g(i).group THEN Upsert(disk[i], g(i)) ELSE disk[i]
          /\ i \in dirty' <=> ~(i \in done)
          /\ g(i).group => i \in done
      BY <2>1, <3>3, <3>4 DEF override_sweep
    <3>6. PICK ok \in BOOLEAN : ok <=> i \in done
      OBVIOUS
    <3>7. Updated(i, g(i), ok)
      BY <3>1, <3>2, <3>3, <3>5, <3>6 DEF Updated
    <3> QED BY <3>2, <3>7 DEF Steady
  <2>2. CASE i \notin done \cup raising
    BY <2>2 DEF override_sweep, Swept, Steady, Left
  <2> QED BY <2>1, <2>2
<1>2. memory' \in [Ids -> Grants \cup {NoGrant}]
  <2>1. \A i \in Ids : memory'[i] \in Grants \cup {NoGrant}
    BY <1>1 DEF Steady, Left, Updated, Inv, TypeOK
  <2> QED BY <2>1 DEF override_sweep, Swept
<1>3. disk' = [i \in Ids |-> disk'[i]] /\ DOMAIN disk' = Ids /\ dirty' \subseteq Ids
  BY DEF override_sweep, Inv, TypeOK
<1>4. UNCHANGED <<now, policies, ceremony, attested, refused, crossings>>
  BY DEF override_sweep, history
<1>5. attested' \in [Ids -> SUBSET Principals]
  BY <1>4 DEF Inv, TypeOK
<1> QED BY <1>1, <1>2, <1>3, <1>4, <1>5, SteadyStep

LEMMA RefuseStep ==
  ASSUME Inv, NEW i \in Ids, NEW ok \in BOOLEAN, override_refuse(i, ok)
  PROVE  Inv'
<1> DEFINE g == [memory[i] EXCEPT !.state = "refused"]
<1>1. memory[i] \in Grants /\ memory[i] # NoGrant
  BY GrantIsThere DEF override_refuse, Inv, TypeOK
<1>2. /\ g \in Grants /\ SameGrant(memory[i], g) /\ Keeps(memory[i], g) /\ g.state = "refused"
      /\ Closed(g)
  BY <1>1 DEF Grants, GrantState, SameGrant, Keeps, Spent, Closed
<1>3. /\ Put(i, g, ok) /\ refused' = IF ok THEN refused \cup {i} ELSE refused
      /\ UNCHANGED <<now, policies, ceremony, attested, crossings>>
  BY DEF override_refuse
<1> HIDE DEF g
<1>4. /\ \A j \in Ids : Steady(j)
      /\ memory' \in [Ids -> Grants \cup {NoGrant}]
      /\ disk' = [j \in Ids |-> disk'[j]] /\ DOMAIN disk' = Ids
      /\ dirty' \subseteq Ids
  BY <1>1, <1>2, <1>3, PutIsSteady
<1>5. /\ disk' \in [Ids -> Grants \cup {NoGrant}]
      /\ Genuineness' /\ TableHoldsSingles' /\ RestartKeepsGrants'
      /\ \A j \in Ids : ceremony[j] = NoCeremony => memory'[j] = NoGrant /\ disk'[j] = NoGrant
      /\ \A j \in Ids : \A a \in Actions :
           Spent(memory[j], a) /\ Spent(disk[j], a) => Spent(memory'[j], a) /\ Spent(disk'[j], a)
      /\ \A j \in Ids : Closed(memory[j]) /\ Closed(disk[j]) => Closed(memory'[j]) /\ Closed(disk'[j])
  BY <1>3, <1>4, SteadyStores
<1>6. ok => Closed(memory'[i]) /\ Closed(disk'[i])
  <2>1. memory'[i] = g
    BY <1>3 DEF Put, Inv, TypeOK
  <2>2. CASE g.group
    <3>1. disk[i] = NoGrant
      BY <1>1, <1>2, <2>2 DEF Inv, TableHoldsSingles, SameGrant
    <3> QED BY <1>2, <1>3, <2>1, <2>2, <3>1 DEF Put, Persisted, Closed, NoGrant
  <2>3. CASE ~g.group
    <3>1. ok => i \notin dirty'
      BY <1>3 DEF Put
    <3>2. g # NoGrant
      BY <1>2, GrantIsThere
    <3> QED BY <1>2, <1>5, <2>1, <2>3, <3>1, <3>2 DEF RestartKeepsGrants
  <2> QED BY <2>2, <2>3
<1>7. ceremony[i] # NoCeremony
  BY <1>1 DEF Inv, AskedFor
<1>8. TypeOK'
  BY <1>3, <1>4, <1>5 DEF Inv, TypeOK
<1>9. AskedFor'
  BY <1>3, <1>5, <1>7 DEF Inv, AskedFor
<1>10. CrossingsAreSpent'
  BY <1>3, <1>5, CrossingIsTyped DEF Inv, CrossingsAreSpent
<1>11. RefusedStay'
  BY <1>3, <1>5, <1>6 DEF Inv, TypeOK, RefusedStay
<1>12. CrossingIsAuthorized' /\ OneCrossing'
  BY <1>3 DEF Inv, CrossingIsAuthorized, OneCrossing
<1> QED BY <1>5, <1>8, <1>9, <1>10, <1>11, <1>12 DEF Inv

\* consume_for makes a later copy of the grant that allows the action no more.
LEMMA ConsumedGrant ==
  ASSUME NEW g \in Grants, NEW a \in Actions, g.state = "active",
         ~g.group => g.consumed_members = {}
  PROVE  /\ consume_for(g, a) \in Grants
         /\ SameGrant(g, consume_for(g, a)) /\ Keeps(g, consume_for(g, a))
         /\ Spent(consume_for(g, a), a)
<1> DEFINE used == g.consumed_members \cup {a}
<1>0. used \in SUBSET Actions /\ a \in used /\ g.consumed_members \subseteq used
  BY DEF Grants
<1>1. CASE ~g.group
  BY <1>1 DEF consume_for, Grants, GrantState, SameGrant, Keeps, Spent, Closed
<1>2. CASE g.group /\ g.members \subseteq used
  <2>1. consume_for(g, a) =
          [g EXCEPT !.consumed_members = used, !.state = "consumed", !.consumed_at = TRUE]
    BY <1>2 DEF consume_for
  <2> HIDE DEF used
  <2> QED BY <1>0, <1>2, <2>1 DEF Grants, GrantState, SameGrant, Keeps, Spent, Closed
<1>3. CASE g.group /\ ~(g.members \subseteq used)
  <2>1. consume_for(g, a) = [g EXCEPT !.consumed_members = used]
    BY <1>3 DEF consume_for
  <2> HIDE DEF used
  <2> QED BY <1>0, <1>3, <2>1 DEF Grants, GrantState, SameGrant, Keeps, Spent, Closed
<1> QED BY <1>1, <1>2, <1>3

\* A grant that find_active returns has not allowed the action, and is not refused.
LEMMA FoundIsUnspent ==
  ASSUME Inv, NEW i \in Ids, NEW s \in Sessions, NEW a \in Actions,
         find_active(memory[i], s, a)
  PROVE  /\ memory[i] \in Grants /\ memory[i] # NoGrant /\ memory[i].state = "active"
         /\ Genuine(ceremony[i], attested[i], memory[i])
         /\ memory[i].session = s /\ a \in memory[i].members /\ now < memory[i].expires_at
         /\ ~Spent(memory[i], a)
         /\ i \notin refused
<1>1. memory[i] \in Grants /\ memory[i] # NoGrant /\ memory[i].state = "active"
  BY GrantIsThere DEF find_active, Inv, TypeOK
<1>2. now \in Nat /\ memory[i].expires_at \in Nat
  BY <1>1, HorizonIsNat DEF Inv, TypeOK, Grants
<1>3. ~Spent(memory[i], a)
  BY <1>1 DEF find_active, is_for, Spent
<1>4. i \notin refused
  BY <1>1 DEF Inv, RefusedStay, Closed
<1>5. now < memory[i].expires_at
  BY <1>2 DEF find_active, is_expired
<1> QED BY <1>1, <1>3, <1>4, <1>5 DEF find_active, is_for, Inv, Genuineness

LEMMA DecideStep ==
  ASSUME Inv, NEW i \in Ids, NEW s \in Sessions, NEW a \in Actions, NEW ok \in BOOLEAN,
         Decide(i, s, a, ok)
  PROVE  Inv'
<1> DEFINE g == consume_for(memory[i], a)
           c == [grant |-> i, session |-> s, action |-> a, at |-> now]
<1>1. /\ memory[i] \in Grants /\ memory[i] # NoGrant /\ memory[i].state = "active"
      /\ Genuine(ceremony[i], attested[i], memory[i])
      /\ memory[i].session = s /\ a \in memory[i].members /\ now < memory[i].expires_at
      /\ ~Spent(memory[i], a)
      /\ i \notin refused
  BY FoundIsUnspent DEF Decide
<1>2. /\ g \in Grants /\ SameGrant(memory[i], g) /\ Keeps(memory[i], g) /\ Spent(g, a)
  BY <1>1, ConsumedGrant DEF Genuine
<1>3. /\ Put(i, g, ok)
      /\ crossings' = IF ok THEN Append(crossings, c) ELSE crossings
      /\ UNCHANGED <<now, policies, ceremony, attested, refused>>
  BY DEF Decide
<1> HIDE DEF g
<1>4. /\ \A j \in Ids : Steady(j)
      /\ memory' \in [Ids -> Grants \cup {NoGrant}]
      /\ disk' = [j \in Ids |-> disk'[j]] /\ DOMAIN disk' = Ids
      /\ dirty' \subseteq Ids
  BY <1>1, <1>2, <1>3, PutIsSteady
<1>5. CASE ~ok
  <2>1. attested' \in [Ids -> SUBSET Principals]
    BY <1>3 DEF Inv, TypeOK
  <2> QED BY <1>3, <1>4, <1>5, <2>1, SteadyStep
<1>6. CASE ok
  <2>1. /\ disk' \in [Ids -> Grants \cup {NoGrant}]
        /\ Genuineness' /\ TableHoldsSingles' /\ RestartKeepsGrants'
        /\ \A j \in Ids : ceremony[j] = NoCeremony => memory'[j] = NoGrant /\ disk'[j] = NoGrant
        /\ \A j \in Ids : \A b \in Actions :
             Spent(memory[j], b) /\ Spent(disk[j], b) => Spent(memory'[j], b) /\ Spent(disk'[j], b)
        /\ \A j \in Ids : Closed(memory[j]) /\ Closed(disk[j]) => Closed(memory'[j]) /\ Closed(disk'[j])
    BY <1>3, <1>4, SteadyStores
  <2>2. c \in Crossings
    BY DEF Inv, TypeOK, Crossings
  <2>3. crossings \in Seq(Crossings)
    BY DEF Inv, TypeOK
  <2> DEFINE last == Len(crossings) + 1
  <2>4. /\ crossings' \in Seq(Crossings)
        /\ last \notin DOMAIN crossings
        /\ DOMAIN crossings' = DOMAIN crossings \cup {last}
        /\ crossings'[last] = c
        /\ \A n \in DOMAIN crossings : crossings'[n] = crossings[n]
    BY <1>3, <1>6, <2>2, <2>3
  <2>5. c.grant = i /\ c.session = s /\ c.action = a /\ c.at = now
    OBVIOUS
  <2> HIDE DEF c, last
  <2>6. Spent(memory'[i], a) /\ Spent(disk'[i], a)
    <3>1. memory'[i] = g
      BY <1>3 DEF Put, Inv, TypeOK
    <3>2. CASE g.group
      <4>1. disk[i] = NoGrant
        BY <1>1, <1>2, <3>2 DEF Inv, TableHoldsSingles, SameGrant
      <4> QED BY <1>2, <1>3, <3>1, <3>2, <4>1 DEF Put, Persisted, Spent, NoGrant
    <3>3. CASE ~g.group
      <4>1. i \notin dirty'
        BY <1>3, <1>6 DEF Put
      <4>2. g # NoGrant
        BY <1>2, GrantIsThere
      <4> QED BY <1>2, <2>1, <3>1, <3>3, <4>1, <4>2 DEF RestartKeepsGrants
    <3> QED BY <3>2, <3>3
  <2>7. CrossingsAreSpent'
    BY <2>1, <2>4, <2>5, <2>6, CrossingIsTyped DEF Inv, CrossingsAreSpent
  <2>8. \A n \in DOMAIN crossings : ~(crossings[n].grant = i /\ crossings[n].action = a)
    BY <1>1 DEF Inv, CrossingsAreSpent
  <2>9. OneCrossing'
    BY <2>4, <2>5, <2>8 DEF Inv, OneCrossing
  <2>10. CrossingIsAuthorized'
    <3> DEFINE k == ceremony[i]
    <3>1. /\ k # NoCeremony /\ s = k.session /\ a \in k.members
          /\ now < k.at + k.entry.expiry
          /\ k.entry.policy # "disallowed" /\ k.invoker \in k.entry.authorized
          /\ k.entry.policy = "dual-control" =>
               \E p \in attested[i] : p \in k.entry.attesters /\ p # k.invoker
      BY <1>1 DEF Genuine
    <3> HIDE DEF k
    <3>2. \A n \in DOMAIN crossings : crossings'[n] = crossings[n] /\ n # last
      BY <2>4
    <3> QED BY <1>3, <2>4, <2>5, <3>1, <3>2, SMTT(20) DEF Inv, CrossingIsAuthorized, k
  <2>11. TypeOK'
    BY <1>3, <1>4, <2>1, <2>4 DEF Inv, TypeOK
  <2>12. AskedFor'
    BY <1>3, <2>1 DEF Inv, AskedFor
  <2>13. RefusedStay'
    BY <1>3, <2>1 DEF Inv, TypeOK, RefusedStay
  <2> QED BY <2>1, <2>7, <2>9, <2>10, <2>11, <2>12, <2>13 DEF Inv
<1> QED BY <1>5, <1>6

\* What get returns is a policy entry or none: the operator's declaration is
\* typed, and so is the default of the personal profile.
LEMMA EntryIsTyped ==
  ASSUME TypeOK, NEW f \in Floors, get(f) # NoEntry
  PROVE  get(f) \in Entries /\ get(f).expiry \in Nat
<1>1. get(f) \in Entries
  BY CataloguesAreTyped, ExpiryIsBounded DEF TypeOK, get, Entries, OverridePolicy
<1> QED BY <1>1, ExpiryIsBounded DEF Entries

LEMMA RequestStep ==
  ASSUME Inv, NEW i \in Ids, NEW s \in Sessions, NEW m \in SUBSET Actions, NEW group \in BOOLEAN,
         NEW f \in Floors, NEW p \in Principals, NEW ok \in BOOLEAN,
         Request(i, s, m, group, f, p, ok)
  PROVE  Inv'
<1> DEFINE e == get(f)
           g == NewGrant(s, m, group, e, p)
           k == [session |-> s, members |-> m, entry |-> e, invoker |-> p, at |-> now]
<1>1. /\ ceremony[i] = NoCeremony /\ memory[i] = NoGrant /\ disk[i] = NoGrant /\ i \notin refused
      /\ ceremony' = [ceremony EXCEPT ![i] = k]
      /\ Put(i, g, ok)
      /\ UNCHANGED <<now, policies, attested, refused, crossings>>
  BY DEF Request, Inv, AskedFor
<1>2. /\ e \in Entries /\ e.expiry \in Nat /\ e.policy # "disallowed" /\ p \in e.authorized
  BY EntryIsTyped DEF Request, gate_request, Inv
<1>3. now \in 0 .. Horizon /\ now \in Nat
  BY HorizonIsNat DEF Inv, TypeOK
<1> HIDE DEF e
<1>4. g \in Grants /\ g.group = group
  <2>1. initial_state(e) \in GrantState /\ now + e.expiry \in Nat
    BY <1>2, <1>3 DEF initial_state, GrantState
  <2> QED BY <1>2, <2>1 DEF NewGrant, Grants
<1>5. k \in Ceremonies /\ k # NoCeremony
  BY <1>2, <1>3 DEF Ceremonies, NoCeremony
<1>6. Genuine(k, attested[i], g)
  BY <1>2, <1>5 DEF Genuine, NewGrant, initial_state
<1> HIDE DEF g, k
<1>7. /\ memory' = [memory EXCEPT ![i] = g]
      /\ disk' = IF ok /\ ~group THEN [disk EXCEPT ![i] = g] ELSE disk
      /\ dirty' \subseteq Ids
      /\ \A j \in Ids \ {i} : j \in dirty' <=> j \in dirty
      /\ i \in dirty' <=> ~ok
      /\ group => ok
  BY <1>1, <1>4 DEF Put, Persisted, Upsert, Inv, TypeOK
<1>8. /\ memory'[i] = g /\ g # NoGrant /\ disk'[i] = (IF ok /\ ~group THEN g ELSE NoGrant)
      /\ ceremony'[i] = k /\ attested'[i] = attested[i]
      /\ \A j \in Ids \ {i} : /\ memory'[j] = memory[j] /\ disk'[j] = disk[j]
                              /\ ceremony'[j] = ceremony[j] /\ attested'[j] = attested[j]
  BY <1>1, <1>4, <1>7, GrantIsThere DEF Inv, TypeOK
<1>9. \A n \in DOMAIN crossings : crossings[n].grant \in Ids \ {i}
  BY <1>1, CrossingIsTyped DEF Inv, CrossingIsAuthorized
<1>10. TypeOK'
  BY <1>1, <1>4, <1>5, <1>7 DEF Inv, TypeOK
<1>11. Genuineness'
  BY <1>6, <1>8 DEF Inv, Genuineness
<1>12. TableHoldsSingles' /\ RestartKeepsGrants'
  BY <1>4, <1>7, <1>8 DEF Inv, TableHoldsSingles, RestartKeepsGrants
<1>13. AskedFor'
  BY <1>1, <1>5, <1>8 DEF Inv, AskedFor
<1>14. CrossingsAreSpent' /\ CrossingIsAuthorized' /\ OneCrossing'
  BY <1>1, <1>8, <1>9 DEF Inv, CrossingsAreSpent, CrossingIsAuthorized, OneCrossing
<1>15. RefusedStay'
  BY <1>1, <1>8 DEF Inv, TypeOK, RefusedStay
<1> QED BY <1>10, <1>11, <1>12, <1>13, <1>14, <1>15 DEF Inv

LEMMA RestartStep ==
  ASSUME Inv, Restart
  PROVE  Inv'
<1>1. /\ memory' = disk /\ disk' = disk /\ dirty' = {} /\ policies' \in Catalogues
      /\ UNCHANGED <<now, ceremony, attested, refused, crossings>>
  BY DEF Restart, history
<1>2. TypeOK'
  BY <1>1 DEF Inv, TypeOK
<1>3. Genuineness' /\ TableHoldsSingles' /\ RestartKeepsGrants' /\ AskedFor'
  BY <1>1 DEF Inv, Genuineness, TableHoldsSingles, RestartKeepsGrants, AskedFor
<1>4. CrossingsAreSpent' /\ RefusedStay' /\ CrossingIsAuthorized' /\ OneCrossing'
  BY <1>1 DEF Inv, CrossingsAreSpent, RefusedStay, CrossingIsAuthorized, OneCrossing
<1> QED BY <1>2, <1>3, <1>4 DEF Inv

LEMMA TickStep ==
  ASSUME Inv, Tick \/ UNCHANGED vars
  PROVE  Inv'
<1>1. UNCHANGED <<policies, memory, disk, dirty, ceremony, attested, refused, crossings>>
  BY DEF Tick, vars, stores, history
<1>2. TypeOK'
  BY <1>1, HorizonIsNat DEF Inv, TypeOK, Tick, vars
<1>3. Genuineness' /\ TableHoldsSingles' /\ RestartKeepsGrants' /\ AskedFor'
  BY <1>1 DEF Inv, Genuineness, TableHoldsSingles, RestartKeepsGrants, AskedFor
<1>4. CrossingsAreSpent' /\ RefusedStay' /\ CrossingIsAuthorized' /\ OneCrossing'
  BY <1>1 DEF Inv, CrossingsAreSpent, RefusedStay, CrossingIsAuthorized, OneCrossing
<1> QED BY <1>2, <1>3, <1>4 DEF Inv

-----------------------------------------------------------------------------
(* The theorems *)

LEMMA InitInv == Init => Inv
<1> SUFFICES ASSUME Init PROVE Inv
  OBVIOUS
<1>1. TypeOK
  BY HorizonIsNat DEF Init, TypeOK
<1>2. /\ \A i \in Ids : memory[i] = NoGrant /\ disk[i] = NoGrant
      /\ refused = {} /\ DOMAIN crossings = {}
  BY DEF Init
<1> QED BY <1>1, <1>2 DEF Inv, Genuineness, TableHoldsSingles, RestartKeepsGrants, AskedFor,
                          CrossingsAreSpent, RefusedStay, CrossingIsAuthorized, OneCrossing

LEMMA StepInv == Inv /\ [Next]_vars => Inv'
<1> SUFFICES ASSUME Inv, [Next]_vars PROVE Inv'
  OBVIOUS
<1>1. ASSUME NEW i \in Ids, GrantStep(i) PROVE Inv'
  BY <1>1, RequestStep, DecideStep, AttestStep, RefuseStep DEF GrantStep, request_override
<1>2. ASSUME NEW i \in Ids, NEW s \in Sessions, NEW m \in SUBSET Actions, NEW f \in Floors,
             NEW p \in Principals, request_group_override(i, s, m, f, p)
      PROVE  Inv'
  BY <1>2, RequestStep DEF request_group_override
<1> QED BY <1>1, <1>2, SweepStep, RestartStep, TickStep DEF Next

LEMMA InvAlways == Spec => []Inv
  BY InitInv, StepInv, PTL DEF Spec

\* The stores and the history are well formed in every state.
THEOREM TypeCorrect == Spec => []TypeOK
<1>1. Inv => TypeOK BY DEF Inv
<1> QED BY <1>1, InvAlways, PTL

\* No grant allows an action twice, whatever writes raise and however often the
\* store is loaded again.
THEOREM OneCrossingAlways == Spec => []OneCrossing
<1>1. Inv => OneCrossing BY DEF Inv
<1> QED BY <1>1, InvAlways, PTL

\* Every call that a grant allowed was asked for and, where the policy of that
\* moment wants it, attested by another principal.
THEOREM CrossingIsAuthorizedAlways == Spec => []CrossingIsAuthorized
<1>1. Inv => CrossingIsAuthorized BY DEF Inv
<1> QED BY <1>1, InvAlways, PTL

\* A restart loads what the store has answered, unless the last write raised.
THEOREM RestartKeepsGrantsAlways == Spec => []RestartKeepsGrants
<1>1. Inv => RestartKeepsGrants BY DEF Inv
<1> QED BY <1>1, InvAlways, PTL

\* A refusal that was reported holds for ever.
THEOREM RefusalHoldsAlways == Spec => RefusalHolds
<1> DEFINE Step == \A n \in DOMAIN crossings' \ DOMAIN crossings : crossings'[n].grant \notin refused
<1>1. Inv /\ [Next]_vars => [Step]_vars
  <2> SUFFICES ASSUME Inv, Next PROVE Step
    OBVIOUS
  <2>1. ASSUME NEW i \in Ids, NEW s \in Sessions, NEW a \in Actions, NEW ok \in BOOLEAN,
               Decide(i, s, a, ok)
        PROVE  Step
    <3> DEFINE c == [grant |-> i, session |-> s, action |-> a, at |-> now]
    <3>1. i \notin refused
      BY <2>1, FoundIsUnspent DEF Decide
    <3>2. crossings' = Append(crossings, c) \/ crossings' = crossings
      BY <2>1 DEF Decide
    <3>3. crossings \in Seq(Crossings) /\ c \in Crossings /\ c.grant = i
      BY DEF Inv, TypeOK, Crossings
    <3> HIDE DEF c
    <3>4. CASE crossings' = Append(crossings, c)
      <4>1. /\ DOMAIN crossings' \ DOMAIN crossings = {Len(crossings) + 1}
            /\ crossings'[Len(crossings) + 1] = c
        BY <3>3, <3>4
      <4> QED BY <3>1, <3>3, <4>1
    <3> QED BY <3>2, <3>4
  <2>2. CASE crossings' = crossings
    BY <2>2
  <2> HIDE DEF Step
  <2>3. ASSUME NEW i \in Ids, GrantStep(i) PROVE Step
    BY <2>1, <2>2, <2>3 DEF GrantStep, request_override, Request, attest_override, override_refuse
  <2>4. ASSUME NEW i \in Ids, NEW s \in Sessions, NEW m \in SUBSET Actions, NEW f \in Floors,
               NEW p \in Principals, request_group_override(i, s, m, f, p)
        PROVE  Step
    BY <2>2, <2>4 DEF request_group_override, Request
  <2>5. ASSUME NEW done \in SUBSET Ids, NEW raising \in SUBSET Ids, override_sweep(done, raising)
        PROVE  Step
    BY <2>2, <2>5 DEF override_sweep, history
  <2>6. CASE Tick \/ Restart
    BY <2>2, <2>6 DEF Tick, Restart, history
  <2> QED BY <2>3, <2>4, <2>5, <2>6 DEF Next
<1> QED BY <1>1, InvAlways, PTL DEF Spec, RefusalHolds

=============================================================================
